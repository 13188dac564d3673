------------------------------ MODULE ScanTasks ------------------------------
(***************************************************************************)
(* The scans a single Celery task runs: ping discovery, web and dependency *)
(* (SCA) scans, from the form that creates the row to the last write of    *)
(* the task, with the Stop, Delete and Rescan buttons.                     *)
(*                                                                         *)
(* A task is executed once per delivery of its message.  The broker may    *)
(* deliver a message a second time when no worker has started it in time,  *)
(* and one container runs every worker process: when it is restarted, the  *)
(* running tasks are lost, and so are the revoked ids it remembered.       *)
(*                                                                         *)
(* Only the ping task looks at the status of its row, and only at the top  *)
(* of its loop over the blocks, in what its session last loaded.           *)
(***************************************************************************)
EXTENDS Naturals, FiniteSets

CONSTANTS Scans,       \* rows of the scans table
          Kinds,       \* kinds of scan that are started
          MaxBlocks,   \* bound: blocks of a ping scan
          Shown,       \* blocks that fit in the 255 characters of "target"
          MaxDeliveries, \* bound: deliveries of a message
          Requests,    \* bound: web requests that stop or delete a scan
          MaxMishaps   \* bound: lost processes, messages, database errors

AllKinds == {"ping", "web", "sca"}

ASSUME ScanTasksAssumption ==
  /\ Kinds \subseteq AllKinds
  /\ MaxBlocks \in Nat \ {0}
  /\ Shown \in Nat \ {0}
  /\ MaxDeliveries \in Nat \ {0}
  /\ MaxMishaps \in Nat

Deliveries == 1..MaxDeliveries

Stored  == {"pending", "running", "completed", "failed", "cancelled"}
Row     == Stored \cup {"unborn", "deleted"}
Working == {"begin", "loop", "probe", "work", "save", "finish", "tail", "failing"}
Stage   == Working \cup {"absent", "queued", "done", "dead"}

VARIABLES
  row,       \* scan: status column, "unborn" before and "deleted" after
  kind,      \* scan: what kind it is
  blocks,    \* scan: blocks handed to its task
  taskId,    \* scan: the row holds the id of its task
  launch,    \* scan: where the request that starts it is
  revoked,   \* scan: control.revoke of its task: "no", "sent" or "known"
  results,   \* scan: hosts or findings have been written for it
  stage,     \* scan, delivery: where the execution is
  cache,     \* scan, delivery: status in the session, "none" without a row
  left,      \* scan, delivery: blocks the loop has not begun
  request,   \* request: what it is doing, and to which scan
  mishaps,
  \* History, read by no action.
  twice,     \* scan: its message was delivered a second time
  hit,       \* scan: a mishap has struck it
  heeded,    \* scan: a Stop was committed with two blocks still to begin
  caught     \* scan: a revoke found its message still in the queue

scanVars == <<kind, blocks>>
workVars == <<stage, cache, left>>
history  == <<twice, hit, heeded, caught>>
vars     == <<row, scanVars, taskId, launch, revoked, results, workVars,
              request, mishaps, history>>

Idle == [do |-> "idle"]

Init ==
  /\ row = [s \in Scans |-> "unborn"]
  /\ kind = [s \in Scans |-> "none"]
  /\ blocks = [s \in Scans |-> 0]
  /\ taskId = [s \in Scans |-> FALSE]
  /\ launch = [s \in Scans |-> "none"]
  /\ revoked = [s \in Scans |-> "no"]
  /\ results = [s \in Scans |-> FALSE]
  /\ stage = [s \in Scans |-> [d \in Deliveries |-> "absent"]]
  /\ cache = [s \in Scans |-> [d \in Deliveries |-> "none"]]
  /\ left = [s \in Scans |-> [d \in Deliveries |-> 0]]
  /\ request = [q \in Requests |-> Idle]
  /\ mishaps = 0
  /\ twice = [s \in Scans |-> FALSE]
  /\ hit = [s \in Scans |-> FALSE]
  /\ heeded = [s \in Scans |-> FALSE]
  /\ caught = [s \in Scans |-> FALSE]

-----------------------------------------------------------------------------
(* The requests that start a scan.                                         *)

Exists(s) == row[s] \in Stored

\* create_scan: a pending row, committed before the task is sent.
CreateScan(s, k, n) ==
  /\ row[s] = "unborn"
  /\ row' = [row EXCEPT ![s] = "pending"]
  /\ kind' = [kind EXCEPT ![s] = k]
  /\ blocks' = [blocks EXCEPT ![s] = n]
  /\ launch' = [launch EXCEPT ![s] = "send"]
  /\ UNCHANGED <<taskId, revoked, results, workVars, request, mishaps, history>>

\* The blocks in scope of a ping scan, one URL, one manifest.
Start(s) ==
  \E k \in Kinds, n \in 1..MaxBlocks :
    /\ k # "ping" => n = 1
    /\ CreateScan(s, k, n)

\* What split() finds in "target": every block, or the first of a text that
\* was shortened to "first (+n blok)"; the scope guard refuses the rest.
Displayed(n) == IF n <= Shown THEN n ELSE 1

\* A ping or web scan that was started with m blocks is repeated.
Rescan(s) ==
  \E k \in Kinds \ {"sca"}, m \in 1..MaxBlocks :
    /\ k # "ping" => m = 1
    /\ CreateScan(s, k, Displayed(m))

Goto(s, d, where) == stage' = [stage EXCEPT ![s][d] = where]

\* task.delay
Send(s) ==
  /\ launch[s] = "send"
  /\ launch' = [launch EXCEPT ![s] = IF kind[s] = "ping" THEN "task_id" ELSE "done"]
  /\ Goto(s, 1, "queued")
  /\ UNCHANGED <<row, scanVars, taskId, revoked, results, cache, left, request,
                 mishaps, history>>

\* Only a ping scan keeps the id of its task.
WriteTaskId(s) ==
  /\ launch[s] = "task_id"
  /\ launch' = [launch EXCEPT ![s] = "done"]
  /\ taskId' = [taskId EXCEPT ![s] = Exists(s)]
  /\ UNCHANGED <<row, scanVars, revoked, results, workVars, request, mishaps, history>>

-----------------------------------------------------------------------------
(* The session primitives of core/scans.py, in the session of delivery d.  *)

Visible(s) == IF Exists(s) THEN row[s] ELSE "none"

\* The row is gone and the session still holds the object: a write raises.
Lost(s, d) == ~Exists(s) /\ cache[s][d] # "none"

Progress(s, d, where) ==
  /\ cache' = [cache EXCEPT ![s][d] = Visible(s)]
  /\ Goto(s, d, IF Lost(s, d) THEN "failing" ELSE where)
  /\ UNCHANGED row

\* The session is closed, or gone with its process.
Ends(s, d, how) ==
  /\ Goto(s, d, how)
  /\ cache' = [cache EXCEPT ![s][d] = "none"]
  /\ left' = [left EXCEPT ![s][d] = 0]

\* Executions that are lost with their process.
Terminate(S) ==
  LET lost(s, d) == s \in S /\ stage[s][d] \in Working IN
    /\ stage' = [s \in Scans |-> [d \in Deliveries |-> IF lost(s, d) THEN "dead" ELSE stage[s][d]]]
    /\ cache' = [s \in Scans |-> [d \in Deliveries |-> IF lost(s, d) THEN "none" ELSE cache[s][d]]]
    /\ left' = [s \in Scans |-> [d \in Deliveries |-> IF lost(s, d) THEN 0 ELSE left[s][d]]]

\* Writing the value the session already holds issues no UPDATE.
SetStatus(s, d, new, where) ==
  /\ row' = [row EXCEPT ![s] = IF Exists(s) /\ cache[s][d] # new THEN new ELSE @]
  /\ cache' = [cache EXCEPT ![s][d] = IF Exists(s) THEN row'[s] ELSE "none"]
  /\ Goto(s, d, IF Lost(s, d) THEN "failing" ELSE where)

other == <<scanVars, taskId, launch, revoked, request, mishaps, history>>

-----------------------------------------------------------------------------
(* The task.                                                               *)

\* A worker process takes the message; its session loads the row.
Pick(s, d) ==
  /\ stage[s][d] = "queued" /\ revoked[s] # "known"
  /\ Goto(s, d, "begin")
  /\ cache' = [cache EXCEPT ![s][d] = Visible(s)]
  /\ UNCHANGED <<row, left, results, other>>

Discard(s, d) ==
  /\ stage[s][d] = "queued" /\ revoked[s] = "known"
  /\ Goto(s, d, "dead")
  /\ UNCHANGED <<row, cache, left, results, other>>

\* Every block has left the scope, or the name of the URL resolves no more.
Denied(s, d) ==
  /\ stage[s][d] = "begin" /\ kind[s] # "sca"
  /\ SetStatus(s, d, "failed", "tail")
  /\ UNCHANGED <<left, results, other>>

Begin(s, d) ==
  /\ stage[s][d] = "begin"
  /\ SetStatus(s, d, "running", IF kind[s] = "ping" THEN "loop" ELSE "work")
  /\ \E n \in 1..blocks[s] : left' = [left EXCEPT ![s][d] = n]
  /\ UNCHANGED <<results, other>>

\* The top of the ping loop: the status as of the last refresh.
Cancelled(s, d) ==
  /\ stage[s][d] = "loop" /\ left[s][d] > 0 /\ cache[s][d] = "cancelled"
  /\ Ends(s, d, "done")
  /\ UNCHANGED <<row, results, other>>

\* Mutant: the loop does not advance.
NextBlockStuck(s, d) ==
  /\ stage[s][d] = "loop" /\ left[s][d] > 0 /\ cache[s][d] # "cancelled"
  /\ Progress(s, d, "probe")
  /\ UNCHANGED <<left, results, other>>

\* Mutant: the progress write does not refresh what the session holds.
NextBlockStale(s, d) ==
  /\ stage[s][d] = "loop" /\ left[s][d] > 0 /\ cache[s][d] # "cancelled"
  /\ left' = [left EXCEPT ![s][d] = @ - 1]
  /\ Goto(s, d, IF Lost(s, d) THEN "failing" ELSE "probe")
  /\ UNCHANGED <<row, cache, results, other>>

NextBlock(s, d) ==
  /\ stage[s][d] = "loop" /\ left[s][d] > 0 /\ cache[s][d] # "cancelled"
  /\ left' = [left EXCEPT ![s][d] = @ - 1]
  /\ Progress(s, d, "probe")
  /\ UNCHANGED <<results, other>>

Probed(s, d) ==
  /\ stage[s][d] = "probe"
  /\ Goto(s, d, "loop")
  /\ UNCHANGED <<row, cache, left, results, other>>

\* Progress 80 of a ping scan, the last progress of the other kinds.
WorkDone(s, d) ==
  /\ \/ stage[s][d] = "loop" /\ left[s][d] = 0
     \/ stage[s][d] = "work"
  /\ Progress(s, d, "save")
  /\ UNCHANGED <<left, results, other>>

\* Hosts or findings; a finding of a deleted scan raises.
Save(s, d) ==
  /\ stage[s][d] = "save"
  /\ Goto(s, d, "finish")
  /\ results' = [results EXCEPT ![s] = @ \/ Exists(s)]
  /\ UNCHANGED <<row, cache, left, other>>

\* Mutant: the status is written before the results.
FinishEarly(s, d) ==
  /\ stage[s][d] \in {"save", "finish"}
  /\ SetStatus(s, d, "completed", "tail")
  /\ UNCHANGED <<left, results, other>>

Finish(s, d) ==
  /\ stage[s][d] = "finish"
  /\ SetStatus(s, d, "completed", "tail")
  /\ UNCHANGED <<left, results, other>>

\* The audit log and, for a web scan, progress 100.
Tail(s, d) ==
  /\ stage[s][d] = "tail"
  /\ Ends(s, d, "done")
  /\ UNCHANGED <<row, results, other>>

\* nmap, OSV, the target or the database raise.
Raise(s, d) ==
  /\ stage[s][d] \in Working \ {"failing"}
  /\ Goto(s, d, "failing")
  /\ UNCHANGED <<row, cache, left, results, other>>

\* Mutant: a failure before the first write puts the scan back in line.
MarkPending(s, d) ==
  /\ stage[s][d] = "failing"
  /\ row' = [row EXCEPT ![s] = IF Exists(s) THEN "pending" ELSE @]
  /\ Ends(s, d, "done")
  /\ UNCHANGED <<results, other>>

\* _mark_failed, in a session of its own, whatever the status is.
MarkFailed(s, d) ==
  /\ stage[s][d] = "failing"
  /\ row' = [row EXCEPT ![s] = IF Exists(s) THEN "failed" ELSE @]
  /\ Ends(s, d, "done")
  /\ UNCHANGED <<results, other>>

-----------------------------------------------------------------------------
(* The Stop and Delete buttons.                                            *)

\* stop_scan_web: load, look at the status, revoke if there is a task id.
AskStop(q, s) ==
  /\ request[q] = Idle /\ row[s] \in {"pending", "running"}
  /\ request' = [request EXCEPT ![q] = [do |-> "stop", scan |-> s]]
  /\ revoked' = [revoked EXCEPT ![s] = IF taskId[s] /\ @ = "no" THEN "sent" ELSE @]
  /\ UNCHANGED <<row, scanVars, taskId, launch, results, workVars, mishaps, history>>

\* One execution that has two more blocks to begin, and no other to come.
StopInTime(s) ==
  \E d \in Deliveries :
    /\ stage[s][d] \in {"loop", "probe"} /\ left[s][d] >= 2
    /\ \A e \in Deliveries \ {d} : stage[s][e] \notin Working \cup {"queued"}

\* Its session holds "pending" or "running": the write overwrites the row,
\* and raises if the row is gone.
Stop(q) ==
  /\ request[q].do = "stop"
  /\ LET s == request[q].scan IN
       /\ row' = [row EXCEPT ![s] = IF Exists(s) THEN "cancelled" ELSE @]
       /\ heeded' = [heeded EXCEPT ![s] = @ \/ (Exists(s) /\ StopInTime(s))]
  /\ request' = [request EXCEPT ![q] = [do |-> "done"]]
  /\ UNCHANGED <<scanVars, taskId, launch, revoked, results, workVars, mishaps,
                 twice, hit, caught>>

AskDelete(q, s) ==
  /\ request[q] = Idle /\ Exists(s)
  /\ request' = [request EXCEPT ![q] = [do |-> "delete", scan |-> s]]
  /\ revoked' = [revoked EXCEPT ![s] =
       IF row[s] \in {"pending", "running"} /\ taskId[s] /\ @ = "no" THEN "sent" ELSE @]
  /\ UNCHANGED <<row, scanVars, taskId, launch, results, workVars, mishaps, history>>

\* The findings and the row, in one transaction.
Delete(q) ==
  /\ request[q].do = "delete"
  /\ LET s == request[q].scan IN
       /\ row' = [row EXCEPT ![s] = "deleted"]
       /\ results' = [results EXCEPT ![s] = FALSE]
  /\ request' = [request EXCEPT ![q] = [do |-> "done"]]
  /\ UNCHANGED <<scanVars, taskId, launch, revoked, workVars, mishaps, history>>

\* The worker hears of the revoke: it terminates the process that runs the
\* task (SIGTERM, no handler runs) and will discard the message.
RevokeArrives(s) ==
  /\ revoked[s] = "sent"
  /\ revoked' = [revoked EXCEPT ![s] = "known"]
  /\ Terminate({s})
  /\ caught' = [caught EXCEPT ![s] = @ \/ \A d \in Deliveries : stage[s][d] \in {"absent", "queued"}]
  /\ UNCHANGED <<row, scanVars, taskId, launch, results, request, mishaps, twice,
                 hit, heeded>>

-----------------------------------------------------------------------------
(* The broker, and what goes wrong.                                        *)

\* A message no worker has started within the visibility timeout.
Redeliver(s, d) ==
  /\ d > 1 /\ stage[s][d - 1] = "queued" /\ stage[s][d] = "absent"
  /\ Goto(s, d, "queued")
  /\ twice' = [twice EXCEPT ![s] = TRUE]
  /\ UNCHANGED <<row, scanVars, taskId, launch, revoked, results, cache, left,
                 request, mishaps, hit, heeded, caught>>

Mishap(S) ==
  /\ mishaps < MaxMishaps
  /\ mishaps' = mishaps + 1
  /\ hit' = [s \in Scans |-> hit[s] \/ s \in S]

\* The broker refuses the message: the request ends with an error.
SendFails(s) ==
  /\ launch[s] = "send"
  /\ launch' = [launch EXCEPT ![s] = "done"]
  /\ Mishap({s})
  /\ UNCHANGED <<row, scanVars, taskId, revoked, results, workVars, request,
                 twice, heeded, caught>>

\* A worker process or a message is lost, or _mark_failed itself raises.
Lose(s, d) ==
  /\ stage[s][d] \in Working \cup {"queued"}
  /\ Ends(s, d, "dead")
  /\ Mishap({s})
  /\ UNCHANGED <<row, scanVars, taskId, launch, revoked, results, request,
                 twice, heeded, caught>>

\* The worker container is restarted: nothing it held in memory survives.
Restart ==
  /\ Terminate(Scans)
  /\ revoked' = [s \in Scans |-> "no"]
  /\ Mishap({s \in Scans : revoked[s] # "no" \/ \E d \in Deliveries : stage[s][d] \in Working})
  /\ caught' = [s \in Scans |-> FALSE]
  /\ UNCHANGED <<row, scanVars, taskId, launch, results, request, twice, heeded>>

-----------------------------------------------------------------------------

Step(s, d) ==
  \/ Pick(s, d) \/ Discard(s, d) \/ Denied(s, d) \/ Begin(s, d)
  \/ Cancelled(s, d) \/ NextBlock(s, d) \/ Probed(s, d) \/ WorkDone(s, d)
  \/ Save(s, d) \/ Finish(s, d) \/ Tail(s, d) \/ MarkFailed(s, d)

Next ==
  \/ \E s \in Scans :
       \/ Start(s) \/ Rescan(s) \/ Send(s) \/ WriteTaskId(s) \/ RevokeArrives(s) \/ SendFails(s)
       \/ \E d \in Deliveries :
            Step(s, d) \/ Raise(s, d) \/ Redeliver(s, d) \/ Lose(s, d)
  \/ \E q \in Requests :
       \/ \E s \in Scans : AskStop(q, s) \/ AskDelete(q, s)
       \/ Stop(q) \/ Delete(q)
  \/ Restart

\* Celery runs what is queued, and a task runs to its end or is killed.
Fairness == \A s \in Scans :
  /\ WF_vars(Send(s))
  /\ \A d \in Deliveries : WF_vars(Step(s, d))

Spec == Init /\ [][Next]_vars /\ Fairness

-----------------------------------------------------------------------------
(* Properties.                                                             *)

TypeOK ==
  /\ row \in [Scans -> Row]
  /\ kind \in [Scans -> AllKinds \cup {"none"}]
  /\ blocks \in [Scans -> Nat]
  /\ taskId \in [Scans -> BOOLEAN]
  /\ launch \in [Scans -> {"none", "send", "task_id", "done"}]
  /\ revoked \in [Scans -> {"no", "sent", "known"}]
  /\ results \in [Scans -> BOOLEAN]
  /\ stage \in [Scans -> [Deliveries -> Stage]]
  /\ cache \in [Scans -> [Deliveries -> Stored \cup {"none"}]]
  /\ left \in [Scans -> [Deliveries -> Nat]]
  /\ request \in [Requests -> [do : {"idle", "done"}] \cup [do : {"stop", "delete"}, scan : Scans]]
  /\ mishaps \in 0..MaxMishaps
  /\ twice \in [Scans -> BOOLEAN]
  /\ hit \in [Scans -> BOOLEAN]
  /\ heeded \in [Scans -> BOOLEAN]
  /\ caught \in [Scans -> BOOLEAN]

\* The life every scan promises, whatever task runs it: the row of a scan is
\* the row of ScanRow, as long as its message is delivered once.  A second
\* delivery starts a finished scan again.
Life(s) == INSTANCE ScanRow WITH row <- IF row[s] = "unborn" THEN "pending" ELSE row[s]

RowLife ==
  /\ \A s \in Scans : Life(s)!Init
  /\ [][\A s \in Scans : Life(s)!Next \/ row'[s] = row[s] \/ twice[s]
          \/ (row[s] = "unborn" /\ row'[s] = "pending")]_row

\* A Stop committed while a ping scan still has two blocks to begin is never
\* overwritten by "completed": the progress write of the next block loads it
\* and the top of the loop sees it.  With one block to begin, or in a web or
\* SCA scan, nothing looks at the status any more.
PingStopHonoured == \A s \in Scans : heeded[s] => row[s] # "completed"

\* A scan that stops before a worker has taken its message never runs, not
\* even on a second delivery, unless the worker forgets the revoke.
CaughtNeverRuns == \A s \in Scans : caught[s] => row[s] \in {"pending", "cancelled", "deleted"}

\* No scan is "completed" without its results, whichever delivery, Stop or
\* failure wrote the row before.
CompletedHasResults == \A s \in Scans : row[s] = "completed" => results[s]

\* A row says "running" with no task behind it only after a mishap or a
\* revoke: the process was terminated after it overwrote the Stop.
AtWork(s) == \E d \in Deliveries : stage[s][d] \in Working \cup {"queued"}

StuckNeedsCause ==
  \A s \in Scans : row[s] = "running" /\ ~AtWork(s) => hit[s] \/ revoked[s] = "known"

\* What holds in every state, whichever of two deliveries, a Stop, a Delete, a
\* revoke or a mishap comes between two writes of a task.
TaskInv == TypeOK /\ CaughtNeverRuns /\ CompletedHasResults /\ StuckNeedsCause

\* Every scan comes to rest, unless a mishap strikes it or it is terminated.
AtRest(s) == row[s] \in {"unborn", "completed", "failed", "cancelled", "deleted"}

ComesToRest == \A s \in Scans : <>[](AtRest(s) \/ hit[s] \/ revoked[s] = "known")

=============================================================================
