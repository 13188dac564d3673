--------------------------- MODULE ScanDeliveries ---------------------------
(***************************************************************************)
(* One network scan whose message the broker may deliver a second time.    *)
(*                                                                         *)
(* Redis hands a message that no worker has acknowledged within its        *)
(* visibility timeout to another worker, and a message is acknowledged     *)
(* when its execution starts: the one that is delivered twice was waiting  *)
(* in the queue of a worker that was busy.  Both copies are executed, in   *)
(* any order or at the same time, over the one row of the scan.  Neither   *)
(* _run nor set_scan_status asks whether the scan has run before.          *)
(*                                                                         *)
(* The first execution is NetworkScan, with the requests that start, stop  *)
(* and delete the scan; the second is an instance of it that shares the    *)
(* row, the plan and the revoke (both copies carry one task id) and has    *)
(* tasks, sessions and nmap processes of its own.                          *)
(***************************************************************************)
EXTENDS NetworkScan

CONSTANT PlansTwice    \* bound: plans of scans whose message may come twice

VARIABLES
  twice,                              \* the message was delivered again
  stage2, cache2, nmap2, cancel2,     \* the second execution's stage, cache,
  rounds2, exploited2                 \* nmap, cancel, rounds and exploited

secondVars == <<stage2, cache2, nmap2, cancel2, rounds2, exploited2>>
allVars    == <<vars, twice, secondVars>>

Second == INSTANCE NetworkScan WITH
  stage <- stage2, cache <- cache2, nmap <- nmap2,
  cancel <- cancel2, rounds <- rounds2, exploited <- exploited2

DeliveryInit ==
  /\ Init
  /\ twice = FALSE
  /\ stage2 = [t \in Task |-> "absent"]
  /\ cache2 = [t \in Task |-> "none"]
  /\ nmap2 = [t \in Task |-> "off"]
  /\ cancel2 = [t \in Task |-> FALSE]
  /\ rounds2 = MaxRounds
  /\ exploited2 = FALSE

\* The visibility timeout passes while the message waits.
Redeliver ==
  /\ stage["parent"] = "queued" /\ ~twice
  /\ plan \in PlansTwice
  /\ twice' = TRUE
  /\ Second!Goto("parent", "queued")
  /\ UNCHANGED <<vars, cache2, nmap2, cancel2, rounds2, exploited2>>

FirstStep  == Next /\ UNCHANGED <<twice, secondVars>>
SecondStep == Second!TaskStep /\ UNCHANGED <<workVars, twice>>

DeliveryNext == FirstStep \/ SecondStep \/ Redeliver

DeliverySpec == DeliveryInit /\ [][DeliveryNext]_allVars

-----------------------------------------------------------------------------
(* Properties.  A scan executed twice keeps less of what one execution     *)
(* promises: the second overtakes a Stop the first has seen, enters the    *)
(* exploitation phase and reports "completed" for itself alone.            *)

\* One execution of a scan keeps the invariant of NetworkScan.  With a second
\* one each still hands over to children or processes, never both, and no task
\* of either is past its scope while the row is pending.
DeliveryInv ==
  /\ Second!TypeOK /\ PendingInv /\ Second!PendingInv
  /\ OneDriver /\ Second!OneDriver
  /\ IF twice THEN TypeOK ELSE ScanInv

\* A Stop committed while the scan runs is never painted over by "completed"
\* (the checks after CVE matching and after the exploitation phase), unless the
\* message is delivered twice.
StopIsKept == twice \/ StopHonoured

\* A Stop committed before the exploitation phase was entered keeps the scan
\* from entering it, unless the message is delivered twice.
StopKeepsFromExploit == twice \/ StopBarsExploit

\* "completed" is a statement about the whole scan (no block is being scanned,
\* no task is before its final write), unless the message is delivered twice.
CompletedIsWhole == twice \/ CompletedMeansFinished

\* The start that set_scan_status does not refuse: a second execution shows a
\* finished scan as running again.
Restart == twice /\ row # "deleted" /\ row' = "running"

\* What ScanRow promises of every row.
Abstract == INSTANCE ScanRow WITH row <- row

\* The row of a network scan lives the life ScanRow promises; the only other
\* step it may take is the restart by a message delivered twice.
ScanRowLife == Abstract!Init /\ [][Abstract!Next \/ Restart]_row

=============================================================================
