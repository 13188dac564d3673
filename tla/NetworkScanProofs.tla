------------------------- MODULE NetworkScanProofs -------------------------
(***************************************************************************)
(* Machine-checked theorems about NetworkScan, for any set of blocks and   *)
(* of web requests and any bounds.                                         *)
(***************************************************************************)
EXTENDS ScanDeliveries, TLAPS

(* What a session sees of the row is a status or nothing.                  *)
LEMMA VisibleType ==
  ASSUME TypeOK
  PROVE  Visible \in Status \cup {"none"}
BY DEF TypeOK, Visible, Row

(* A status write leaves a status in the row, and in the session.          *)
LEMMA SetStatusType ==
  ASSUME TypeOK, NEW t \in Task, NEW new \in Status, NEW s \in Stage, SetStatus(t, new, s)
  PROVE  /\ row' \in Row
         /\ stage' \in [Task -> Stage]
         /\ cache' \in [Task -> Status \cup {"none"}]
<1>1. row' \in Row
  BY DEF TypeOK, SetStatus, Row
<1>2. (IF row' = "deleted" THEN "none" ELSE row') \in Status \cup {"none"}
  BY <1>1 DEF Row
<1>3. (IF Lost(t) THEN "failing" ELSE s) \in Stage
  BY DEF Stage
<1>4. QED
  BY <1>1, <1>2, <1>3 DEF SetStatus, Goto, TypeOK

-----------------------------------------------------------------------------
(* Type correctness is inductive once it says that a discovery batch under *)
(* way was taken from the batches still to probe.                          *)

ITypeOK == TypeOK /\ (stage["parent"] = "probing" => rounds > 0)

LEMMA TypeInit == Init => ITypeOK
<1> SUFFICES ASSUME Init PROVE ITypeOK
  OBVIOUS
<1>1. taskId \in BOOLEAN /\ revoked \in BOOLEAN /\ exploited \in BOOLEAN
  BY Zenon DEF Init
<1>2. cancel \in [Task -> BOOLEAN] /\ seenId \in [Requests -> BOOLEAN]
  BY Zenon DEF Init
<1>3. rounds \in 0..MaxRounds /\ crashes \in 0..MaxCrashes /\ plan \in AllPlans
  BY ScanAssumption DEF ScanAssumption, Init
<1>4. /\ stage \in [Task -> Stage] /\ stage["parent"] # "probing"
      /\ cache \in [Task -> Status \cup {"none"}]
      /\ nmap \in [Task -> {"off", "on", "orphan"}]
      /\ web \in [Requests -> Web]
  BY DEF Init, Stage, Web, Task
<1>5. QED
  BY <1>1, <1>2, <1>3, <1>4 DEF Init, ITypeOK, TypeOK, Row, Status

LEMMA TypeParent ==
  ASSUME ITypeOK, ParentStep
  PROVE  ITypeOK'
<1> USE DEF ITypeOK
<1>t. "parent" \in Task /\ "merge" \in Task
  BY DEF Task
<1>1. CASE PickParent
  BY <1>1, <1>t DEF PickParent, Load, Goto, Visible, TypeOK, Stage, Row, rowVars, webVars
<1>2. CASE ScopeDenied
  BY <1>2, <1>t, SetStatusType DEF ScopeDenied, SetStatus, Goto, TypeOK, Stage, Status, webVars
<1>3. CASE StartRunning
  BY <1>3, <1>t, SetStatusType DEF StartRunning, SetStatus, Goto, TypeOK, Stage, Status, webVars
<1>4. CASE Announce
  BY <1>4, <1>t, VisibleType DEF Announce, Progress, Goto, TypeOK, Stage, webVars
<1>5. CASE DiscoverBatch
  BY <1>5, <1>t DEF DiscoverBatch, Goto, TypeOK, Stage, rowVars, webVars
<1>6. CASE ProbeDone
  BY <1>6, <1>t, VisibleType, ScanAssumption
     DEF ScanAssumption, ProbeDone, Progress, Goto, TypeOK, Stage, webVars
<1>7. CASE HostsFound
  BY <1>7, <1>t DEF HostsFound, Goto, TypeOK, Stage, rowVars, webVars
<1>8. CASE NoHosts
  BY <1>8, <1>t, VisibleType DEF NoHosts, Progress, Goto, TypeOK, Stage, webVars
<1>9. CASE Dispatch
  BY <1>9, <1>t DEF Dispatch, Visible, Row, TypeOK, Stage, rowVars, webVars
<1>10. CASE DispatchLogged
  BY <1>10, <1>t DEF DispatchLogged, Goto, TypeOK, Stage, rowVars, webVars
<1>11. QED
  BY <1>1, <1>2, <1>3, <1>4, <1>5, <1>6, <1>7, <1>8, <1>9, <1>10 DEF ParentStep

LEMMA TypeProcess ==
  ASSUME ITypeOK, NEW t \in Driver, ProcessStep(t) \/ Raise(t)
  PROVE  ITypeOK'
<1> USE DEF ITypeOK
<1>t. t \in Task
  BY DEF Task, Driver
<1>1. CASE Check(t)
  BY <1>1, <1>t DEF Check, Goto, TypeOK, Stage, rowVars, webVars
<1>2. CASE Store(t)
  BY <1>2, <1>t, VisibleType DEF Store, Progress, Goto, TypeOK, Stage, webVars
<1>3. CASE Recheck(t)
  BY <1>3, <1>t, VisibleType DEF Recheck, Progress, Goto, TypeOK, Stage, webVars
<1>4. CASE Exploit(t)
  BY <1>4, <1>t, VisibleType DEF Exploit, Progress, Goto, TypeOK, Stage, webVars
<1>5. CASE LastCheck(t)
  BY <1>5, <1>t, VisibleType DEF LastCheck, Progress, Goto, TypeOK, Stage, webVars
<1>6. CASE Notify(t)
  BY <1>6, <1>t, VisibleType DEF Notify, Progress, Goto, TypeOK, Stage, webVars
<1>7. CASE Finish(t)
  <2>1. SetStatus(t, "completed", "audit") /\ "completed" \in Status /\ "audit" \in Stage
    BY <1>7 DEF Finish, Status, Stage
  <2>2. /\ row' \in Row
        /\ stage' \in [Task -> Stage]
        /\ cache' \in [Task -> Status \cup {"none"}]
    BY <2>1, <1>t, SetStatusType
  <2>3. stage'["parent"] = "probing" => stage["parent"] = "probing"
    BY <2>1, <1>t DEF SetStatus, Goto, TypeOK
  <2>4. QED
    BY <1>7, <2>2, <2>3 DEF Finish, TypeOK, webVars
<1>11. CASE Audited(t)
  BY <1>11, <1>t DEF Audited, Goto, TypeOK, Stage, rowVars, webVars
<1>8. CASE MarkFailed(t)
  BY <1>8, <1>t DEF MarkFailed, Goto, TypeOK, Stage, Row, Status
<1>9. CASE Raise(t)
  BY <1>9, <1>t DEF Raise, Goto, TypeOK, Stage, rowVars, webVars
<1>10. QED
  BY <1>1, <1>2, <1>3, <1>4, <1>5, <1>6, <1>7, <1>8, <1>9, <1>11 DEF ProcessStep

LEMMA TypeWeb ==
  ASSUME ITypeOK, NEW q \in Requests, WebStep(q)
  PROVE  ITypeOK'
<1> USE DEF ITypeOK
<1>1. CASE StopRead(q)
  BY <1>1 DEF StopRead, TypeOK, Web, rowVars, workVars
<1>2. CASE DeleteRead(q)
  <2>1. (taskId /\ Stoppable) \in BOOLEAN
    OBVIOUS
  <2>2. web' \in [Requests -> Web] /\ seenId' \in [Requests -> BOOLEAN]
    BY <1>2, <2>1 DEF DeleteRead, TypeOK, Web
  <2>3. QED
    BY <1>2, <2>2 DEF DeleteRead, TypeOK, rowVars, workVars
<1>3. CASE Revoke(q)
  BY <1>3 DEF Revoke, TypeOK, Web, rowVars, workVars
<1>4. CASE StopWrite(q)
  BY <1>4 DEF StopWrite, TypeOK, Web, Row, Status, workVars
<1>5. CASE DeleteWrite(q)
  BY <1>5 DEF DeleteWrite, TypeOK, Web, Row, workVars
<1>6. QED
  BY <1>1, <1>2, <1>3, <1>4, <1>5 DEF WebStep

LEMMA TypeBlock ==
  ASSUME ITypeOK, NEW b \in Blocks, PollBlock(b) \/ PickBlock(b)
  PROVE  ITypeOK'
<1> USE DEF ITypeOK
<1>t. b \in Task /\ b # "parent"
  BY ScanAssumption DEF ScanAssumption, Task
<1>1. CASE PollBlock(b)
  <2>1. (cancel[b] \/ cache[b] = "cancelled") \in BOOLEAN
    OBVIOUS
  <2>2. cancel' \in [Task -> BOOLEAN]
    BY <1>1, <1>t, <2>1 DEF PollBlock, TypeOK
  <2>3. QED
    BY <1>1, <2>2 DEF PollBlock, TypeOK, rowVars, webVars
<1>2. CASE PickBlock(b)
  BY <1>2, <1>t DEF PickBlock, Load, Goto, Visible, TypeOK, Stage, Row, rowVars, webVars
<1>3. QED
  BY <1>1, <1>2

LEMMA TypeRest ==
  ASSUME ITypeOK,
         \/ Enqueue \/ WriteTaskId \/ SkipTaskId \/ PollParent \/ ChordFires \/ PickMerge
         \/ Drain("parent") \/ Terminate
         \/ \E t \in Blocks \cup {"parent"} : NmapEnds(t) \/ NmapKilled(t) \/ OrphanEnds(t)
         \/ \E t \in Task : Crash(t)
  PROVE  ITypeOK'
<1> USE DEF ITypeOK
<1>t. "parent" \in Task /\ "merge" \in Task /\ Blocks \subseteq Task /\ "parent" # "merge"
  BY DEF Task
<1>1. CASE Enqueue \/ WriteTaskId \/ SkipTaskId
  BY <1>1, <1>t DEF Enqueue, WriteTaskId, SkipTaskId, Goto, TypeOK, Stage,
                    rowVars, workVars, webVars
<1>2. CASE PollParent
  BY <1>2, <1>t, VisibleType DEF PollParent, Progress, Load, Goto, TypeOK, Stage, webVars
<1>3. CASE ChordFires \/ PickMerge \/ Drain("parent")
  BY <1>3, <1>t DEF ChordFires, PickMerge, Drain, Load, Visible, Goto, TypeOK, Stage, Row,
                    rowVars, webVars
<1>4. CASE Terminate
  BY <1>4, <1>t DEF Terminate, Die, Goto, TypeOK, Stage, rowVars, webVars
<1>5. ASSUME NEW t \in Blocks \cup {"parent"}, NmapEnds(t) \/ NmapKilled(t) \/ OrphanEnds(t)
      PROVE  ITypeOK'
  BY <1>5, <1>t DEF NmapEnds, NmapKilled, OrphanEnds, Goto, TypeOK, Stage, rowVars, webVars
<1>6. ASSUME NEW t \in Task, Crash(t)
      PROVE  ITypeOK'
  BY <1>6, ScanAssumption
     DEF ScanAssumption, Crash, Die, Goto, TypeOK, Stage, rowVars, webVars
<1>7. QED
  BY <1>1, <1>2, <1>3, <1>4, <1>5, <1>6

LEMMA TypeStep == ITypeOK /\ [Next]_vars => ITypeOK'
<1> SUFFICES ASSUME ITypeOK, [Next]_vars PROVE ITypeOK'
  OBVIOUS
<1>1. CASE UNCHANGED vars
  BY <1>1 DEF ITypeOK, TypeOK, vars, rowVars, workVars, webVars
<1>2. QED
  BY <1>1, TypeParent, TypeProcess, TypeWeb, TypeBlock, TypeRest DEF Next, TaskStep

(* Every variable keeps its type, whatever the number of children, of web  *)
(* requests, of discovery batches and of crashes.                          *)
THEOREM TypeCorrect == Spec => []TypeOK
<1>1. ITypeOK => TypeOK
  BY DEF ITypeOK
<1>2. QED
  BY <1>1, TypeInit, TypeStep, PTL DEF Spec

-----------------------------------------------------------------------------
(* StopInv is inductive.  The argument: a Stop is recorded only while the  *)
(* parent is past its "running" write and nobody is past the last look, so *)
(* the one task that processes the scan still refreshes its session before *)
(* it may enter "notify"; the only other writers of the row are Stop,      *)
(* delete and _mark_failed, and the task that failed was the one that      *)
(* processed the scan.                                                     *)

IInv == ITypeOK /\ StopInv

LEMMA Tasks ==
  /\ "parent" \in Task /\ "merge" \in Task /\ Blocks \subseteq Task
  /\ "parent" \notin Blocks /\ "merge" \notin Blocks /\ Blocks # {}
BY ScanAssumption DEF ScanAssumption, Task

LEMMA StopInit == Init => IInv
<1>1. Init => StopInv
  BY Tasks DEF Init, StopInv, OneDriver, CompletedMeansFinished, HandedOver
<1>2. QED
  BY <1>1, TypeInit DEF IInv

(* A step that changes no stage and leaves the history alone, and does not *)
(* complete or fail the scan, keeps StopInv.                               *)
LEMMA StopParent ==
  ASSUME IInv, ParentStep
  PROVE  StopInv'
<1> USE Tasks DEF IInv, ITypeOK, StopInv, OneDriver, CompletedMeansFinished, HandedOver, Driver
<1>1. CASE PickParent
  BY <1>1 DEF PickParent, Goto, TypeOK, rowVars, webVars
<1>2. CASE ScopeDenied
  BY <1>2 DEF ScopeDenied, SetStatus, Goto, TypeOK, webVars
<1>3. CASE StartRunning
  BY <1>3 DEF StartRunning, SetStatus, Goto, TypeOK, webVars
<1>4. CASE Announce
  BY <1>4 DEF Announce, Progress, Goto, TypeOK, webVars
<1>5. CASE DiscoverBatch
  BY <1>5 DEF DiscoverBatch, Goto, TypeOK, rowVars, webVars
<1>6. CASE ProbeDone
  BY <1>6 DEF ProbeDone, Progress, Goto, TypeOK, webVars
<1>7. CASE HostsFound
  BY <1>7 DEF HostsFound, Goto, TypeOK, rowVars, webVars
<1>8. CASE NoHosts
  BY <1>8 DEF NoHosts, Progress, Goto, TypeOK, webVars
<1>9. CASE Dispatch
  BY <1>9 DEF Dispatch, TypeOK, rowVars, webVars, Task
<1>10. CASE DispatchLogged
  BY <1>10 DEF DispatchLogged, Goto, TypeOK, rowVars, webVars
<1>11. QED
  BY <1>1, <1>2, <1>3, <1>4, <1>5, <1>6, <1>7, <1>8, <1>9, <1>10 DEF ParentStep

LEMMA StopProcess ==
  ASSUME IInv, NEW t \in Driver, ProcessStep(t) \/ Raise(t)
  PROVE  StopInv'
<1> USE Tasks DEF IInv, ITypeOK, StopInv, OneDriver, CompletedMeansFinished, HandedOver, Driver
<1>1. CASE Check(t)
  BY <1>1 DEF Check, Goto, TypeOK, rowVars, webVars
<1>2. CASE Store(t)
  BY <1>2 DEF Store, Progress, Goto, TypeOK, webVars
<1>3. CASE Recheck(t)
  BY <1>3 DEF Recheck, ScanCancelled, Visible, Lost, Progress, Goto, TypeOK, webVars
<1>4. CASE Exploit(t)
  BY <1>4 DEF Exploit, Progress, Goto, TypeOK, webVars
<1>5. CASE LastCheck(t)
  BY <1>5 DEF LastCheck, ScanCancelled, Visible, Lost, Progress, Goto, TypeOK, webVars
<1>6. CASE Notify(t)
  BY <1>6 DEF Notify, Progress, Goto, TypeOK, webVars
<1>7. CASE Finish(t)
  BY <1>7 DEF Finish, SetStatus, Goto, TypeOK, webVars
<1>8. CASE Audited(t)
  BY <1>8 DEF Audited, Goto, TypeOK, rowVars, webVars
<1>9. CASE MarkFailed(t)
  BY <1>9 DEF MarkFailed, Goto, TypeOK
<1>10. CASE Raise(t)
  BY <1>10 DEF Raise, Raising, Goto, TypeOK, rowVars, webVars
<1>11. QED
  BY <1>1, <1>2, <1>3, <1>4, <1>5, <1>6, <1>7, <1>8, <1>9, <1>10 DEF ProcessStep

LEMMA StopWeb ==
  ASSUME IInv, NEW q \in Requests, WebStep(q)
  PROVE  StopInv'
<1> USE DEF IInv, ITypeOK, StopInv, OneDriver, CompletedMeansFinished, HandedOver, Driver
<1>1. CASE StopRead(q) \/ DeleteRead(q) \/ Revoke(q)
  BY <1>1 DEF StopRead, DeleteRead, Revoke, TypeOK, rowVars, workVars
<1>2. CASE StopWrite(q)
  BY <1>2 DEF StopWrite, Binding, BeforeExploit, TypeOK, workVars
<1>3. CASE DeleteWrite(q)
  BY <1>3 DEF DeleteWrite, TypeOK, workVars
<1>4. QED
  BY <1>1, <1>2, <1>3 DEF WebStep

LEMMA StopBlock ==
  ASSUME IInv, NEW b \in Blocks, PollBlock(b) \/ PickBlock(b)
  PROVE  StopInv'
<1> USE Tasks DEF IInv, ITypeOK, StopInv, OneDriver, CompletedMeansFinished, HandedOver, Driver
<1>1. CASE PollBlock(b)
  BY <1>1 DEF PollBlock, rowVars, webVars
<1>2. CASE PickBlock(b)
  BY <1>2 DEF PickBlock, Goto, TypeOK, rowVars, webVars
<1>3. QED
  BY <1>1, <1>2

LEMMA StopRest ==
  ASSUME IInv,
         \/ Enqueue \/ WriteTaskId \/ SkipTaskId \/ PollParent \/ ChordFires \/ PickMerge
         \/ Drain("parent") \/ Terminate
         \/ \E t \in Blocks \cup {"parent"} : NmapEnds(t) \/ NmapKilled(t) \/ OrphanEnds(t)
         \/ \E t \in Task : Crash(t)
  PROVE  StopInv'
<1> USE Tasks DEF IInv, ITypeOK, StopInv, OneDriver, CompletedMeansFinished, HandedOver, Driver
<1>1. CASE Enqueue
  BY <1>1 DEF Enqueue, Goto, TypeOK, rowVars, webVars
<1>2. CASE WriteTaskId \/ SkipTaskId \/ Drain("parent")
  BY <1>2 DEF WriteTaskId, SkipTaskId, Drain, rowVars, workVars, webVars
<1>3. CASE PollParent
  BY <1>3 DEF PollParent, Progress, Load, Goto, TypeOK, webVars
<1>4. CASE ChordFires
  BY <1>4 DEF ChordFires, Goto, TypeOK, rowVars, webVars
<1>5. CASE PickMerge
  BY <1>5 DEF PickMerge, Goto, TypeOK, rowVars, webVars
<1>6. CASE Terminate
  BY <1>6 DEF Terminate, Die, Busy, Goto, TypeOK, rowVars, webVars
<1>7. ASSUME NEW t \in Blocks \cup {"parent"}, NmapEnds(t) \/ NmapKilled(t) \/ OrphanEnds(t)
      PROVE  StopInv'
  BY <1>7 DEF NmapEnds, NmapKilled, OrphanEnds, Goto, TypeOK, rowVars, webVars
<1>8. ASSUME NEW t \in Task, Crash(t)
      PROVE  StopInv'
  BY <1>8 DEF Crash, Die, Busy, Goto, TypeOK, rowVars, webVars, Task
<1>9. QED
  BY <1>1, <1>2, <1>3, <1>4, <1>5, <1>6, <1>7, <1>8

LEMMA StopStep == IInv /\ [Next]_vars => IInv'
<1> SUFFICES ASSUME IInv, [Next]_vars PROVE IInv'
  OBVIOUS
<1>1. ITypeOK'
  BY TypeStep DEF IInv
<1>2. CASE UNCHANGED vars
  BY <1>1, <1>2 DEF IInv, StopInv, OneDriver, CompletedMeansFinished, HandedOver,
                    vars, rowVars, workVars, webVars
<1>3. QED
  BY <1>1, <1>2, StopParent, StopProcess, StopWeb, StopBlock, StopRest DEF Next, TaskStep, IInv

LEMMA StopInvariant == Spec => []IInv
BY StopInit, StopStep, PTL DEF Spec

-----------------------------------------------------------------------------
(* The refinement: every step of the scan is a step of ScanRow or leaves   *)
(* the row alone.  RowInv supplies what the two status writes of the       *)
(* parent and the merge find in the row.                                   *)

LEMMA RowInit == Init => RowInv
BY Tasks DEF Init, RowInv, PendingInv, HandedOver

LEMMA RowParent ==
  ASSUME IInv, RowInv, ParentStep
  PROVE  RowInv' /\ [Abstract!Next]_row
<1> USE Tasks DEF IInv, ITypeOK, RowInv, PendingInv, HandedOver
<1>1. CASE PickParent
  BY <1>1 DEF PickParent, Load, Visible, Goto, TypeOK, rowVars
<1>2. CASE ScopeDenied
  BY <1>2 DEF ScopeDenied, SetStatus, Lost, Goto, TypeOK, Abstract!Next, Abstract!Fail
<1>3. CASE StartRunning
  BY <1>3 DEF StartRunning, SetStatus, Lost, Goto, TypeOK, Abstract!Next, Abstract!Begin
<1>4. CASE Announce
  BY <1>4 DEF Announce, Progress, Goto, TypeOK
<1>5. CASE DiscoverBatch \/ HostsFound \/ DispatchLogged
  BY <1>5 DEF DiscoverBatch, HostsFound, DispatchLogged, Goto, TypeOK, rowVars
<1>6. CASE ProbeDone
  BY <1>6 DEF ProbeDone, Progress, Goto, TypeOK
<1>7. CASE NoHosts
  BY <1>7 DEF NoHosts, Progress, Goto, TypeOK
<1>8. CASE Dispatch
  BY <1>8 DEF Dispatch, TypeOK, rowVars, Task
<1>9. QED
  BY <1>1, <1>2, <1>3, <1>4, <1>5, <1>6, <1>7, <1>8 DEF ParentStep

LEMMA RowProcess ==
  ASSUME IInv, RowInv, NEW t \in Driver, ProcessStep(t) \/ Raise(t)
  PROVE  RowInv' /\ [Abstract!Next]_row
<1> USE Tasks DEF IInv, ITypeOK, RowInv, PendingInv, HandedOver, Driver
<1>1. CASE Check(t) \/ Audited(t)
  BY <1>1 DEF Check, Audited, Goto, TypeOK, rowVars
<1>2. CASE Store(t) \/ Exploit(t) \/ LastCheck(t) \/ Notify(t)
  BY <1>2 DEF Store, Exploit, LastCheck, Notify, Progress, Goto, TypeOK
<1>3. CASE Recheck(t)
  BY <1>3 DEF Recheck, Progress, Goto, TypeOK
<1>4. CASE Finish(t)
  BY <1>4 DEF Finish, SetStatus, Lost, Goto, TypeOK, StopInv, OneDriver, Abstract!Next,
           Abstract!Complete
<1>5. CASE MarkFailed(t)
  BY <1>5 DEF MarkFailed, Goto, TypeOK, StopInv, OneDriver, Abstract!Next, Abstract!Fail
<1>6. CASE Raise(t)
  BY <1>6 DEF Raise, Raising, Goto, TypeOK, rowVars
<1>7. QED
  BY <1>1, <1>2, <1>3, <1>4, <1>5, <1>6 DEF ProcessStep

LEMMA RowWeb ==
  ASSUME IInv, RowInv, NEW q \in Requests, WebStep(q)
  PROVE  RowInv' /\ [Abstract!Next]_row
<1> USE DEF IInv, ITypeOK, RowInv, PendingInv, HandedOver
<1>1. CASE StopRead(q) \/ DeleteRead(q) \/ Revoke(q)
  BY <1>1 DEF StopRead, DeleteRead, Revoke, rowVars, workVars
<1>2. CASE StopWrite(q)
  BY <1>2 DEF StopWrite, workVars, Abstract!Next, Abstract!Stop
<1>3. CASE DeleteWrite(q)
  BY <1>3 DEF DeleteWrite, workVars, Abstract!Next, Abstract!Delete
<1>4. QED
  BY <1>1, <1>2, <1>3 DEF WebStep

LEMMA RowBlock ==
  ASSUME IInv, RowInv, NEW b \in Blocks, PollBlock(b) \/ PickBlock(b)
  PROVE  RowInv' /\ [Abstract!Next]_row
<1> USE Tasks DEF IInv, ITypeOK, RowInv, PendingInv, HandedOver
<1>1. CASE PollBlock(b)
  BY <1>1 DEF PollBlock, rowVars
<1>2. CASE PickBlock(b)
  BY <1>2 DEF PickBlock, Load, Goto, TypeOK, rowVars
<1>3. QED
  BY <1>1, <1>2

LEMMA RowRest ==
  ASSUME IInv, RowInv,
         \/ Enqueue \/ WriteTaskId \/ SkipTaskId \/ PollParent \/ ChordFires \/ PickMerge
         \/ Drain("parent") \/ Terminate
         \/ \E t \in Blocks \cup {"parent"} : NmapEnds(t) \/ NmapKilled(t) \/ OrphanEnds(t)
         \/ \E t \in Task : Crash(t)
  PROVE  RowInv' /\ [Abstract!Next]_row
<1> USE Tasks DEF IInv, ITypeOK, RowInv, PendingInv, HandedOver
<1>1. CASE Enqueue
  BY <1>1 DEF Enqueue, Goto, TypeOK, StopInv, rowVars
<1>2. CASE WriteTaskId \/ SkipTaskId \/ Drain("parent")
  BY <1>2 DEF WriteTaskId, SkipTaskId, Drain, rowVars, workVars
<1>3. CASE PollParent
  BY <1>3 DEF PollParent, Progress, Load, Goto, TypeOK
<1>4. CASE ChordFires
  BY <1>4 DEF ChordFires, Goto, TypeOK, rowVars
<1>5. CASE PickMerge
  BY <1>5 DEF PickMerge, Load, Goto, TypeOK, rowVars
<1>6. CASE Terminate
  BY <1>6 DEF Terminate, Die, Goto, TypeOK, rowVars
<1>7. ASSUME NEW t \in Blocks \cup {"parent"}, NmapEnds(t) \/ NmapKilled(t) \/ OrphanEnds(t)
      PROVE  RowInv' /\ [Abstract!Next]_row
  BY <1>7 DEF NmapEnds, NmapKilled, OrphanEnds, Goto, TypeOK, rowVars
<1>8. ASSUME NEW t \in Task, Crash(t)
      PROVE  RowInv' /\ [Abstract!Next]_row
  BY <1>8 DEF Crash, Die, Busy, Goto, TypeOK, rowVars, Task
<1>9. QED
  BY <1>1, <1>2, <1>3, <1>4, <1>5, <1>6, <1>7, <1>8

LEMMA RowStep == IInv /\ RowInv /\ [Next]_vars => RowInv' /\ [Abstract!Next]_row
<1> SUFFICES ASSUME IInv, RowInv, [Next]_vars PROVE RowInv' /\ [Abstract!Next]_row
  OBVIOUS
<1>1. CASE UNCHANGED vars
  BY <1>1 DEF RowInv, PendingInv, HandedOver, vars, rowVars, workVars
<1>2. QED
  BY <1>1, RowParent, RowProcess, RowWeb, RowBlock, RowRest DEF Next, TaskStep

-----------------------------------------------------------------------------
(* Only a task that dies leaves its nmap behind, and a dead task stays     *)
(* dead: no action starts from that stage.                                 *)

LEMMA OrphanInit == Init => OrphanNeedsCause
BY DEF Init, OrphanNeedsCause

LEMMA OrphanParent ==
  ASSUME IInv, OrphanNeedsCause, ParentStep
  PROVE  OrphanNeedsCause'
<1> USE Tasks DEF IInv, ITypeOK, TypeOK, OrphanNeedsCause, Goto, SetStatus, Progress, webVars
<1>1. CASE PickParent \/ ScopeDenied \/ StartRunning
  BY <1>1 DEF PickParent, ScopeDenied, StartRunning
<1>2. CASE Announce \/ DiscoverBatch \/ ProbeDone
  BY <1>2 DEF Announce, DiscoverBatch, ProbeDone
<1>3. CASE HostsFound \/ NoHosts \/ DispatchLogged
  BY <1>3 DEF HostsFound, NoHosts, DispatchLogged
<1>4. CASE Dispatch
  BY <1>4 DEF Dispatch, StopInv, OneDriver, HandedOver, Task
<1>5. QED
  BY <1>1, <1>2, <1>3, <1>4 DEF ParentStep

LEMMA OrphanProcess ==
  ASSUME IInv, OrphanNeedsCause, NEW t \in Driver, ProcessStep(t) \/ Raise(t)
  PROVE  OrphanNeedsCause'
<1> USE Tasks DEF IInv, ITypeOK, TypeOK, OrphanNeedsCause, Goto, SetStatus, Progress, webVars,
         Driver
<1>1. CASE Check(t) \/ Store(t) \/ Recheck(t) \/ Exploit(t)
  BY <1>1 DEF Check, Store, Recheck, Exploit
<1>2. CASE LastCheck(t) \/ Notify(t) \/ Finish(t)
  BY <1>2 DEF LastCheck, Notify, Finish
<1>3. CASE Audited(t) \/ MarkFailed(t) \/ Raise(t)
  BY <1>3 DEF Audited, MarkFailed, Raise, Raising
<1>4. QED
  BY <1>1, <1>2, <1>3 DEF ProcessStep

LEMMA OrphanWeb ==
  ASSUME IInv, OrphanNeedsCause, NEW q \in Requests, WebStep(q)
  PROVE  OrphanNeedsCause'
BY DEF IInv, ITypeOK, TypeOK, OrphanNeedsCause, workVars, WebStep, StopRead, DeleteRead,
       Revoke, StopWrite, DeleteWrite

LEMMA OrphanRest ==
  ASSUME IInv, OrphanNeedsCause,
         \/ Enqueue \/ WriteTaskId \/ SkipTaskId \/ PollParent \/ ChordFires \/ PickMerge
         \/ Drain("parent") \/ Terminate
         \/ \E b \in Blocks : PollBlock(b) \/ PickBlock(b)
         \/ \E t \in Blocks \cup {"parent"} : NmapEnds(t) \/ NmapKilled(t) \/ OrphanEnds(t)
         \/ \E t \in Task : Crash(t)
  PROVE  OrphanNeedsCause'
<1> USE Tasks DEF IInv, ITypeOK, TypeOK, OrphanNeedsCause, Goto, SetStatus, Progress, webVars
<1>1. CASE Enqueue \/ WriteTaskId \/ SkipTaskId \/ Drain("parent")
  BY <1>1 DEF Enqueue, WriteTaskId, SkipTaskId, Drain, workVars, StopInv
<1>2. CASE PollParent \/ ChordFires \/ PickMerge
  BY <1>2 DEF PollParent, ChordFires, PickMerge
<1>3. ASSUME NEW b \in Blocks, PollBlock(b) \/ PickBlock(b)
      PROVE  OrphanNeedsCause'
  BY <1>3 DEF PollBlock, PickBlock
<1>4. ASSUME NEW t \in Blocks \cup {"parent"}, NmapEnds(t) \/ NmapKilled(t) \/ OrphanEnds(t)
      PROVE  OrphanNeedsCause'
  BY <1>4 DEF NmapEnds, NmapKilled, OrphanEnds
<1>5. CASE Terminate
  BY <1>5 DEF Terminate, Die
<1>6. ASSUME NEW t \in Task, Crash(t)
      PROVE  OrphanNeedsCause'
  BY <1>6 DEF Crash, Die, Busy, Task
<1>7. QED
  BY <1>1, <1>2, <1>3, <1>4, <1>5, <1>6

LEMMA OrphanStep == IInv /\ OrphanNeedsCause /\ [Next]_vars => OrphanNeedsCause'
<1> SUFFICES ASSUME IInv, OrphanNeedsCause, [Next]_vars PROVE OrphanNeedsCause'
  OBVIOUS
<1>1. CASE UNCHANGED vars
  BY <1>1 DEF OrphanNeedsCause, vars, workVars, webVars
<1>2. QED
  BY <1>1, OrphanParent, OrphanProcess, OrphanWeb, OrphanRest DEF Next, TaskStep

-----------------------------------------------------------------------------
(* Nobody leaves a scan "pending" or "running" but a lost worker or a       *)
(* revoke.  A task that returns early does so because its session shows a   *)
(* Stop, and SessionInv says that the session is right: the row a session   *)
(* has seen cancelled or completed does not run again in one execution.     *)

Alive == SessionInv /\ StuckNeedsCause

LEMMA AliveInit == Init => Alive
BY Tasks DEF Init, Alive, SessionInv, StuckNeedsCause, AtWork, Driver

LEMMA AliveParent ==
  ASSUME IInv, RowInv, Alive, ParentStep
  PROVE  Alive'
<1> USE Tasks DEF IInv, ITypeOK, Alive, SessionInv, StuckNeedsCause, AtWork, HandedOver, Driver
<1>1. CASE PickParent
  BY <1>1 DEF PickParent, Load, Visible, Goto, TypeOK, rowVars, webVars
<1>2. CASE ScopeDenied
  BY <1>2 DEF ScopeDenied, SetStatus, Goto, TypeOK, RowInv, webVars
<1>3. CASE StartRunning
  <2>1. \A t \in Task \ {"parent"} : cache[t] = "none" /\ stage[t] = "absent"
    BY <1>3 DEF StartRunning, StopInv, OneDriver, Task
  <2>2. QED
    BY <1>3, <2>1 DEF StartRunning, SetStatus, Lost, Goto, TypeOK, RowInv, webVars
<1>4. CASE Announce
  BY <1>4 DEF Announce, Progress, Visible, Goto, TypeOK, webVars
<1>5. CASE DiscoverBatch \/ HostsFound
  BY <1>5 DEF DiscoverBatch, HostsFound, Goto, TypeOK, rowVars, webVars
<1>6. CASE ProbeDone
  BY <1>6 DEF ProbeDone, Progress, Visible, Goto, TypeOK, webVars
<1>7. CASE NoHosts
  BY <1>7 DEF NoHosts, Progress, Visible, Goto, TypeOK, webVars
<1>8. CASE Dispatch
  BY <1>8 DEF Dispatch, Visible, Lost, TypeOK, StopInv, OneDriver, rowVars, webVars, Task
<1>9. CASE DispatchLogged
  BY <1>9 DEF DispatchLogged, Goto, TypeOK, rowVars, webVars
<1>10. QED
  BY <1>1, <1>2, <1>3, <1>4, <1>5, <1>6, <1>7, <1>8, <1>9 DEF ParentStep

LEMMA AliveProcess ==
  ASSUME IInv, RowInv, Alive, NEW t \in Driver, ProcessStep(t) \/ Raise(t)
  PROVE  Alive'
<1> USE Tasks DEF IInv, ITypeOK, Alive, SessionInv, StuckNeedsCause, AtWork, HandedOver, Driver
<1>1. CASE Check(t)
  BY <1>1 DEF Check, Goto, TypeOK, rowVars, webVars
<1>2. CASE Store(t) \/ Exploit(t) \/ Notify(t)
  BY <1>2 DEF Store, Exploit, Notify, Progress, Visible, Goto, TypeOK, webVars
<1>3. CASE Recheck(t)
  BY <1>3 DEF Recheck, ScanCancelled, Progress, Visible, Goto, TypeOK, webVars
<1>4. CASE LastCheck(t)
  BY <1>4 DEF LastCheck, ScanCancelled, Progress, Visible, Goto, TypeOK, webVars
<1>5. CASE Finish(t)
  BY <1>5 DEF Finish, SetStatus, Lost, Goto, TypeOK, webVars
<1>6. CASE Audited(t)
  BY <1>6 DEF Audited, Goto, TypeOK, rowVars, webVars
<1>7. CASE MarkFailed(t)
  BY <1>7 DEF MarkFailed, Goto, TypeOK
<1>8. CASE Raise(t)
  BY <1>8 DEF Raise, Raising, Goto, TypeOK, rowVars, webVars
<1>9. QED
  BY <1>1, <1>2, <1>3, <1>4, <1>5, <1>6, <1>7, <1>8 DEF ProcessStep

LEMMA AliveRest ==
  ASSUME IInv, RowInv, Alive,
         \/ Enqueue \/ WriteTaskId \/ SkipTaskId \/ PollParent \/ ChordFires \/ PickMerge
         \/ Drain("parent") \/ Terminate
         \/ \E b \in Blocks : PollBlock(b) \/ PickBlock(b)
         \/ \E t \in Blocks \cup {"parent"} : NmapEnds(t) \/ NmapKilled(t) \/ OrphanEnds(t)
         \/ \E t \in Task : Crash(t)
         \/ \E q \in Requests : WebStep(q)
  PROVE  Alive'
<1> USE Tasks DEF IInv, ITypeOK, Alive, SessionInv, StuckNeedsCause, AtWork, HandedOver, Driver
<1>1. CASE Enqueue
  BY <1>1 DEF Enqueue, Goto, TypeOK, StopInv, rowVars, webVars
<1>2. CASE WriteTaskId \/ SkipTaskId \/ Drain("parent")
  BY <1>2 DEF WriteTaskId, SkipTaskId, Drain, rowVars, workVars, webVars
<1>3. CASE PollParent
  BY <1>3 DEF PollParent, Progress, Load, Visible, Goto, TypeOK, webVars
<1>4. CASE ChordFires
  BY <1>4 DEF ChordFires, Goto, TypeOK, rowVars, webVars
<1>5. CASE PickMerge
  BY <1>5 DEF PickMerge, Load, Visible, Goto, TypeOK, rowVars, webVars
<1>6. CASE Terminate
  BY <1>6 DEF Terminate, Die, Busy, Goto, TypeOK, rowVars, webVars
<1>7. ASSUME NEW b \in Blocks, PollBlock(b) \/ PickBlock(b)
      PROVE  Alive'
  BY <1>7 DEF PollBlock, PickBlock, Load, Visible, Goto, TypeOK, rowVars, webVars
<1>8. ASSUME NEW t \in Blocks \cup {"parent"}, NmapEnds(t) \/ NmapKilled(t) \/ OrphanEnds(t)
      PROVE  Alive'
  BY <1>8 DEF NmapEnds, NmapKilled, OrphanEnds, Goto, TypeOK, rowVars, webVars
<1>9. ASSUME NEW t \in Task, Crash(t)
      PROVE  Alive'
  BY <1>9, ScanAssumption
     DEF ScanAssumption, Crash, Die, Busy, Goto, TypeOK, rowVars, webVars, Task
<1>10. ASSUME NEW q \in Requests, WebStep(q)
       PROVE  Alive'
  BY <1>10 DEF WebStep, StopRead, DeleteRead, Revoke, StopWrite, DeleteWrite, TypeOK,
               rowVars, workVars
<1>11. QED
  BY <1>1, <1>2, <1>3, <1>4, <1>5, <1>6, <1>7, <1>8, <1>9, <1>10

LEMMA AliveStep == IInv /\ RowInv /\ Alive /\ [Next]_vars => Alive'
<1> SUFFICES ASSUME IInv, RowInv, Alive, [Next]_vars PROVE Alive'
  OBVIOUS
<1>1. CASE UNCHANGED vars
  BY <1>1 DEF Alive, SessionInv, StuckNeedsCause, AtWork, HandedOver, vars, rowVars,
              workVars, webVars
<1>2. QED
  BY <1>1, AliveParent, AliveProcess, AliveRest DEF Next, TaskStep

(* What the row, the tasks, the Stop and the nmap processes owe each other *)
(* holds in every state, for any number of children, requests and crashes. *)
THEOREM ScanInvariant == Spec => []ScanInv
<1>1. IInv /\ RowInv /\ OrphanNeedsCause /\ Alive => ScanInv
  BY DEF IInv, ITypeOK, ScanInv, Alive
<1>2. IInv /\ RowInv /\ [Next]_vars => RowInv'
  BY RowStep
<1>3. QED
  BY <1>1, <1>2, StopInvariant, RowInit, OrphanInit, OrphanStep, AliveInit, AliveStep, PTL
  DEF Spec

-----------------------------------------------------------------------------
(* A scan whose message is delivered twice.  What one execution keeps whatever  *)
(* else happens to the row: its types, the one driver, and that it is not   *)
(* past its scope while the row is pending.  So nothing completes a scan    *)
(* that never ran, and the one step ScanRow does not know is the "running"  *)
(* of an execution that starts over a finished row.                         *)

RowMoves == row' = row \/ Abstract!Next \/ (row # "deleted" /\ row' = "running")

LEMMA KeptParent ==
  ASSUME ITypeOK, OneDriver, PendingInv, ParentStep
  PROVE  OneDriver' /\ PendingInv' /\ RowMoves
<1> USE Tasks DEF ITypeOK, TypeOK, OneDriver, PendingInv, HandedOver, RowMoves, Goto
<1>1. CASE PickParent
  BY <1>1 DEF PickParent, Load, Visible, rowVars
<1>2. CASE ScopeDenied
  BY <1>2 DEF ScopeDenied, SetStatus, Lost, Abstract!Next, Abstract!Fail
<1>3. CASE StartRunning
  BY <1>3 DEF StartRunning, SetStatus, Lost
<1>4. CASE Announce \/ ProbeDone \/ NoHosts
  BY <1>4 DEF Announce, ProbeDone, NoHosts, Progress
<1>5. CASE DiscoverBatch \/ HostsFound \/ DispatchLogged
  BY <1>5 DEF DiscoverBatch, HostsFound, DispatchLogged, rowVars
<1>6. CASE Dispatch
  BY <1>6 DEF Dispatch, rowVars, Task
<1>7. QED
  BY <1>1, <1>2, <1>3, <1>4, <1>5, <1>6 DEF ParentStep

LEMMA KeptProcess ==
  ASSUME ITypeOK, OneDriver, PendingInv, NEW t \in Driver, ProcessStep(t) \/ Raise(t)
  PROVE  OneDriver' /\ PendingInv' /\ RowMoves
<1> USE Tasks DEF ITypeOK, TypeOK, OneDriver, PendingInv, HandedOver, RowMoves, Goto, Driver
<1>1. CASE Check(t) \/ Audited(t)
  BY <1>1 DEF Check, Audited, rowVars
<1>2. CASE Store(t) \/ Exploit(t) \/ LastCheck(t) \/ Notify(t)
  BY <1>2 DEF Store, Exploit, LastCheck, Notify, Progress
<1>3. CASE Recheck(t)
  BY <1>3 DEF Recheck, Progress
<1>4. CASE Finish(t)
  BY <1>4 DEF Finish, SetStatus, Lost, Abstract!Next, Abstract!Complete
<1>5. CASE MarkFailed(t)
  BY <1>5 DEF MarkFailed, Abstract!Next, Abstract!Fail
<1>6. CASE Raise(t)
  BY <1>6 DEF Raise, Raising, rowVars
<1>7. QED
  BY <1>1, <1>2, <1>3, <1>4, <1>5, <1>6 DEF ProcessStep

LEMMA KeptBlock ==
  ASSUME ITypeOK, OneDriver, PendingInv,
         \/ \E b \in Blocks : PollBlock(b) \/ PickBlock(b)
         \/ \E t \in Blocks \cup {"parent"} : NmapEnds(t) \/ NmapKilled(t) \/ OrphanEnds(t)
         \/ \E t \in Task : Crash(t)
  PROVE  OneDriver' /\ PendingInv' /\ RowMoves
<1> USE Tasks DEF ITypeOK, TypeOK, OneDriver, PendingInv, HandedOver, RowMoves, Goto
<1>1. ASSUME NEW b \in Blocks, PollBlock(b) \/ PickBlock(b)
      PROVE  OneDriver' /\ PendingInv' /\ RowMoves
  BY <1>1 DEF PollBlock, PickBlock, Load, rowVars
<1>2. ASSUME NEW t \in Blocks \cup {"parent"}, NmapEnds(t) \/ NmapKilled(t) \/ OrphanEnds(t)
      PROVE  OneDriver' /\ PendingInv' /\ RowMoves
  BY <1>2 DEF NmapEnds, NmapKilled, OrphanEnds, rowVars
<1>3. ASSUME NEW t \in Task, Crash(t)
      PROVE  OneDriver' /\ PendingInv' /\ RowMoves
  BY <1>3 DEF Crash, Die, Busy, rowVars, Task
<1>4. QED
  BY <1>1, <1>2, <1>3

LEMMA KeptRest ==
  ASSUME ITypeOK, OneDriver, PendingInv,
         PollParent \/ ChordFires \/ PickMerge \/ Drain("parent") \/ Terminate
  PROVE  OneDriver' /\ PendingInv' /\ RowMoves
<1> USE Tasks DEF ITypeOK, TypeOK, OneDriver, PendingInv, HandedOver, RowMoves, Goto
<1>1. CASE PollParent
  BY <1>1 DEF PollParent, Progress, Load
<1>2. CASE ChordFires
  BY <1>2 DEF ChordFires, rowVars
<1>3. CASE PickMerge
  BY <1>3 DEF PickMerge, Load, rowVars
<1>4. CASE Drain("parent") \/ Terminate
  BY <1>4 DEF Drain, Terminate, Die, rowVars
<1>5. QED
  BY <1>1, <1>2, <1>3, <1>4

(* A task that has been sent is not sent again by its request.              *)
LaunchKept == launch' = "enqueue" => launch = "enqueue"

LEMMA TasksKeepLaunch == TaskStep => UNCHANGED launch
BY DEF TaskStep, ParentStep, PickParent, ScopeDenied, StartRunning, Announce, DiscoverBatch,
       ProbeDone, HostsFound, NoHosts, Dispatch, DispatchLogged, PollParent, PollBlock, PickBlock,
       NmapEnds, NmapKilled, OrphanEnds, ChordFires, PickMerge, ProcessStep, Check, Store, Recheck,
       Exploit, LastCheck, Notify, Finish, Audited, MarkFailed, Raise, Drain, Crash, Terminate, Die

LEMMA KeptStep ==
  ASSUME ITypeOK, OneDriver, PendingInv, launch = "enqueue" => stage["parent"] = "absent", Next
  PROVE  OneDriver' /\ PendingInv' /\ RowMoves /\ LaunchKept
<1> USE Tasks DEF ITypeOK, TypeOK, OneDriver, PendingInv, HandedOver, RowMoves
<1>1. CASE Enqueue
  BY <1>1 DEF Enqueue, Goto, LaunchKept, rowVars
<1>2. CASE WriteTaskId \/ SkipTaskId
  BY <1>2 DEF LaunchKept, WriteTaskId, SkipTaskId, rowVars, workVars
<1>3. CASE TaskStep
  BY <1>3, KeptParent, KeptProcess, KeptBlock, KeptRest, TasksKeepLaunch DEF TaskStep, LaunchKept
<1>4. ASSUME NEW q \in Requests, WebStep(q)
      PROVE  OneDriver' /\ PendingInv' /\ RowMoves /\ LaunchKept
  BY <1>4 DEF LaunchKept, WebStep, StopRead, DeleteRead, Revoke, StopWrite, DeleteWrite, rowVars,
              workVars, Abstract!Next, Abstract!Stop, Abstract!Delete
<1>5. QED
  BY <1>1, <1>2, <1>3, <1>4 DEF Next

-----------------------------------------------------------------------------
(* The second execution is an instance of the same module, so the argument  *)
(* is the same; the provers want it spelled out over its own variables.     *)

SecondType == Second!TypeOK /\ (stage2["parent"] = "probing" => rounds2 > 0)

LEMMA SecondTasks ==
  /\ "parent" \in Second!Task /\ "merge" \in Second!Task /\ Blocks \subseteq Second!Task
  /\ "parent" \notin Blocks /\ "merge" \notin Blocks /\ Blocks # {}
BY ScanAssumption DEF ScanAssumption, Second!Task

LEMMA SecondVisible ==
  ASSUME Second!TypeOK
  PROVE  Second!Visible \in Second!Status \cup {"none"}
BY DEF Second!TypeOK, Second!Visible, Second!Row

LEMMA SecondSetStatus ==
  ASSUME Second!TypeOK, NEW t \in Second!Task, NEW new \in Second!Status,
         NEW s \in Second!Stage, Second!SetStatus(t, new, s)
  PROVE  /\ row' \in Second!Row
         /\ stage2' \in [Second!Task -> Second!Stage]
         /\ cache2' \in [Second!Task -> Second!Status \cup {"none"}]
<1>1. row' \in Second!Row
  BY DEF Second!TypeOK, Second!SetStatus, Second!Row
<1>2. (IF row' = "deleted" THEN "none" ELSE row') \in Second!Status \cup {"none"}
  BY <1>1 DEF Second!Row
<1>3. (IF Second!Lost(t) THEN "failing" ELSE s) \in Second!Stage
  BY DEF Second!Stage
<1>4. QED
  BY <1>1, <1>2, <1>3 DEF Second!SetStatus, Second!Goto, Second!TypeOK

LEMMA SecondTypeParent ==
  ASSUME SecondType, Second!ParentStep
  PROVE  SecondType'
<1> USE DEF SecondType
<1>t. "parent" \in Second!Task /\ "merge" \in Second!Task
  BY DEF Second!Task
<1>1. CASE Second!PickParent
  BY <1>1, <1>t DEF Second!PickParent, Second!Load, Second!Goto, Second!Visible, Second!TypeOK,
       Second!Stage, Second!Row, Second!rowVars, Second!webVars
<1>2. CASE Second!ScopeDenied
  BY <1>2, <1>t, SecondSetStatus DEF Second!ScopeDenied, Second!SetStatus, Second!Goto,
       Second!TypeOK, Second!Stage, Second!Status, Second!webVars
<1>3. CASE Second!StartRunning
  BY <1>3, <1>t, SecondSetStatus DEF Second!StartRunning, Second!SetStatus, Second!Goto,
       Second!TypeOK, Second!Stage, Second!Status, Second!webVars
<1>4. CASE Second!Announce
  BY <1>4, <1>t, SecondVisible DEF Second!Announce, Second!Progress, Second!Goto, Second!TypeOK,
       Second!Stage, Second!webVars
<1>5. CASE Second!DiscoverBatch
  BY <1>5, <1>t DEF Second!DiscoverBatch, Second!Goto, Second!TypeOK, Second!Stage,
       Second!rowVars, Second!webVars
<1>6. CASE Second!ProbeDone
  BY <1>6, <1>t, SecondVisible, ScanAssumption
     DEF ScanAssumption, Second!ProbeDone, Second!Progress, Second!Goto, Second!TypeOK,
          Second!Stage, Second!webVars
<1>7. CASE Second!HostsFound
  BY <1>7, <1>t DEF Second!HostsFound, Second!Goto, Second!TypeOK, Second!Stage, Second!rowVars,
       Second!webVars
<1>8. CASE Second!NoHosts
  BY <1>8, <1>t, SecondVisible DEF Second!NoHosts, Second!Progress, Second!Goto, Second!TypeOK,
       Second!Stage, Second!webVars
<1>9. CASE Second!Dispatch
  BY <1>9, <1>t DEF Second!Dispatch, Second!Visible, Second!Row, Second!TypeOK, Second!Stage,
       Second!rowVars, Second!webVars
<1>10. CASE Second!DispatchLogged
  BY <1>10, <1>t DEF Second!DispatchLogged, Second!Goto, Second!TypeOK, Second!Stage,
       Second!rowVars, Second!webVars
<1>11. QED
  BY <1>1, <1>2, <1>3, <1>4, <1>5, <1>6, <1>7, <1>8, <1>9, <1>10 DEF Second!ParentStep

LEMMA SecondTypeProcess ==
  ASSUME SecondType, NEW t \in Second!Driver, Second!ProcessStep(t) \/ Second!Raise(t)
  PROVE  SecondType'
<1> USE DEF SecondType
<1>t. t \in Second!Task
  BY DEF Second!Task, Second!Driver
<1>1. CASE Second!Check(t)
  BY <1>1, <1>t DEF Second!Check, Second!Goto, Second!TypeOK, Second!Stage, Second!rowVars,
       Second!webVars
<1>2. CASE Second!Store(t)
  BY <1>2, <1>t, SecondVisible DEF Second!Store, Second!Progress, Second!Goto, Second!TypeOK,
       Second!Stage, Second!webVars
<1>3. CASE Second!Recheck(t)
  BY <1>3, <1>t, SecondVisible DEF Second!Recheck, Second!Progress, Second!Goto, Second!TypeOK,
       Second!Stage, Second!webVars
<1>4. CASE Second!Exploit(t)
  BY <1>4, <1>t, SecondVisible DEF Second!Exploit, Second!Progress, Second!Goto, Second!TypeOK,
       Second!Stage, Second!webVars
<1>5. CASE Second!LastCheck(t)
  BY <1>5, <1>t, SecondVisible DEF Second!LastCheck, Second!Progress, Second!Goto,
       Second!TypeOK, Second!Stage, Second!webVars
<1>6. CASE Second!Notify(t)
  BY <1>6, <1>t, SecondVisible DEF Second!Notify, Second!Progress, Second!Goto, Second!TypeOK,
       Second!Stage, Second!webVars
<1>7. CASE Second!Finish(t)
  <2>1. Second!SetStatus(t, "completed", "audit") /\ "completed" \in Second!Status
        /\ "audit" \in Second!Stage
    BY <1>7 DEF Second!Finish, Second!Status, Second!Stage
  <2>2. /\ row' \in Second!Row
        /\ stage2' \in [Second!Task -> Second!Stage]
        /\ cache2' \in [Second!Task -> Second!Status \cup {"none"}]
    BY <2>1, <1>t, SecondSetStatus
  <2>3. stage2'["parent"] = "probing" => stage2["parent"] = "probing"
    BY <2>1, <1>t DEF Second!SetStatus, Second!Goto, Second!TypeOK
  <2>4. QED
    BY <1>7, <2>2, <2>3 DEF Second!Finish, Second!TypeOK, Second!webVars
<1>11. CASE Second!Audited(t)
  BY <1>11, <1>t DEF Second!Audited, Second!Goto, Second!TypeOK, Second!Stage, Second!rowVars,
       Second!webVars
<1>8. CASE Second!MarkFailed(t)
  BY <1>8, <1>t DEF Second!MarkFailed, Second!Goto, Second!TypeOK, Second!Stage, Second!Row,
       Second!Status
<1>9. CASE Second!Raise(t)
  BY <1>9, <1>t DEF Second!Raise, Second!Goto, Second!TypeOK, Second!Stage, Second!rowVars,
       Second!webVars
<1>10. QED
  BY <1>1, <1>2, <1>3, <1>4, <1>5, <1>6, <1>7, <1>8, <1>9, <1>11 DEF Second!ProcessStep

LEMMA SecondTypeBlock ==
  ASSUME SecondType, NEW b \in Blocks, Second!PollBlock(b) \/ Second!PickBlock(b)
  PROVE  SecondType'
<1> USE DEF SecondType
<1>t. b \in Second!Task /\ b # "parent"
  BY ScanAssumption DEF ScanAssumption, Second!Task
<1>1. CASE Second!PollBlock(b)
  <2>1. (cancel2[b] \/ cache2[b] = "cancelled") \in BOOLEAN
    OBVIOUS
  <2>2. cancel2' \in [Second!Task -> BOOLEAN]
    BY <1>1, <1>t, <2>1 DEF Second!PollBlock, Second!TypeOK
  <2>3. QED
    BY <1>1, <2>2 DEF Second!PollBlock, Second!TypeOK, Second!rowVars, Second!webVars
<1>2. CASE Second!PickBlock(b)
  BY <1>2, <1>t DEF Second!PickBlock, Second!Load, Second!Goto, Second!Visible, Second!TypeOK,
       Second!Stage, Second!Row, Second!rowVars, Second!webVars
<1>3. QED
  BY <1>1, <1>2

LEMMA SecondTypeRest ==
  ASSUME SecondType,
         \/ Second!PollParent \/ Second!ChordFires \/ Second!PickMerge
         \/ Second!Drain("parent") \/ Second!Terminate
         \/ \E t \in Blocks \cup {"parent"} :
              Second!NmapEnds(t) \/ Second!NmapKilled(t) \/ Second!OrphanEnds(t)
         \/ \E t \in Second!Task : Second!Crash(t)
  PROVE  SecondType'
<1> USE DEF SecondType
<1>t. "parent" \in Second!Task /\ "merge" \in Second!Task /\ Blocks \subseteq Second!Task
      /\ "parent" # "merge"
  BY DEF Second!Task
<1>2. CASE Second!PollParent
  BY <1>2, <1>t, SecondVisible DEF Second!PollParent, Second!Progress, Second!Load, Second!Goto,
       Second!TypeOK, Second!Stage, Second!webVars
<1>3. CASE Second!ChordFires \/ Second!PickMerge \/ Second!Drain("parent")
  BY <1>3, <1>t DEF Second!ChordFires, Second!PickMerge, Second!Drain, Second!Load,
       Second!Visible, Second!Goto, Second!TypeOK, Second!Stage, Second!Row,
                    Second!rowVars, Second!webVars
<1>4. CASE Second!Terminate
  BY <1>4, <1>t DEF Second!Terminate, Second!Die, Second!Goto, Second!TypeOK, Second!Stage,
       Second!rowVars, Second!webVars
<1>5. ASSUME NEW t \in Blocks \cup {"parent"},
             Second!NmapEnds(t) \/ Second!NmapKilled(t) \/ Second!OrphanEnds(t)
      PROVE  SecondType'
  BY <1>5, <1>t DEF Second!NmapEnds, Second!NmapKilled, Second!OrphanEnds, Second!Goto,
       Second!TypeOK, Second!Stage, Second!rowVars, Second!webVars
<1>6. ASSUME NEW t \in Second!Task, Second!Crash(t)
      PROVE  SecondType'
  BY <1>6, ScanAssumption
     DEF ScanAssumption, Second!Crash, Second!Die, Second!Goto, Second!TypeOK, Second!Stage,
          Second!rowVars, Second!webVars
<1>7. QED
  BY <1>2, <1>3, <1>4, <1>5, <1>6

LEMMA SecondKeptParent ==
  ASSUME SecondType, Second!OneDriver, Second!PendingInv, Second!ParentStep
  PROVE  Second!OneDriver' /\ Second!PendingInv' /\ RowMoves
<1> USE SecondTasks DEF SecondType, Second!TypeOK, Second!OneDriver, Second!PendingInv,
     Second!HandedOver, RowMoves, Second!Goto
<1>1. CASE Second!PickParent
  BY <1>1 DEF Second!PickParent, Second!Load, Second!Visible, Second!rowVars
<1>2. CASE Second!ScopeDenied
  BY <1>2 DEF Second!ScopeDenied, Second!SetStatus, Second!Lost, Abstract!Next, Abstract!Fail
<1>3. CASE Second!StartRunning
  BY <1>3 DEF Second!StartRunning, Second!SetStatus, Second!Lost
<1>4. CASE Second!Announce \/ Second!ProbeDone \/ Second!NoHosts
  BY <1>4 DEF Second!Announce, Second!ProbeDone, Second!NoHosts, Second!Progress
<1>5. CASE Second!DiscoverBatch \/ Second!HostsFound \/ Second!DispatchLogged
  BY <1>5 DEF Second!DiscoverBatch, Second!HostsFound, Second!DispatchLogged, Second!rowVars
<1>6. CASE Second!Dispatch
  BY <1>6 DEF Second!Dispatch, Second!rowVars, Second!Task
<1>7. QED
  BY <1>1, <1>2, <1>3, <1>4, <1>5, <1>6 DEF Second!ParentStep

LEMMA SecondKeptProcess ==
  ASSUME SecondType, Second!OneDriver, Second!PendingInv, NEW t \in Second!Driver,
         Second!ProcessStep(t) \/ Second!Raise(t)
  PROVE  Second!OneDriver' /\ Second!PendingInv' /\ RowMoves
<1> USE SecondTasks DEF SecondType, Second!TypeOK, Second!OneDriver, Second!PendingInv,
     Second!HandedOver, RowMoves, Second!Goto, Second!Driver
<1>1. CASE Second!Check(t) \/ Second!Audited(t)
  BY <1>1 DEF Second!Check, Second!Audited, Second!rowVars
<1>2. CASE Second!Store(t) \/ Second!Exploit(t) \/ Second!LastCheck(t) \/ Second!Notify(t)
  BY <1>2 DEF Second!Store, Second!Exploit, Second!LastCheck, Second!Notify, Second!Progress
<1>3. CASE Second!Recheck(t)
  BY <1>3 DEF Second!Recheck, Second!Progress
<1>4. CASE Second!Finish(t)
  BY <1>4 DEF Second!Finish, Second!SetStatus, Second!Lost, Abstract!Next, Abstract!Complete
<1>5. CASE Second!MarkFailed(t)
  BY <1>5 DEF Second!MarkFailed, Abstract!Next, Abstract!Fail
<1>6. CASE Second!Raise(t)
  BY <1>6 DEF Second!Raise, Second!Raising, Second!rowVars
<1>7. QED
  BY <1>1, <1>2, <1>3, <1>4, <1>5, <1>6 DEF Second!ProcessStep

LEMMA SecondKeptBlock ==
  ASSUME SecondType, Second!OneDriver, Second!PendingInv,
         \/ \E b \in Blocks : Second!PollBlock(b) \/ Second!PickBlock(b)
         \/ \E t \in Blocks \cup {"parent"} :
              Second!NmapEnds(t) \/ Second!NmapKilled(t) \/ Second!OrphanEnds(t)
         \/ \E t \in Second!Task : Second!Crash(t)
  PROVE  Second!OneDriver' /\ Second!PendingInv' /\ RowMoves
<1> USE SecondTasks DEF SecondType, Second!TypeOK, Second!OneDriver, Second!PendingInv,
     Second!HandedOver, RowMoves, Second!Goto
<1>1. ASSUME NEW b \in Blocks, Second!PollBlock(b) \/ Second!PickBlock(b)
      PROVE  Second!OneDriver' /\ Second!PendingInv' /\ RowMoves
  BY <1>1 DEF Second!PollBlock, Second!PickBlock, Second!Load, Second!rowVars
<1>2. ASSUME NEW t \in Blocks \cup {"parent"},
             Second!NmapEnds(t) \/ Second!NmapKilled(t) \/ Second!OrphanEnds(t)
      PROVE  Second!OneDriver' /\ Second!PendingInv' /\ RowMoves
  BY <1>2 DEF Second!NmapEnds, Second!NmapKilled, Second!OrphanEnds, Second!rowVars
<1>3. ASSUME NEW t \in Second!Task, Second!Crash(t)
      PROVE  Second!OneDriver' /\ Second!PendingInv' /\ RowMoves
  BY <1>3 DEF Second!Crash, Second!Die, Second!Busy, Second!rowVars, Second!Task
<1>4. QED
  BY <1>1, <1>2, <1>3

LEMMA SecondKeptRest ==
  ASSUME SecondType, Second!OneDriver, Second!PendingInv,
         \/ Second!PollParent \/ Second!ChordFires \/ Second!PickMerge
         \/ Second!Drain("parent") \/ Second!Terminate
  PROVE  Second!OneDriver' /\ Second!PendingInv' /\ RowMoves
<1> USE SecondTasks DEF SecondType, Second!TypeOK, Second!OneDriver, Second!PendingInv,
     Second!HandedOver, RowMoves, Second!Goto
<1>1. CASE Second!PollParent
  BY <1>1 DEF Second!PollParent, Second!Progress, Second!Load
<1>2. CASE Second!ChordFires
  BY <1>2 DEF Second!ChordFires, Second!rowVars
<1>3. CASE Second!PickMerge
  BY <1>3 DEF Second!PickMerge, Second!Load, Second!rowVars
<1>4. CASE Second!Drain("parent") \/ Second!Terminate
  BY <1>4 DEF Second!Drain, Second!Terminate, Second!Die, Second!rowVars
<1>5. QED
  BY <1>1, <1>2, <1>3, <1>4

LEMMA SecondKeepsLaunch == Second!TaskStep => UNCHANGED launch
BY DEF Second!TaskStep, Second!ParentStep, Second!PickParent, Second!ScopeDenied,
       Second!StartRunning, Second!Announce, Second!DiscoverBatch, Second!ProbeDone,
       Second!HostsFound, Second!NoHosts, Second!Dispatch, Second!DispatchLogged,
       Second!PollParent, Second!PollBlock, Second!PickBlock, Second!NmapEnds,
       Second!NmapKilled, Second!OrphanEnds, Second!ChordFires, Second!PickMerge,
       Second!ProcessStep, Second!Check, Second!Store, Second!Recheck, Second!Exploit,
       Second!LastCheck, Second!Notify, Second!Finish, Second!Audited, Second!MarkFailed,
       Second!Raise, Second!Drain, Second!Crash, Second!Terminate, Second!Die

LEMMA SecondStepKeeps ==
  ASSUME SecondType, Second!OneDriver, Second!PendingInv, Second!TaskStep
  PROVE  SecondType' /\ Second!OneDriver' /\ Second!PendingInv' /\ RowMoves
<1>1. SecondType'
  BY SecondTypeParent, SecondTypeProcess, SecondTypeBlock, SecondTypeRest DEF Second!TaskStep
<1>2. Second!OneDriver' /\ Second!PendingInv' /\ RowMoves
  BY SecondKeptParent, SecondKeptProcess, SecondKeptBlock, SecondKeptRest DEF Second!TaskStep
<1>3. QED
  BY <1>1, <1>2

(* Before the message is delivered again the second execution does nothing. *)
SecondAbsent ==
  /\ stage2 = [t \in Task |-> "absent"]
  /\ nmap2 = [t \in Task |-> "off"]
  /\ cache2 = [t \in Task |-> "none"]

LEMMA SecondIdle == SecondAbsent => ~Second!TaskStep
<1> SUFFICES ASSUME SecondAbsent, Second!TaskStep PROVE FALSE
  OBVIOUS
<1> USE Tasks, SecondTasks DEF SecondAbsent
<1>1. CASE Second!ParentStep
  BY <1>1 DEF Second!ParentStep, Second!PickParent, Second!ScopeDenied, Second!StartRunning,
              Second!Announce, Second!DiscoverBatch, Second!ProbeDone, Second!HostsFound,
              Second!NoHosts, Second!Dispatch, Second!DispatchLogged
<1>2. CASE Second!PollParent \/ Second!ChordFires \/ Second!PickMerge
           \/ Second!Drain("parent") \/ Second!Terminate
  BY <1>2 DEF Second!PollParent, Second!ChordFires, Second!PickMerge, Second!Drain,
              Second!Terminate, Second!Busy
<1>3. CASE \E b \in Blocks : Second!PollBlock(b) \/ Second!PickBlock(b)
  BY <1>3 DEF Second!PollBlock, Second!PickBlock
<1>4. CASE \E t \in Blocks \cup {"parent"} :
             Second!NmapEnds(t) \/ Second!NmapKilled(t) \/ Second!OrphanEnds(t)
  BY <1>4 DEF Second!NmapEnds, Second!NmapKilled, Second!OrphanEnds
<1>5. CASE \E t \in Second!Driver : Second!ProcessStep(t) \/ Second!Raise(t)
  BY <1>5 DEF Second!Driver, Second!ProcessStep, Second!Check, Second!Store, Second!Recheck,
              Second!Exploit, Second!LastCheck, Second!Notify, Second!Finish, Second!Audited,
              Second!MarkFailed, Second!Raise, Second!Raising
<1>6. CASE \E t \in Second!Task : Second!Crash(t)
  BY <1>6 DEF Second!Task, Task, Second!Crash, Second!Busy
<1>7. QED
  BY <1>1, <1>2, <1>3, <1>4, <1>5, <1>6 DEF Second!TaskStep

-----------------------------------------------------------------------------
(* Both executions together.                                                *)

Both ==
  /\ ITypeOK /\ OneDriver /\ PendingInv
  /\ SecondType /\ Second!OneDriver /\ Second!PendingInv

\* A message not yet delivered twice leaves everything one execution promises.
Alone == StopInv /\ RowInv /\ OrphanNeedsCause /\ Alive /\ SecondAbsent

DInv == /\ Both
        /\ twice \in BOOLEAN
        /\ IF twice THEN launch # "enqueue" ELSE Alone

LEMMA BothInit == DeliveryInit => DInv
<1> SUFFICES ASSUME DeliveryInit PROVE DInv
  OBVIOUS
<1>1. Init /\ IInv /\ RowInv /\ OrphanNeedsCause /\ Alive
  BY StopInit, RowInit, OrphanInit, AliveInit DEF DeliveryInit
<1>2. SecondAbsent /\ twice = FALSE
  BY DEF DeliveryInit, SecondAbsent
<1>3. ITypeOK /\ OneDriver /\ PendingInv
  BY <1>1 DEF IInv, StopInv, RowInv
<1>4. Second!TypeOK
  <2>1. /\ stage2 \in [Second!Task -> Second!Stage]
        /\ nmap2 \in [Second!Task -> {"off", "on", "orphan"}]
        /\ cache2 \in [Second!Task -> Second!Status \cup {"none"}]
    BY <1>2 DEF SecondAbsent, Task, Second!Task, Second!Stage
  <2>2. cancel2 \in [Second!Task -> BOOLEAN] /\ exploited2 \in BOOLEAN
    <3>1. cancel2 = [t \in Second!Task |-> FALSE] /\ exploited2 = FALSE
      BY Zenon DEF DeliveryInit, Task, Second!Task
    <3>2. QED
      BY <3>1, Zenon
  <2>3. rounds2 \in 0..MaxRounds
    BY ScanAssumption DEF ScanAssumption, DeliveryInit
  <2>4. QED
    BY <1>3, <2>1, <2>2, <2>3
    DEF ITypeOK, TypeOK, Second!TypeOK, Row, Second!Row, Status, Second!Status, Web, Second!Web,
        AllPlans, Second!AllPlans
<1>5. stage2["parent"] # "probing" /\ Second!OneDriver /\ Second!PendingInv
  BY <1>2, Tasks, SecondTasks
  DEF SecondAbsent, Second!OneDriver, Second!PendingInv, Second!HandedOver, Task, Second!Task
<1>6. QED
  BY <1>1, <1>2, <1>3, <1>4, <1>5 DEF DInv, Both, Alone, SecondType, IInv

LEMMA FirstKeeps ==
  ASSUME DInv, FirstStep
  PROVE  DInv' /\ [Abstract!Next \/ Restart]_row
<1>1. ITypeOK' /\ OneDriver' /\ PendingInv' /\ RowMoves /\ LaunchKept
  BY TypeStep, KeptStep DEF FirstStep, DInv, Both, Alone, StopInv
<1>2. UNCHANGED <<twice, stage2, cache2, nmap2, cancel2, rounds2, exploited2>>
  BY DEF FirstStep, secondVars
<1>3. SecondType'
  BY <1>1, <1>2
  DEF DInv, Both, SecondType, ITypeOK, TypeOK, Second!TypeOK, Row, Second!Row, Status,
      Second!Status, Web, Second!Web, AllPlans, Second!AllPlans
<1>4. Second!OneDriver' /\ Second!PendingInv'
  <2>1. row' = "pending" => row = "pending"
    BY <1>1 DEF RowMoves, Abstract!Next, Abstract!Begin, Abstract!Complete, Abstract!Fail,
                Abstract!Stop, Abstract!Delete
  <2>2. QED
    BY <1>2, <2>1 DEF DInv, Both, Second!OneDriver, Second!PendingInv, Second!HandedOver
<1>5. CASE twice
  BY <1>1, <1>2, <1>3, <1>4, <1>5 DEF DInv, Both, RowMoves, Restart, LaunchKept
<1>6. CASE ~twice
  <2>1. IInv /\ RowInv /\ OrphanNeedsCause /\ Alive /\ SecondAbsent /\ [Next]_vars
    BY <1>6 DEF DInv, Both, Alone, IInv, FirstStep
  <2>2. IInv' /\ RowInv' /\ OrphanNeedsCause' /\ Alive' /\ [Abstract!Next]_row
    BY <2>1, StopStep, RowStep, OrphanStep, AliveStep
  <2>3. SecondAbsent'
    BY <2>1, <1>2 DEF SecondAbsent
  <2>4. QED
    BY <1>1, <1>2, <1>3, <1>4, <1>6, <2>2, <2>3 DEF DInv, Both, Alone, IInv
<1>7. QED
  BY <1>5, <1>6

LEMMA SecondKeeps ==
  ASSUME DInv, SecondStep
  PROVE  DInv' /\ [Abstract!Next \/ Restart]_row
<1>1. twice
  BY SecondIdle DEF DInv, Alone, SecondStep
<1>2. SecondType' /\ Second!OneDriver' /\ Second!PendingInv' /\ RowMoves
  BY SecondStepKeeps DEF SecondStep, DInv, Both
<1>3. UNCHANGED <<twice, stage, cache, nmap, cancel, rounds, exploited>>
  BY DEF SecondStep, workVars
<1>4. ITypeOK'
  BY <1>2, <1>3
  DEF DInv, Both, SecondType, ITypeOK, TypeOK, Second!TypeOK, Row, Second!Row, Status,
      Second!Status, Web, Second!Web, AllPlans, Second!AllPlans
<1>5. OneDriver' /\ PendingInv'
  <2>1. row' = "pending" => row = "pending"
    BY <1>2 DEF RowMoves, Abstract!Next, Abstract!Begin, Abstract!Complete, Abstract!Fail,
                Abstract!Stop, Abstract!Delete
  <2>2. QED
    BY <1>3, <2>1 DEF DInv, Both, OneDriver, PendingInv, HandedOver
<1>6. QED
  BY <1>1, <1>2, <1>3, <1>4, <1>5, SecondKeepsLaunch DEF DInv, Both, RowMoves, Restart, SecondStep

LEMMA RedeliverKeeps ==
  ASSUME DInv, Redeliver
  PROVE  DInv' /\ [Abstract!Next \/ Restart]_row
<1>1. SecondAbsent
  BY DEF Redeliver, DInv, Alone
<1>2. /\ twice' = TRUE /\ UNCHANGED <<vars, cache2, nmap2, cancel2, rounds2, exploited2>>
      /\ stage2' = [stage2 EXCEPT !["parent"] = "queued"]
  BY DEF Redeliver, Second!Goto
<1>3. ITypeOK' /\ OneDriver' /\ PendingInv'
  BY <1>2 DEF DInv, Both, ITypeOK, TypeOK, OneDriver, PendingInv, HandedOver, vars, rowVars,
              workVars, webVars
<1>4. SecondType'
  BY <1>2, SecondTasks
  DEF DInv, Both, SecondType, Second!TypeOK, Second!Stage, vars, rowVars, workVars, webVars
<1>5. Second!OneDriver' /\ Second!PendingInv'
  BY <1>1, <1>2, Tasks, SecondTasks
  DEF SecondAbsent, Second!OneDriver, Second!PendingInv, Second!HandedOver, Task, Second!Task
<1>6. launch' # "enqueue"
  BY <1>2 DEF Redeliver, DInv, Alone, StopInv, vars
<1>7. QED
  BY <1>2, <1>3, <1>4, <1>5, <1>6 DEF DInv, Both, vars, rowVars

LEMMA BothStep ==
  DInv /\ [DeliveryNext]_allVars => DInv' /\ [Abstract!Next \/ Restart]_row
<1> SUFFICES ASSUME DInv, [DeliveryNext]_allVars
             PROVE  DInv' /\ [Abstract!Next \/ Restart]_row
  OBVIOUS
<1>1. CASE UNCHANGED allVars
  <2>1. UNCHANGED <<vars, twice, stage2, cache2, nmap2, cancel2, rounds2, exploited2>>
    BY <1>1 DEF allVars, secondVars
  <2>2. ITypeOK' /\ IInv' = IInv /\ RowInv' = RowInv /\ OrphanNeedsCause' = OrphanNeedsCause
        /\ Alive' = Alive /\ OneDriver' /\ PendingInv'
    BY <2>1
    DEF DInv, Both, IInv, ITypeOK, TypeOK, StopInv, OneDriver, CompletedMeansFinished, HandedOver,
        RowInv, PendingInv, OrphanNeedsCause, Alive, SessionInv, StuckNeedsCause, AtWork,
        vars, rowVars, workVars, webVars
  <2>3. SecondType' /\ Second!OneDriver' /\ Second!PendingInv'
    BY <2>1
    DEF DInv, Both, SecondType, Second!TypeOK, Second!OneDriver, Second!PendingInv,
        Second!HandedOver, vars, rowVars, workVars, webVars
  <2>4. QED
    BY <2>1, <2>2, <2>3 DEF DInv, Both, Alone, IInv, SecondAbsent, vars, rowVars
<1>2. QED
  BY <1>1, FirstKeeps, SecondKeeps, RedeliverKeeps DEF DeliveryNext

LEMMA BothInvariant == DeliverySpec => []DInv
BY BothInit, BothStep, PTL DEF DeliverySpec

(* What the row, the tasks, their sessions, the Stop and the nmap processes *)
(* owe each other holds in every state, for any number of children,         *)
(* requests and crashes; a scan delivered twice keeps the part of it that   *)
(* each execution keeps for itself.                                         *)
THEOREM DeliveriesInvariant == DeliverySpec => []DeliveryInv
<1>1. DInv => DeliveryInv
  BY DEF DInv, Both, Alone, DeliveryInv, SecondType, ITypeOK, ScanInv, Alive
<1>2. QED
  BY <1>1, BothInvariant, PTL

(* A Stop the worker can still see is never painted over by "completed",    *)
(* unless the message is delivered twice.                                   *)
THEOREM StopIsHonoured == DeliverySpec => []StopIsKept
<1>1. DInv => StopIsKept
  BY DEF DInv, Alone, StopInv, StopIsKept, StopHonoured
<1>2. QED
  BY <1>1, BothInvariant, PTL

(* A scan stopped before the exploitation phase never enters it, unless the *)
(* message is delivered twice.                                              *)
THEOREM StopBarsExploitation == DeliverySpec => []StopKeepsFromExploit
<1>1. DInv => StopKeepsFromExploit
  BY DEF DInv, Alone, StopInv, StopKeepsFromExploit, StopBarsExploit
<1>2. QED
  BY <1>1, BothInvariant, PTL

(* "completed" is only ever shown for a scan whose blocks have all returned *)
(* and which no task still processes, unless the message is delivered twice.*)
THEOREM CompletedIsFinished == DeliverySpec => []CompletedIsWhole
<1>1. DInv => CompletedIsWhole
  BY DEF DInv, Alone, StopInv, CompletedIsWhole
<1>2. QED
  BY <1>1, BothInvariant, PTL

(* The row of a network scan lives the life ScanRow promises, for any       *)
(* number of children, requests and crashes and in every plan; the one step *)
(* beyond it is the "running" that a message delivered twice writes over a  *)
(* finished row.                                                            *)
THEOREM ScanRowImplemented == DeliverySpec => ScanRowLife
<1>1. DeliveryInit => Abstract!Init
  BY DEF DeliveryInit, Init, Abstract!Init
<1>2. QED
  BY <1>1, BothStep, BothInvariant, PTL DEF DeliverySpec, ScanRowLife


-----------------------------------------------------------------------------
(* A Stop reaches the nmap of the parent in two steps, each owed by weak    *)
(* fairness: a poll that sees the row "cancelled" sets the cancel event,    *)
(* and the set event ends the process.  Until then no step takes the Stop   *)
(* away but a Delete.  That the two steps are possible where they are due   *)
(* is KillPossible, the one fact here TLC has to supply: ENABLED is beyond  *)
(* the provers, which see it as an unknown.                                 *)

Unseen == stage["parent"] = "nmap" /\ row = "cancelled" /\ ~cancel["parent"]
Seen   == stage["parent"] = "nmap" /\ cancel["parent"]
Over   == stage["parent"] # "nmap" \/ row = "deleted"

\* The poll that sees a Stop and the kill the poll has asked for are possible
\* where they are due.
KillPossible ==
  /\ Unseen => ENABLED <<PollParent>>_vars
  /\ Seen => ENABLED <<NmapKilled("parent")>>_vars

LEMMA UnseenParent ==
  ASSUME IInv, Unseen, ParentStep
  PROVE  Unseen' \/ Seen' \/ Over'
<1> USE DEF Unseen, Seen, Over, Goto, SetStatus, Progress
<1>1. CASE PickParent \/ ScopeDenied \/ StartRunning \/ Announce \/ DiscoverBatch
  BY <1>1 DEF PickParent, ScopeDenied, StartRunning, Announce, DiscoverBatch
<1>2. CASE ProbeDone \/ HostsFound \/ NoHosts \/ Dispatch \/ DispatchLogged
  BY <1>2 DEF ProbeDone, HostsFound, NoHosts, Dispatch, DispatchLogged
<1>3. QED
  BY <1>1, <1>2 DEF ParentStep

(* While the parent runs nmap the merge task does not exist, so no driver   *)
(* processes results or writes a status.                                    *)
LEMMA UnseenProcess ==
  ASSUME IInv, Unseen, NEW t \in Driver, ProcessStep(t) \/ Raise(t)
  PROVE  Unseen' \/ Seen' \/ Over'
<1> USE Tasks DEF Unseen, Seen, Over, Goto
<1>1. \A b \in Blocks : stage[b] = "absent"
  BY DEF IInv, StopInv, OneDriver
<1>2. stage["merge"] = "absent"
  BY <1>1 DEF IInv, StopInv, HandedOver
<1>3. CASE Raise(t)
  BY <1>2, <1>3 DEF Raise, Raising, Driver, IInv, ITypeOK, TypeOK
<1>4. CASE ProcessStep(t)
  BY <1>2, <1>4 DEF ProcessStep, Check, Store, Recheck, Exploit, LastCheck, Notify, Finish,
                    Audited, MarkFailed, Driver
<1>5. QED
  BY <1>3, <1>4

LEMMA UnseenRest ==
  ASSUME IInv, Unseen,
         \/ Enqueue \/ WriteTaskId \/ SkipTaskId \/ PollParent \/ ChordFires \/ PickMerge
         \/ Drain("parent") \/ Terminate
         \/ \E b \in Blocks : PollBlock(b) \/ PickBlock(b)
         \/ \E t \in Blocks \cup {"parent"} : NmapEnds(t) \/ NmapKilled(t) \/ OrphanEnds(t)
         \/ \E t \in Task : Crash(t)
         \/ \E q \in Requests : WebStep(q)
  PROVE  Unseen' \/ Seen' \/ Over'
<1> USE Tasks DEF Unseen, Seen, Over, Goto, IInv, ITypeOK, TypeOK, rowVars, workVars
<1>1. CASE Enqueue \/ WriteTaskId \/ SkipTaskId \/ ChordFires \/ PickMerge \/ Drain("parent")
  BY <1>1 DEF Enqueue, WriteTaskId, SkipTaskId, ChordFires, PickMerge, Drain
<1>2. CASE PollParent
  BY <1>2 DEF PollParent, Progress
<1>3. CASE Terminate
  BY <1>3 DEF Terminate, Die
<1>4. ASSUME NEW b \in Blocks, PollBlock(b) \/ PickBlock(b)
      PROVE  Unseen' \/ Seen' \/ Over'
  BY <1>4 DEF PollBlock, PickBlock
<1>5. ASSUME NEW t \in Blocks \cup {"parent"}, NmapEnds(t) \/ NmapKilled(t) \/ OrphanEnds(t)
      PROVE  Unseen' \/ Seen' \/ Over'
  BY <1>5 DEF NmapEnds, NmapKilled, OrphanEnds
<1>6. ASSUME NEW t \in Task, Crash(t)
      PROVE  Unseen' \/ Seen' \/ Over'
  BY <1>6 DEF Crash, Die
<1>7. ASSUME NEW q \in Requests, WebStep(q)
      PROVE  Unseen' \/ Seen' \/ Over'
  BY <1>7 DEF WebStep, StopRead, DeleteRead, Revoke, StopWrite, DeleteWrite
<1>8. QED
  BY <1>1, <1>2, <1>3, <1>4, <1>5, <1>6, <1>7

LEMMA UnseenStep == IInv /\ Unseen /\ [Next]_vars => Unseen' \/ Seen' \/ Over'
<1> SUFFICES ASSUME IInv, Unseen, [Next]_vars PROVE Unseen' \/ Seen' \/ Over'
  OBVIOUS
<1>1. CASE UNCHANGED vars
  BY <1>1 DEF Unseen, vars, rowVars, workVars
<1>2. QED
  BY <1>1, UnseenParent, UnseenProcess, UnseenRest DEF Next, TaskStep

(* The cancel event is never cleared: it stays set until the stage changes. *)
LEMMA SeenStep == IInv /\ Seen /\ [Next]_vars => Seen' \/ Over'
<1> SUFFICES ASSUME IInv, Seen, [Next]_vars PROVE Seen' \/ Over'
  OBVIOUS
<1>1. cancel' = cancel \/ PollParent \/ \E b \in Blocks : PollBlock(b)
  BY DEF Next, TaskStep, vars, workVars, ParentStep, PickParent, ScopeDenied, StartRunning,
           Announce,
         DiscoverBatch, ProbeDone, HostsFound, NoHosts, Dispatch, DispatchLogged, PickBlock,
         NmapEnds, NmapKilled, OrphanEnds, Enqueue, WriteTaskId, SkipTaskId, ChordFires,
         PickMerge, ProcessStep, Check, Store, Recheck, Exploit, LastCheck, Notify, Finish,
         Audited, MarkFailed, Raise, Drain, Crash, Terminate, Die, WebStep, StopRead,
         DeleteRead, Revoke, StopWrite, DeleteWrite
<1>2. cancel'["parent"] = TRUE
  BY <1>1, Tasks DEF Seen, PollParent, PollBlock, IInv, ITypeOK, TypeOK
<1>3. QED
  BY <1>2 DEF Seen, Over

(* A Stop ends the nmap run of the parent, unless a Delete takes the row    *)
(* away before the next poll, for any number of children and requests.      *)
THEOREM StopKillsScan == LiveSpec /\ []KillPossible => StopKillsParentScan
<1>1. IInv /\ Unseen /\ <<PollParent>>_vars => Seen' \/ Over'
  BY Tasks DEF PollParent, Progress, Visible, Unseen, Seen, Over, Goto, IInv, ITypeOK, TypeOK
<1>2. IInv /\ Seen /\ <<NmapKilled("parent")>>_vars => Over'
  BY Tasks DEF NmapKilled, NmapEnds, Goto, Seen, Over, IInv, ITypeOK, TypeOK
<1>3. (row = "cancelled" /\ stage["parent"] = "nmap" => Unseen \/ Seen)
      /\ (Over <=> stage["parent"] # "nmap" \/ row = "deleted")
  BY DEF Unseen, Seen, Over
<1>4. LiveSpec => Spec /\ WF_vars(PollParent) /\ WF_vars(NmapKilled("parent"))
  BY PTL DEF LiveSpec, WorkFairness
<1>5. QED
  BY <1>1, <1>2, <1>3, <1>4, UnseenStep, SeenStep, StopInvariant, PTL
  DEF Spec, StopKillsParentScan, KillPossible

=============================================================================
