--------------------------- MODULE SchedulerProofs ---------------------------
(***************************************************************************)
(* Why a schedule is not dispatched twice in a period unless checks        *)
(* overlapped or one was cut short, for any number of schedules, worker    *)
(* processes and mishaps.                                                  *)
(***************************************************************************)
EXTENDS Scheduler, TLAPS

Ages == Age \cup {Never}

LEMMA OlderType ==
  ASSUME NEW a \in Ages
  PROVE  Older(a) \in Ages /\ (Older(a) = Never <=> a = Never)
BY SchedulerAssumption DEF Older, Ages, Age, Never

LEMMA OlderGrows ==
  ASSUME NEW a \in Age, NEW b \in Age, a <= b
  PROVE  Older(a) \in Age /\ Older(a) <= Older(b) /\ b <= Older(b)
BY SchedulerAssumption DEF Older, Age

\* Two schedules in hand are the same one.
LEMMA InHandUnique ==
  ASSUME TypeOK, NEW w \in Workers, NEW s, NEW t, InHand(w, s), InHand(w, t)
  PROVE  s = t
BY SchedulerAssumption DEF InHand, TypeOK

LEMMA CommitType ==
  ASSUME TypeOK, NEW w \in Workers, Commit(w)
  PROVE  age' \in [Schedules -> Ages] /\ stamped' \in [Workers -> SUBSET Schedules]
<1>1. {} \in SUBSET Schedules
  OBVIOUS
<1> QED
  BY <1>1 DEF Commit, TypeOK, Ages

LEMMA StampType ==
  ASSUME TypeOK, NEW w \in Workers, NEW s \in Schedules, Stamp(w, s)
  PROVE  /\ pc' \in [Workers -> Stage]
         /\ stamped' \in [Workers -> SUBSET Schedules]
         /\ todo' \in [Workers -> SUBSET Schedules]
<1>1. stamped[w] \cup {s} \in SUBSET Schedules /\ todo[w] \ {s} \in SUBSET Schedules
  BY DEF TypeOK
<1> QED
  BY <1>1 DEF Stamp, TypeOK, Stage

LEMMA AbortType ==
  ASSUME TypeOK, NEW w \in Workers, Abort(w), mishaps' \in 0..MaxMishaps, debris' \in BOOLEAN
  PROVE  TypeOK'
<1>1. {} \in SUBSET Schedules /\ 0 \in Age /\ Never \in Age \cup {Never}
  BY SchedulerAssumption DEF Age
<1>2. pc' \in [Workers -> Stage] /\ elapsed' \in [Workers -> Age]
  BY <1>1 DEF Abort, TypeOK, Stage
<1>3. todo' \in [Workers -> SUBSET Schedules] /\ stamped' \in [Workers -> SUBSET Schedules]
  BY <1>1 DEF Abort, TypeOK
<1>4. since' \in [Schedules -> Age \cup {Never}]
  BY <1>1 DEF Abort, TypeOK
<1>5. overlapped' \in [Workers -> BOOLEAN] /\ batch' \in [Workers -> {"none", "empty", "filled", "emptied", "gone"}]
  BY DEF Abort, TypeOK
<1> QED
  BY <1>2, <1>3, <1>4, <1>5 DEF Abort, TypeOK, rows

LEMMA DispatchType ==
  ASSUME TypeOK, NEW w \in Workers, NEW s \in Schedules, Dispatch(w, s)
  PROVE  pc' \in [Workers -> Stage] /\ since' \in [Schedules -> Age \cup {Never}]
<1>1. (IF overlapped[w] THEN Never ELSE elapsed[w]) \in Age \cup {Never}
  BY DEF TypeOK
<1> QED
  BY <1>1 DEF Dispatch, TypeOK, Stage

LEMMA TypeStep == TypeOK /\ [Next]_vars => TypeOK'
<1> SUFFICES ASSUME TypeOK, [Next]_vars PROVE TypeOK'
  OBVIOUS
<1> USE DEF rows, checks, history
<1>1. CASE UNCHANGED vars
  BY <1>1 DEF vars, TypeOK
<1>2. CASE Tick
  <2>1. age' \in [Schedules -> Age \cup {Never}] /\ since' \in [Schedules -> Age \cup {Never}]
    BY <1>2, OlderType DEF Tick, TypeOK, Ages
  <2>2. elapsed' \in [Workers -> Age]
    <3>1. \A w \in Workers : Older(elapsed[w]) \in Age /\ 0 \in Age
      BY OlderGrows, SchedulerAssumption DEF TypeOK, Age
    <3> QED
      BY <3>1, <1>2 DEF Tick
  <2>3. wait' \in [Schedules -> 0..MaxWait] /\ queue' \in 0..MaxChecks
    BY <1>2, SchedulerAssumption DEF Tick, TypeOK
  <2> QED
    BY <1>2, <2>1, <2>2, <2>3 DEF Tick, TypeOK
<1>3. ASSUME NEW s \in Schedules, Create(s) \/ Toggle(s) PROVE TypeOK'
  <2>1. CASE Create(s)
    BY <2>1 DEF Create, TypeOK
  <2>2. CASE Toggle(s)
    <3>1. active' \in [Schedules -> BOOLEAN]
      BY <2>2, Zenon DEF Toggle, TypeOK
    <3> QED
      BY <2>2, <3>1 DEF Toggle, TypeOK
  <2> QED
    BY <1>3, <2>1, <2>2
<1>4. ASSUME NEW s \in Schedules, Delete(s) PROVE TypeOK'
  <2>1. Never \in Age \cup {Never} /\ 0 \in 0..MaxWait
    BY SchedulerAssumption
  <2> QED
    BY <1>4, <2>1 DEF Delete, TypeOK
<1>5. ASSUME NEW w \in Workers, Take(w) PROVE TypeOK'
  <2>1. overlapped' \in [Workers -> BOOLEAN]
    <3>1. \A v \in Workers : (IF v = w THEN \E u \in Workers \ {w} : Running(u)
                              ELSE overlapped[v] \/ Running(v)) \in BOOLEAN
      BY Zenon DEF TypeOK
    <3> QED
      BY <3>1, <1>5, Zenon DEF Take
  <2>2. todo' \in [Workers -> SUBSET Schedules]
    <3>1. {s \in Schedules : IsDue(s)} \in SUBSET Schedules
      OBVIOUS
    <3> QED
      BY <3>1, <1>5 DEF Take, TypeOK
  <2>3. queue' \in 0..MaxChecks /\ pc' \in [Workers -> Stage]
    BY <1>5, SchedulerAssumption DEF Take, TypeOK, Stage
  <2> QED
    BY <1>5, <2>1, <2>2, <2>3 DEF Take, TypeOK
<1>6. ASSUME NEW w \in Workers, Finish(w) PROVE TypeOK'
  <2>1. pc' \in [Workers -> Stage] /\ elapsed' \in [Workers -> Age]
    BY <1>6, SchedulerAssumption DEF Finish, TypeOK, Stage, Age
  <2>2. overlapped' \in [Workers -> BOOLEAN]
    BY <1>6 DEF Finish, TypeOK
  <2>3. Commit(w)
    BY <1>6 DEF Finish
  <2> QED
    BY <1>6, <2>1, <2>2, <2>3, CommitType DEF Finish, TypeOK, Ages
<1>7. ASSUME NEW w \in Workers, Stale(w) \/ AuditRaises(w) \/ RowsGone(w) \/ Lose(w) PROVE TypeOK'
  <2>1. Abort(w)
    BY <1>7 DEF Stale, AuditRaises, RowsGone, Lose
  <2>2. mishaps' \in 0..MaxMishaps
    BY <1>7, SchedulerAssumption DEF Stale, AuditRaises, RowsGone, Lose, TypeOK
  <2>3. debris' \in BOOLEAN
    BY <1>7, Zenon DEF Stale, AuditRaises, RowsGone, Lose, TypeOK
  <2> QED
    BY <2>1, <2>2, <2>3, AbortType
<1>8. ASSUME NEW w \in Workers, NEW s \in Schedules, CreateSingle(w, s) PROVE TypeOK'
  <2>1. Commit(w) /\ Dispatch(w, s)
    BY <1>8 DEF CreateSingle
  <2> QED
    BY <1>8, <2>1, CommitType, DispatchType DEF CreateSingle, TypeOK, Ages
<1>9. ASSUME NEW w \in Workers, NEW s \in Schedules, NoTargets(w, s) \/ Sweep(w, s) PROVE TypeOK'
  <2>1. Stamp(w, s)
    BY <1>9 DEF NoTargets, Sweep
  <2> QED
    BY <1>9, <2>1, StampType DEF NoTargets, Sweep, TypeOK
<1>10. ASSUME NEW w \in Workers, NEW s \in Schedules, CreateBatch(w, s) PROVE TypeOK'
  <2>1. Commit(w)
    BY <1>10 DEF CreateBatch
  <2>2. pc' \in [Workers -> Stage]
    BY <1>10 DEF CreateBatch, TypeOK, Stage
  <2> QED
    BY <1>10, <2>1, <2>2, CommitType DEF CreateBatch, TypeOK, Ages
<1>11. ASSUME NEW w \in Workers, NEW s \in Schedules, CreateMember(w, s) PROVE TypeOK'
  <2>1. Dispatch(w, s)
    BY <1>11 DEF CreateMember
  <2> QED
    BY <1>11, <2>1, DispatchType DEF CreateMember, TypeOK
<1>12. ASSUME NEW w \in Workers, NEW s \in Schedules, Send(w, s) PROVE TypeOK'
  <2>1. CASE Plan[s].template
    BY <1>12, <2>1 DEF Send, TypeOK, Stage
  <2>2. CASE ~Plan[s].template
    <3>1. Stamp(w, s)
      BY <1>12, <2>2 DEF Send
    <3> QED
      BY <1>12, <3>1, StampType DEF Send, TypeOK
  <2> QED
    BY <2>1, <2>2
<1>13. ASSUME NEW w \in Workers, AllDenied(w) \/ Audit(w) PROVE TypeOK'
  BY <1>13 DEF AllDenied, Audit, TypeOK, Stage
<1>14. ASSUME NEW w \in Workers, DeleteInUse(w) PROVE TypeOK'
  BY <1>14, SchedulerAssumption DEF DeleteInUse, TypeOK
<1> QED
  BY <1>1, <1>2, <1>3, <1>4, <1>5, <1>6, <1>7, <1>8, <1>9, <1>10, <1>11, <1>12, <1>13, <1>14
  DEF Next, Step

LEMMA InitType == Init => TypeOK
<1>1. {} \in SUBSET Schedules /\ 0 \in Age /\ Never \in Age \cup {Never}
  BY SchedulerAssumption DEF Age
<1> SUFFICES ASSUME Init PROVE TypeOK
  OBVIOUS
<1>2. /\ todo \in [Workers -> SUBSET Schedules]
      /\ stamped \in [Workers -> SUBSET Schedules]
      /\ elapsed \in [Workers -> Age]
      /\ age \in [Schedules -> Age \cup {Never}]
      /\ since \in [Schedules -> Age \cup {Never}]
  BY <1>1 DEF Init
<1>3. /\ state \in [Schedules -> {"unborn", "live", "gone"}]
      /\ wait \in [Schedules -> 0..MaxWait]
      /\ pc \in [Workers -> Stage]
      /\ batch \in [Workers -> {"none", "empty", "filled", "emptied", "gone"}]
      /\ queue \in 0..MaxChecks
      /\ mishaps \in 0..MaxMishaps
  BY SchedulerAssumption DEF Init, Stage
<1>4. active \in [Schedules -> BOOLEAN] /\ overlapped \in [Workers -> BOOLEAN] /\ debris \in BOOLEAN
  BY Zenon DEF Init
<1> QED
  BY <1>2, <1>3, <1>4 DEF TypeOK

\* StageInv at one worker.
StageAt(w) ==
  /\ pc[w] = "idle" => todo[w] = {} /\ elapsed[w] = 0
  /\ pc[w] # "pick" => stamped[w] = {}
  /\ pc[w] \in {"idle", "pick"} => batch[w] = "none"
  /\ pc[w] \in {"send", "audit"} => batch[w] # "empty"
  /\ pc[w] \notin {"idle", "pick"} => todo[w] # {}
  /\ todo[w] \cap stamped[w] = {}
  /\ batch[w] = "emptied" => mishaps > 0
  /\ \A s \in Schedules : InHand(w, s) /\ ~Plan[s].template =>
       pc[w] \in {"pick", "send"} /\ batch[w] = "none"

\* No two checks run without knowing of it.
Met == \A v, u \in Workers : v # u /\ Running(v) /\ Running(u) => overlapped[v]

LEMMA StageParts == StageInv <=> (\A w \in Workers : StageAt(w)) /\ Met
BY Zenon DEF StageInv, StageAt, Met

\* A worker whose check and mishaps a step leaves alone keeps StageAt.
LEMMA StageKept ==
  ASSUME NEW w \in Workers, StageAt(w), mishaps \in Nat, mishaps' \in Nat, mishaps' >= mishaps,
         pc'[w] = pc[w], todo'[w] = todo[w], stamped'[w] = stamped[w],
         batch'[w] = batch[w], pc[w] = "idle" => elapsed'[w] = 0
  PROVE  StageAt(w)'
BY DEF StageAt, InHand

\* The check of w after a step, when those of the others are left alone.
LEMMA StageLocal ==
  ASSUME TypeOK, StageInv, NEW w \in Workers, StageAt(w)', mishaps' \in Nat, mishaps' >= mishaps,
         pc' \in [Workers -> Stage],
         \A v \in Workers \ {w} :
           /\ pc'[v] = pc[v] /\ todo'[v] = todo[v] /\ stamped'[v] = stamped[v]
           /\ batch'[v] = batch[v] /\ elapsed'[v] = elapsed[v] /\ overlapped'[v] = overlapped[v],
         Running(w)' => Running(w) /\ overlapped'[w] = overlapped[w]
  PROVE  StageInv'
<1>1. \A v \in Workers : StageAt(v)'
  <2> SUFFICES ASSUME NEW v \in Workers, v # w PROVE StageAt(v)'
    OBVIOUS
  <2>1. StageAt(v) /\ mishaps \in Nat
    BY StageParts, SchedulerAssumption DEF TypeOK
  <2>2. pc[v] = "idle" => elapsed'[v] = 0
    BY <2>1 DEF StageAt
  <2> QED
    BY <2>1, <2>2, StageKept
<1>2. Met'
  <2>1. Met
    BY StageParts
  <2> QED
    BY <2>1 DEF Met, Running
<1> QED
  BY <1>1, <1>2, StageParts, Zenon DEF StageInv, StageAt, Met

LEMMA StageStep == TypeOK /\ StageInv /\ [Next]_vars => StageInv'
<1> SUFFICES ASSUME TypeOK, StageInv, [Next]_vars PROVE StageInv'
  OBVIOUS
<1> USE DEF rows, checks, history
<1>0. /\ mishaps \in Nat /\ mishaps + 1 > 0 /\ mishaps + 1 >= mishaps /\ TypeOK'
      /\ \A w \in Workers : StageAt(w)
  BY SchedulerAssumption, TypeStep, StageParts DEF TypeOK
<1>a. pc' \in [Workers -> Stage]
  BY <1>0 DEF TypeOK
<1>1. CASE UNCHANGED vars
  BY <1>1 DEF vars, StageInv, Running, InHand
<1>2. CASE Tick
  <2>1. \A w \in Workers : StageAt(w)'
    BY <1>2, <1>0 DEF Tick, StageAt, InHand
  <2>2. Met'
    BY <1>2, StageParts DEF Tick, Met, Running
  <2> QED
    BY <2>1, <2>2, Zenon DEF StageInv, StageAt, Met
<1>3. ASSUME NEW s \in Schedules, Create(s) \/ Toggle(s) \/ Delete(s) PROVE StageInv'
  BY <1>3 DEF Create, Toggle, Delete, StageInv, Running, InHand
<1>4. ASSUME NEW w \in Workers, Take(w) PROVE StageInv'
  <2>1. \A v \in Workers : v # w => Running(v)' = Running(v)
    BY <1>4 DEF Take, TypeOK, Running
  <2>2. Met'
    <3> SUFFICES ASSUME NEW v \in Workers, NEW u \in Workers, v # u, Running(v)', Running(u)'
                 PROVE  overlapped'[v]
      BY DEF Met
    <3>1. overlapped'[v] = (IF v = w THEN \E x \in Workers \ {w} : Running(x)
                                     ELSE overlapped[v] \/ Running(v))
      BY <1>4, Zenon DEF Take
    <3> QED
      BY <3>1, <2>1, Zenon
  <2>3. StageAt(w)'
    <3>1. pc'[w] = "pick" /\ batch'[w] = batch[w] /\ pc[w] = "idle" /\ stamped' = stamped
      BY <1>4 DEF Take, TypeOK, Running
    <3>2. batch[w] = "none" /\ stamped[w] = {}
      BY <3>1, <1>0 DEF StageAt
    <3> QED
      BY <3>1, <3>2 DEF StageAt
  <2>4. ASSUME NEW v \in Workers, v # w PROVE StageAt(v)'
    <3>1. /\ pc'[v] = pc[v] /\ todo'[v] = todo[v] /\ batch'[v] = batch[v]
          /\ elapsed' = elapsed /\ stamped' = stamped /\ mishaps' = mishaps
      BY <1>4, <2>4 DEF Take, TypeOK
    <3>2. StageAt(v)
      BY <1>0
    <3> QED
      BY <3>1, <3>2, <1>0, StageKept DEF StageAt
  <2>5. \A v \in Workers : StageAt(v)'
    BY <2>3, <2>4
  <2> QED
    BY <2>2, <2>5, Zenon DEF StageInv, StageAt, Met
<1>5. ASSUME NEW w \in Workers, Finish(w) PROVE StageInv'
  <2>1. StageAt(w)'
    BY <1>5, <1>0 DEF Finish, Commit, StageAt, TypeOK, InHand
  <2>2. \A v \in Workers \ {w} :
          /\ pc'[v] = pc[v] /\ todo'[v] = todo[v] /\ stamped'[v] = stamped[v]
          /\ batch'[v] = batch[v] /\ elapsed'[v] = elapsed[v] /\ overlapped'[v] = overlapped[v]
    BY <1>5 DEF Finish, Commit, TypeOK
  <2>3. pc'[w] = "idle" /\ mishaps' = mishaps
    BY <1>5 DEF Finish, TypeOK
  <2> QED
    BY <2>1, <2>2, <2>3, <1>0, <1>a, StageLocal DEF Running
<1>6. ASSUME NEW w \in Workers, Abort(w), mishaps' \in Nat, mishaps' >= mishaps PROVE StageInv'
  <2>1. StageAt(w)'
    BY <1>6, <1>0 DEF Abort, StageAt, TypeOK, InHand
  <2> QED
    BY <2>1, <1>0, <1>a, <1>6, StageLocal DEF Abort, TypeOK, Running
<1>7. ASSUME NEW w \in Workers, Stale(w) \/ AuditRaises(w) \/ RowsGone(w) \/ Lose(w) PROVE StageInv'
  BY <1>0, <1>6, <1>7 DEF Stale, AuditRaises, RowsGone, Lose
<1>8. ASSUME NEW w \in Workers, NEW s \in Schedules, CreateSingle(w, s) PROVE StageInv'
  <2>1. StageAt(w)'
    <3>1. /\ pc'[w] = "send" /\ stamped'[w] = {} /\ todo'[w] = todo[w] /\ batch'[w] = "none"
          /\ mishaps' = mishaps /\ todo[w] # {}
      BY <1>8, <1>0 DEF CreateSingle, Commit, Dispatch, InHand, StageAt, TypeOK
    <3> QED
      BY <3>1, <1>0 DEF StageAt
  <2> QED
    BY <2>1, <1>0, <1>a, <1>8, StageLocal DEF CreateSingle, Commit, Dispatch, TypeOK, Running
<1>9. ASSUME NEW w \in Workers, NEW s \in Schedules, NoTargets(w, s) PROVE StageInv'
  <2>1. StageAt(w)'
    <3>1. /\ pc'[w] = "pick" /\ batch'[w] = batch[w] /\ mishaps' = mishaps /\ pc[w] = "pick"
          /\ todo'[w] = todo[w] \ {s} /\ stamped'[w] = stamped[w] \cup {s}
      BY <1>9 DEF NoTargets, Stamp, TypeOK
    <3> QED
      BY <3>1, <1>0 DEF StageAt
  <2> QED
    BY <2>1, <1>0, <1>a, <1>9, StageLocal DEF NoTargets, Stamp, TypeOK, Running
<1>10. ASSUME NEW w \in Workers, NEW s \in Schedules, CreateBatch(w, s) PROVE StageInv'
  <2>1. StageAt(w)'
    <3>1. /\ pc'[w] = "batch" /\ stamped'[w] = {} /\ todo'[w] = todo[w] /\ batch'[w] = "empty"
          /\ mishaps' = mishaps /\ todo[w] # {}
      BY <1>10 DEF CreateBatch, Commit, InHand, TypeOK
    <3>2. \A t \in Schedules : InHand(w, t)' => Plan[t].template
      <4> SUFFICES ASSUME NEW t \in Schedules, InHand(w, t)' PROVE Plan[t].template
        OBVIOUS
      <4>1. InHand(w, t) /\ InHand(w, s) /\ Plan[s].template
        BY <3>1, <1>10 DEF InHand, CreateBatch
      <4> QED
        BY <4>1, InHandUnique
    <3> QED
      BY <3>1, <3>2, <1>0 DEF StageAt
  <2> QED
    BY <2>1, <1>0, <1>a, <1>10, StageLocal DEF CreateBatch, Commit, TypeOK, Running
<1>11. ASSUME NEW w \in Workers, NEW s \in Schedules, CreateMember(w, s) PROVE StageInv'
  <2>1. StageAt(w)'
    <3>1. /\ pc'[w] = "send" /\ stamped'[w] = stamped[w] /\ todo'[w] = todo[w] /\ batch'[w] = "filled"
          /\ mishaps' = mishaps /\ pc[w] = "batch"
      BY <1>11 DEF CreateMember, Dispatch, TypeOK
    <3> QED
      BY <3>1, <1>0 DEF StageAt, InHand
  <2> QED
    BY <2>1, <1>0, <1>a, <1>11, StageLocal DEF CreateMember, Dispatch, TypeOK, Running
<1>12. ASSUME NEW w \in Workers, NEW s \in Schedules, Send(w, s) PROVE StageInv'
  <2>1. CASE Plan[s].template /\ batch[w] = "filled"
    <3>1. StageAt(w)'
      <4>1. /\ pc'[w] \in {"audit", "sweep"} /\ stamped'[w] = stamped[w] /\ todo'[w] = todo[w]
            /\ batch'[w] = "filled" /\ mishaps' = mishaps /\ pc[w] = "send"
        BY <1>12, <2>1 DEF Send, TypeOK
      <4> QED
        BY <4>1, <2>1, <1>0 DEF StageAt, InHand
    <3> QED
      BY <3>1, <2>1, <1>0, <1>a, <1>12, StageLocal DEF Send, TypeOK, Running
  <2>2. CASE ~Plan[s].template /\ Stamp(w, s)
    <3>1. StageAt(w)'
      <4>1. batch[w] = "none"
        BY <1>12, <2>2, <1>0 DEF Send, StageAt
      <4> QED
        BY <4>1, <1>12, <2>2, <1>0 DEF Send, Stamp, StageAt, TypeOK
    <3> QED
      BY <3>1, <2>2, <1>0, <1>a, <1>12, StageLocal DEF Send, Stamp, TypeOK, Running
  <2> QED
    BY <1>12, <2>1, <2>2 DEF Send
<1>13. ASSUME NEW w \in Workers, AllDenied(w) \/ Audit(w) PROVE StageInv'
  <2>1. StageAt(w)'
    <3>1. /\ pc'[w] = "sweep" /\ pc[w] \in {"batch", "audit"} /\ stamped'[w] = stamped[w]
          /\ todo'[w] = todo[w] /\ batch'[w] = batch[w] /\ mishaps' = mishaps
      BY <1>13 DEF AllDenied, Audit, TypeOK
    <3> QED
      BY <3>1, <1>0 DEF StageAt, InHand
  <2> QED
    BY <2>1, <1>0, <1>a, <1>13, StageLocal DEF AllDenied, Audit, TypeOK, Running
<1>14. ASSUME NEW w \in Workers, NEW s \in Schedules, Sweep(w, s) PROVE StageInv'
  <2>1. StageAt(w)'
    BY <1>14, <1>0 DEF Sweep, Stamp, StageAt, TypeOK
  <2> QED
    BY <2>1, <1>0, <1>a, <1>14, StageLocal DEF Sweep, Stamp, TypeOK, Running
<1>15. ASSUME NEW w \in Workers, DeleteInUse(w) PROVE StageInv'
  <2>1. StageAt(w)'
    <3>1. /\ pc' = pc /\ stamped' = stamped /\ todo' = todo /\ batch'[w] \in {"emptied", "gone"}
          /\ mishaps' = mishaps + 1 /\ batch[w] # "none" /\ elapsed' = elapsed
      BY <1>15 DEF DeleteInUse, TypeOK
    <3> QED
      BY <3>1, <1>0 DEF StageAt, InHand
  <2> QED
    BY <2>1, <1>0, <1>a, <1>15, StageLocal DEF DeleteInUse, TypeOK, Running
<1> QED
  BY <1>1, <1>2, <1>3, <1>4, <1>5, <1>7, <1>8, <1>9, <1>10, <1>11, <1>12, <1>13, <1>14, <1>15
  DEF Next, Step

\* When a check that met no other dispatches, every other worker is idle.
LEMMA AloneMeansIdle ==
  ASSUME TypeOK, StageInv, NEW w \in Workers, NEW v \in Workers, v # w, Running(w), ~overlapped[w]
  PROVE  pc[v] = "idle" /\ elapsed[v] = 0
<1>1. Met /\ StageAt(v)
  BY StageParts
<1> QED
  BY <1>1 DEF Met, Running, StageAt

LEMMA NotAheadStep == SchedInv /\ [Next]_vars => NotAhead'
<1> SUFFICES ASSUME SchedInv, [Next]_vars PROVE NotAhead'
  OBVIOUS
<1> USE DEF rows, checks, history
<1>0. TypeOK /\ StageInv /\ NotAhead
  BY DEF SchedInv
<1>1. CASE UNCHANGED vars
  BY <1>0, <1>1 DEF vars, NotAhead
<1>2. CASE Tick
  <2> SUFFICES ASSUME NEW s \in Schedules, NEW w \in Workers, since'[s] # Never
               PROVE  elapsed'[w] <= since'[s]
    BY DEF NotAhead
  <2>1. since[s] \in Ages /\ elapsed[w] \in Age /\ 0 \in Age
    BY <1>0, SchedulerAssumption DEF TypeOK, Ages, Age
  <2>2. since'[s] = Older(since[s]) /\ (elapsed'[w] = 0 \/ elapsed'[w] = Older(elapsed[w]))
    BY <1>2 DEF Tick
  <2>3. since[s] # Never /\ since[s] \in Age
    BY <2>1, <2>2, OlderType DEF Ages
  <2>4. elapsed[w] <= since[s] /\ 0 <= since[s]
    BY <1>0, <2>3 DEF NotAhead, Age
  <2> QED
    BY <2>1, <2>2, <2>3, <2>4, OlderGrows DEF Age
<1>3. ASSUME NEW s \in Schedules, Create(s) \/ Toggle(s) \/ Delete(s) PROVE NotAhead'
  BY <1>3, <1>0 DEF Create, Toggle, Delete, NotAhead, TypeOK
<1>4. ASSUME NEW w \in Workers, elapsed' = elapsed, since' = since PROVE NotAhead'
  BY <1>4, <1>0 DEF NotAhead
<1>5. ASSUME NEW w \in Workers, elapsed' = [elapsed EXCEPT ![w] = 0],
             \A s \in Schedules : since'[s] \in {since[s], Never} PROVE NotAhead'
  <2>1. \A s \in Schedules : since[s] # Never => 0 <= since[s]
    BY <1>0 DEF TypeOK, Age
  <2> QED
    BY <1>5, <2>1, <1>0 DEF NotAhead, TypeOK
<1>6. ASSUME NEW w \in Workers, Finish(w) \/ Abort(w) PROVE NotAhead'
  <2>1. elapsed' = [elapsed EXCEPT ![w] = 0] /\ \A s \in Schedules : since'[s] \in {since[s], Never}
    BY <1>6 DEF Finish, Abort
  <2> QED
    BY <2>1, <1>5
<1>7. ASSUME NEW w \in Workers, NEW s \in Schedules, CreateSingle(w, s) \/ CreateMember(w, s)
      PROVE  NotAhead'
  <2>1. elapsed' = elapsed /\ Dispatch(w, s) /\ Running(w)
    BY <1>7 DEF CreateSingle, CreateMember, Running
  <2>2. CASE overlapped[w]
    BY <2>1, <2>2, <1>0 DEF Dispatch, NotAhead, TypeOK
  <2>3. CASE ~overlapped[w]
    <3>1. \A v \in Workers : elapsed[v] <= elapsed[w]
      BY <2>1, <2>3, <1>0, AloneMeansIdle DEF TypeOK, Age
    <3>2. \A t \in Schedules : since'[t] = IF t = s THEN elapsed[w] ELSE since[t]
      BY <2>1, <2>3, <1>0 DEF Dispatch, TypeOK
    <3> QED
      BY <3>1, <3>2, <2>1, <1>0 DEF NotAhead
  <2> QED
    BY <2>2, <2>3
<1>8. ASSUME NEW w \in Workers, Take(w) \/ AllDenied(w) \/ Audit(w) \/ DeleteInUse(w) PROVE NotAhead'
  BY <1>4, <1>8 DEF Take, AllDenied, Audit, DeleteInUse
<1>9. ASSUME NEW w \in Workers, NEW s \in Schedules,
             NoTargets(w, s) \/ CreateBatch(w, s) \/ Send(w, s) \/ Sweep(w, s) PROVE NotAhead'
  BY <1>4, <1>9 DEF NoTargets, CreateBatch, Send, Sweep
<1> QED
  BY <1>1, <1>2, <1>3, <1>6, <1>7, <1>8, <1>9
  DEF Next, Step, Stale, AuditRaises, RowsGone, Lose

\* The check of w is as it was.
Same(w) == pc'[w] = pc[w] /\ todo'[w] = todo[w] /\ stamped'[w] = stamped[w] /\ batch'[w] = batch[w]

LEMMA HoldsKept ==
  ASSUME NEW w, NEW s, Same(w)
  PROVE  Holds(w, s)' <=> Holds(w, s)
BY DEF Same, Holds, Dispatched, InHand

\* A step of w that commits nothing and dispatches nothing.
LEMMA RememberedLocal ==
  ASSUME Remembered, NEW w \in Workers, age' = age,
         \A v \in Workers \ {w} : Same(v),
         \A s \in Schedules : since'[s] \in {since[s], Never},
         \A s \in Schedules : since'[s] # Never /\ Holds(w, s) => Holds(w, s)'
  PROVE  Remembered'
<1> SUFFICES ASSUME NEW s \in Schedules, since'[s] # Never
             PROVE  \/ age'[s] # Never /\ age'[s] <= since'[s]
                    \/ \E v \in Workers : Holds(v, s)'
  BY DEF Remembered
<1>1. since'[s] = since[s]
  OBVIOUS
<1>2. CASE age[s] # Never /\ age[s] <= since[s]
  BY <1>1, <1>2
<1>3. ASSUME NEW v \in Workers, Holds(v, s) PROVE Holds(v, s)'
  <2>1. CASE v = w
    BY <2>1, <1>3
  <2>2. CASE v # w
    BY <2>2, <1>3, HoldsKept
  <2> QED
    BY <2>1, <2>2
<1> QED
  BY <1>1, <1>2, <1>3 DEF Remembered

\* What w has stamped is in the database after its commit.
LEMMA CommitRemembers ==
  ASSUME SchedInv, NEW w \in Workers, pc[w] = "pick", Commit(w), \A v \in Workers \ {w} : Same(v),
         NEW s \in Schedules, since[s] # Never
  PROVE  \/ age'[s] # Never /\ age'[s] <= since[s]
         \/ \E v \in Workers : v # w /\ Holds(v, s)'
<1>1. TypeOK /\ elapsed[w] <= since[s]
  BY DEF SchedInv, NotAhead
<1>2. CASE s \in stamped[w]
  BY <1>1, <1>2 DEF Commit, TypeOK, Age, Never
<1>3. CASE s \notin stamped[w]
  <2>1. age'[s] = age[s] /\ ~Holds(w, s)
    BY <1>3 DEF Commit, Holds, Dispatched
  <2>2. CASE age[s] # Never /\ age[s] <= since[s]
    BY <2>1, <2>2
  <2>3. ASSUME NEW v \in Workers, Holds(v, s) PROVE v # w /\ Holds(v, s)'
    BY <2>1, <2>3, HoldsKept
  <2> QED
    BY <2>1, <2>2, <2>3 DEF SchedInv, Remembered
<1> QED
  BY <1>2, <1>3

LEMMA RememberedStep == SchedInv /\ [Next]_vars => Remembered'
<1> SUFFICES ASSUME SchedInv, [Next]_vars PROVE Remembered'
  OBVIOUS
<1> USE DEF rows, checks, history
<1>0. TypeOK /\ StageInv /\ Remembered /\ \A w \in Workers : StageAt(w)
  BY StageParts DEF SchedInv
<1>1. CASE UNCHANGED vars
  BY <1>0, <1>1 DEF vars, Remembered, Holds, Dispatched, InHand
<1>2. CASE Tick
  <2> SUFFICES ASSUME NEW s \in Schedules, since'[s] # Never
               PROVE  \/ age'[s] # Never /\ age'[s] <= since'[s]
                      \/ \E v \in Workers : Holds(v, s)'
    BY DEF Remembered
  <2>1. since[s] \in Ages /\ age[s] \in Ages /\ since'[s] = Older(since[s]) /\ age'[s] = Older(age[s])
    BY <1>0, <1>2 DEF TypeOK, Ages, Tick
  <2>2. since[s] # Never
    BY <2>1, OlderType
  <2>3. CASE age[s] # Never /\ age[s] <= since[s]
    BY <2>1, <2>2, <2>3, OlderType, OlderGrows DEF Ages
  <2>4. \A v \in Workers : Holds(v, s) => Holds(v, s)'
    BY <1>2, HoldsKept DEF Tick, Same
  <2> QED
    BY <2>2, <2>3, <2>4, <1>0 DEF Remembered
<1>3. ASSUME NEW s \in Schedules, Create(s) \/ Toggle(s) \/ Delete(s) PROVE Remembered'
  <2>1. \A v \in Workers, t \in Schedules : Holds(v, t) => Holds(v, t)'
    BY <1>3, HoldsKept DEF Create, Toggle, Delete, Same
  <2>2. \A t \in Schedules : since'[t] # Never => age'[t] = age[t] /\ since'[t] = since[t]
    BY <1>3, <1>0 DEF Create, Toggle, Delete, TypeOK
  <2> QED
    BY <2>1, <2>2, <1>0 DEF Remembered
<1>4. ASSUME NEW w \in Workers, Take(w) PROVE Remembered'
  <2>1. \A v \in Workers \ {w} : Same(v)
    BY <1>4, <1>0 DEF Take, Same, TypeOK
  <2>2. \A s \in Schedules : ~Holds(w, s)
    BY <1>4, <1>0 DEF Take, Running, Holds, Dispatched, StageAt
  <2> QED
    BY <1>4, <2>1, <2>2, <1>0, RememberedLocal DEF Take
<1>5. ASSUME NEW w \in Workers, Finish(w) PROVE Remembered'
  <2>1. Commit(w) /\ pc[w] = "pick" /\ since' = since /\ \A v \in Workers \ {w} : Same(v)
    BY <1>5, <1>0 DEF Finish, Commit, Same, TypeOK
  <2> QED
    BY <2>1, CommitRemembers DEF Remembered
<1>6. ASSUME NEW w \in Workers, Abort(w) PROVE Remembered'
  <2>1. \A v \in Workers \ {w} : Same(v)
    BY <1>6, <1>0 DEF Abort, Same, TypeOK
  <2> QED
    BY <1>6, <2>1, <1>0, RememberedLocal DEF Abort
<1>7. ASSUME NEW w \in Workers, NEW s \in Schedules, CreateSingle(w, s) PROVE Remembered'
  <2>1. Commit(w) /\ Dispatch(w, s) /\ pc[w] = "pick" /\ \A v \in Workers \ {w} : Same(v)
    BY <1>7, <1>0 DEF CreateSingle, Commit, Dispatch, Same, TypeOK
  <2>2. Holds(w, s)'
    BY <1>7, <1>0 DEF CreateSingle, Dispatch, Holds, Dispatched, InHand, TypeOK
  <2>3. \A t \in Schedules : t # s => since'[t] = since[t]
    BY <2>1, <1>0 DEF Dispatch, TypeOK
  <2> QED
    BY <2>1, <2>2, <2>3, CommitRemembers DEF Remembered
<1>8. ASSUME NEW w \in Workers, NEW s \in Schedules, CreateMember(w, s) PROVE Remembered'
  <2>1. age' = age /\ Dispatch(w, s) /\ \A v \in Workers \ {w} : Same(v)
    BY <1>8, <1>0 DEF CreateMember, Dispatch, Same, TypeOK
  <2>2. Holds(w, s)'
    BY <1>8, <1>0 DEF CreateMember, Dispatch, Holds, Dispatched, InHand, TypeOK
  <2>3. \A t \in Schedules : t # s => since'[t] = since[t]
    BY <2>1, <1>0 DEF Dispatch, TypeOK
  <2>4. \A t \in Schedules : ~Holds(w, t)
    BY <1>8, <1>0 DEF CreateMember, Holds, Dispatched, StageAt
  <2> QED
    BY <2>1, <2>2, <2>3, <2>4, <1>0, HoldsKept DEF Remembered
<1>9. ASSUME NEW w \in Workers, NEW s \in Schedules, CreateBatch(w, s) PROVE Remembered'
  <2>1. Commit(w) /\ pc[w] = "pick" /\ since' = since /\ \A v \in Workers \ {w} : Same(v)
    BY <1>9, <1>0 DEF CreateBatch, Commit, Same, TypeOK
  <2> QED
    BY <2>1, CommitRemembers DEF Remembered
<1>10. ASSUME NEW w \in Workers, NEW s \in Schedules, InHand(w, s), Stamp(w, s), age' = age,
              since' = since, \A v \in Workers \ {w} : batch'[v] = batch[v] PROVE Remembered'
  <2>1. \A v \in Workers \ {w} : Same(v)
    BY <1>10, <1>0 DEF Stamp, Same, TypeOK
  <2>2. \A t \in Schedules : Holds(w, t) => Holds(w, t)'
    <3> SUFFICES ASSUME NEW t \in Schedules, Holds(w, t) PROVE t \in stamped'[w]
      BY DEF Holds
    <3>1. t \in stamped[w] \/ t = s
      BY <1>10, <1>0, InHandUnique DEF Holds
    <3> QED
      BY <3>1, <1>10, <1>0 DEF Stamp, TypeOK
  <2> QED
    BY <1>10, <2>1, <2>2, <1>0, RememberedLocal
<1>11. ASSUME NEW w \in Workers, NEW s \in Schedules, NoTargets(w, s) \/ Sweep(w, s) PROVE Remembered'
  BY <1>11, <1>10, <1>0 DEF NoTargets, Sweep, TypeOK
<1>12. ASSUME NEW w \in Workers, NEW s \in Schedules, Send(w, s) PROVE Remembered'
  <2>1. CASE Plan[s].template
    <3>1. /\ \A v \in Workers \ {w} : Same(v)
          /\ batch'[w] = "filled" /\ pc'[w] \in {"audit", "sweep"} /\ todo' = todo /\ stamped' = stamped
      BY <1>12, <2>1, <1>0 DEF Send, Same, TypeOK
    <3>2. \A t \in Schedules : Holds(w, t) => Holds(w, t)'
      BY <3>1 DEF Holds, Dispatched, InHand
    <3> QED
      BY <1>12, <3>1, <3>2, <1>0, RememberedLocal DEF Send
  <2>2. CASE ~Plan[s].template
    BY <1>12, <2>2, <1>10 DEF Send
  <2> QED
    BY <2>1, <2>2
<1>13. ASSUME NEW w \in Workers, AllDenied(w) \/ Audit(w) PROVE Remembered'
  <2>1. \A v \in Workers \ {w} : Same(v)
    BY <1>13, <1>0 DEF AllDenied, Audit, Same, TypeOK
  <2>2. \A t \in Schedules : Holds(w, t) => Holds(w, t)'
    BY <1>13, <1>0 DEF AllDenied, Audit, Holds, Dispatched, InHand, StageAt, TypeOK
  <2> QED
    BY <1>13, <2>1, <2>2, <1>0, RememberedLocal DEF AllDenied, Audit
<1>14. ASSUME NEW w \in Workers, DeleteInUse(w) PROVE Remembered'
  <2>1. \A v \in Workers \ {w} : Same(v)
    BY <1>14, <1>0 DEF DeleteInUse, Same, TypeOK
  <2>2. \A t \in Schedules : Holds(w, t) => Holds(w, t)'
    BY <1>14, <1>0 DEF DeleteInUse, Holds, Dispatched, InHand, TypeOK
  <2> QED
    BY <1>14, <2>1, <2>2, <1>0, RememberedLocal DEF DeleteInUse
<1> QED
  BY <1>1, <1>2, <1>3, <1>4, <1>5, <1>6, <1>7, <1>8, <1>9, <1>11, <1>12, <1>13, <1>14
  DEF Next, Step, Stale, AuditRaises, RowsGone, Lose

\* A step of w that dispatches nothing.
LEMMA StillDueLocal ==
  ASSUME SchedInv, NEW w \in Workers, \A v \in Workers \ {w} : Same(v),
         \A s \in Schedules : since'[s] \in {since[s], Never},
         \A v \in Workers : todo'[v] # {} /\ ~overlapped'[v] => ~overlapped[v],
         \A s \in todo'[w] : s \in todo[w] /\ (Holds(w, s) => Holds(w, s)')
  PROVE  StillDue'
<1> SUFFICES ASSUME NEW v \in Workers, NEW s \in todo'[v], ~overlapped'[v], ~Holds(v, s)'
             PROVE  ~TooSoon(s)'
  BY DEF StillDue
<1>1. s \in todo[v] /\ ~overlapped[v] /\ ~Holds(v, s)
  <2>1. CASE v = w
    BY <2>1
  <2>2. CASE v # w
    BY <2>2, HoldsKept DEF Same
  <2> QED
    BY <2>1, <2>2
<1>2. ~TooSoon(s) /\ s \in Schedules
  BY <1>1 DEF SchedInv, StillDue, TypeOK
<1>3. since'[s] \in {since[s], Never}
  BY <1>2
<1> QED
  BY <1>2, <1>3 DEF TooSoon

\* A dispatch makes only the schedule in hand too soon, and its check holds that one.
LEMMA StillDueDispatch ==
  ASSUME SchedInv, NEW w \in Workers, NEW s \in Schedules, InHand(w, s), pc[w] \in {"pick", "batch"},
         Dispatch(w, s), todo' = todo, overlapped' = overlapped, batch'[w] # "empty",
         \A t \in todo[w] : t \in stamped'[w] => t \in stamped[w]
  PROVE  StillDue'
<1>1. TypeOK /\ StageInv /\ StageAt(w)
  BY StageParts DEF SchedInv
<1> SUFFICES ASSUME NEW v \in Workers, NEW t \in todo'[v], ~overlapped'[v], ~Holds(v, t)'
             PROVE  ~TooSoon(t)'
  BY DEF StillDue
<1>2. CASE v # w
  <2>1. Running(v) /\ Running(w)
    BY StageParts, <1>1 DEF StageAt, Running
  <2>2. pc[w] = "idle"
    BY <1>1, <1>2, <2>1, AloneMeansIdle
  <2> QED
    BY <2>2
<1>3. CASE v = w
  <2>1. Dispatched(w)'
    BY <1>1 DEF Dispatch, Dispatched, TypeOK
  <2>2. InHand(w, s)'
    BY DEF InHand
  <2>3. t # s /\ t \in todo[w] /\ t \in Schedules
    BY <1>1, <1>3, <2>1, <2>2 DEF Holds, TypeOK
  <2>4. ~Holds(w, t)
    BY <1>1, <2>3 DEF Holds, Dispatched, StageAt
  <2>5. ~TooSoon(t)
    BY <1>3, <2>3, <2>4 DEF SchedInv, StillDue
  <2>6. since'[t] = since[t]
    BY <1>1, <2>3 DEF Dispatch, TypeOK
  <2> QED
    BY <2>5, <2>6 DEF TooSoon
<1> QED
  BY <1>2, <1>3

LEMMA StillDueStep == SchedInv /\ [Next]_vars => StillDue'
<1> SUFFICES ASSUME SchedInv, [Next]_vars PROVE StillDue'
  OBVIOUS
<1> USE DEF rows, checks, history
<1>0. TypeOK /\ StageInv /\ StillDue /\ \A w \in Workers : StageAt(w)
  BY StageParts DEF SchedInv
<1>1. CASE UNCHANGED vars
  BY <1>0, <1>1 DEF vars, StillDue, TooSoon, Holds, Dispatched, InHand
<1>2. CASE Tick
  <2> SUFFICES ASSUME NEW w \in Workers, NEW s \in todo'[w], ~overlapped'[w], ~Holds(w, s)', TooSoon(s)'
               PROVE  FALSE
    BY DEF StillDue
  <2>1. s \in todo[w] /\ ~overlapped[w] /\ ~Holds(w, s) /\ s \in Schedules
    BY <1>0, <1>2, HoldsKept DEF Tick, Same, TypeOK
  <2>2. since[s] \in Ages /\ since'[s] = Older(since[s]) /\ since'[s] # Never
    BY <1>0, <1>2, <2>1 DEF TypeOK, Ages, Tick, TooSoon
  <2>3. since[s] \in Age /\ since[s] # Never
    BY <2>2, OlderType DEF Ages
  <2>4. since[s] <= since'[s]
    BY <2>2, <2>3, OlderGrows DEF Age
  <2>5. Plan[s].period \in Int
    BY <2>1, SchedulerAssumption DEF Once
  <2>6. TooSoon(s)
    BY <2>2, <2>3, <2>4, <2>5, SchedulerAssumption, OlderGrows DEF TooSoon, Age
  <2> QED
    BY <2>1, <2>6, <1>0 DEF StillDue
<1>3. ASSUME NEW s \in Schedules, Create(s) \/ Toggle(s) \/ Delete(s) PROVE StillDue'
  <2> SUFFICES ASSUME NEW v \in Workers, NEW t \in todo'[v], ~overlapped'[v], ~Holds(v, t)'
               PROVE  ~TooSoon(t)'
    BY DEF StillDue
  <2>1. t \in todo[v] /\ ~overlapped[v] /\ ~Holds(v, t) /\ t \in Schedules
    BY <1>3, <1>0, HoldsKept DEF Create, Toggle, Delete, Same, TypeOK
  <2>2. ~TooSoon(t) /\ since'[t] \in {since[t], Never}
    BY <1>3, <1>0, <2>1 DEF Create, Toggle, Delete, StillDue, TypeOK
  <2> QED
    BY <2>2 DEF TooSoon
<1>4. ASSUME NEW w \in Workers, Take(w) PROVE StillDue'
  <2> SUFFICES ASSUME NEW v \in Workers, NEW s \in todo'[v], ~overlapped'[v], ~Holds(v, s)', TooSoon(s)'
               PROVE  FALSE
    BY DEF StillDue
  <2>1. TooSoon(s)
    BY <1>4 DEF Take, TooSoon
  <2>2. overlapped'[v] = (IF v = w THEN \E u \in Workers \ {w} : Running(u)
                                   ELSE overlapped[v] \/ Running(v))
    BY <1>4, Zenon DEF Take
  <2>3. CASE v = w
    <3>1. s \in Schedules /\ IsDue(s)
      BY <1>4, <1>0, <2>3 DEF Take, TypeOK
    <3>2. \A u \in Workers : pc[u] = "idle"
      BY <2>2, <2>3, <1>4 DEF Take, Running
    <3>3. \A u \in Workers : ~Holds(u, s)
      BY <3>2, <1>0 DEF Holds, Dispatched, StageAt
    <3>4. age[s] # Never /\ age[s] <= since[s]
      BY <2>1, <3>1, <3>3 DEF SchedInv, Remembered, TooSoon
    <3>5. age[s] \in Int /\ since[s] \in Int /\ Plan[s].period \in Int
      BY <3>1, <1>0, SchedulerAssumption DEF TypeOK, Age, Once, Never
    <3> QED
      BY <2>1, <3>1, <3>4, <3>5 DEF IsDue, TooSoon
  <2>4. CASE v # w
    <3>1. ~overlapped[v] /\ Same(v)
      BY <2>2, <2>4, <1>4, <1>0 DEF Take, Same, TypeOK
    <3> QED
      BY <2>1, <3>1, <1>0, HoldsKept DEF Same, StillDue
  <2> QED
    BY <2>3, <2>4
<1>5. ASSUME NEW w \in Workers, Finish(w) PROVE StillDue'
  <2>1. /\ todo'[w] = {} /\ since' = since /\ \A v \in Workers \ {w} : Same(v)
        /\ \A v \in Workers : v # w => overlapped'[v] = overlapped[v]
    BY <1>5, <1>0 DEF Finish, Commit, Same, TypeOK
  <2> QED
    BY <2>1, StillDueLocal
<1>6. ASSUME NEW w \in Workers, Abort(w) PROVE StillDue'
  <2>1. /\ todo'[w] = {} /\ \A v \in Workers \ {w} : Same(v)
        /\ \A s \in Schedules : since'[s] \in {since[s], Never}
        /\ \A v \in Workers : v # w => overlapped'[v] = overlapped[v]
    BY <1>6, <1>0 DEF Abort, Same, TypeOK
  <2> QED
    BY <2>1, StillDueLocal
<1>7. ASSUME NEW w \in Workers, NEW s \in Schedules, CreateSingle(w, s) \/ CreateMember(w, s)
      PROVE  StillDue'
  <2>1. /\ Dispatch(w, s) /\ InHand(w, s) /\ pc[w] \in {"pick", "batch"} /\ todo' = todo
        /\ overlapped' = overlapped
    BY <1>7 DEF CreateSingle, CreateMember
  <2>2. batch'[w] # "empty"
    BY <1>7, <1>0 DEF CreateSingle, CreateMember, StageAt, TypeOK
  <2>3. stamped'[w] \in {stamped[w], {}}
    BY <1>7, <1>0 DEF CreateSingle, CreateMember, Commit, TypeOK
  <2> QED
    BY <2>1, <2>2, <2>3, StillDueDispatch
<1>8. ASSUME NEW w \in Workers, NEW s \in Schedules, CreateBatch(w, s) PROVE StillDue'
  <2>1. /\ since' = since /\ overlapped' = overlapped /\ todo' = todo
        /\ \A v \in Workers \ {w} : Same(v)
    BY <1>8, <1>0 DEF CreateBatch, Commit, Same, TypeOK
  <2>2. \A t \in todo[w] : ~Holds(w, t)
    BY <1>8, <1>0 DEF CreateBatch, Holds, Dispatched, StageAt
  <2> QED
    BY <2>1, <2>2, StillDueLocal
<1>9. ASSUME NEW w \in Workers, NEW s \in Schedules, InHand(w, s), Stamp(w, s), overlapped' = overlapped,
             since' = since, \A v \in Workers \ {w} : batch'[v] = batch[v] PROVE StillDue'
  <2>1. \A v \in Workers \ {w} : Same(v)
    BY <1>9, <1>0 DEF Stamp, Same, TypeOK
  <2>2. \A t \in todo'[w] : t \in todo[w] /\ t # s
    BY <1>9, <1>0 DEF Stamp, TypeOK
  <2>3. \A t \in todo'[w] : Holds(w, t) => Holds(w, t)'
    <3> SUFFICES ASSUME NEW t \in todo'[w], Holds(w, t) PROVE Holds(w, t)'
      OBVIOUS
    <3>1. t \in stamped[w]
      BY <1>9, <2>2, <1>0, InHandUnique DEF Holds
    <3> QED
      BY <3>1, <1>9, <1>0 DEF Stamp, Holds, TypeOK
  <2> QED
    BY <1>9, <2>1, <2>2, <2>3, StillDueLocal
<1>10. ASSUME NEW w \in Workers, NEW s \in Schedules, NoTargets(w, s) \/ Sweep(w, s) PROVE StillDue'
  BY <1>10, <1>9, <1>0 DEF NoTargets, Sweep, TypeOK
<1>11. ASSUME NEW w \in Workers, todo' = todo, overlapped' = overlapped, since' = since,
              \A v \in Workers \ {w} : Same(v), \A t \in todo[w] : Holds(w, t) => Holds(w, t)'
       PROVE  StillDue'
  BY <1>11, StillDueLocal
<1>12. ASSUME NEW w \in Workers, NEW s \in Schedules, Send(w, s) PROVE StillDue'
  <2>1. CASE Plan[s].template
    <3>1. /\ \A v \in Workers \ {w} : Same(v)
          /\ batch'[w] = "filled" /\ pc'[w] \in {"audit", "sweep"} /\ todo' = todo /\ stamped' = stamped
      BY <1>12, <2>1, <1>0 DEF Send, Same, TypeOK
    <3>2. \A t \in todo[w] : Holds(w, t) => Holds(w, t)'
      BY <3>1 DEF Holds, Dispatched, InHand
    <3> QED
      BY <1>12, <3>1, <3>2, <1>11 DEF Send
  <2>2. CASE ~Plan[s].template
    BY <1>12, <2>2, <1>9 DEF Send
  <2> QED
    BY <2>1, <2>2
<1>13. ASSUME NEW w \in Workers, AllDenied(w) \/ Audit(w) PROVE StillDue'
  <2>1. \A v \in Workers \ {w} : Same(v)
    BY <1>13, <1>0 DEF AllDenied, Audit, Same, TypeOK
  <2>2. \A t \in todo[w] : Holds(w, t) => Holds(w, t)'
    BY <1>13, <1>0 DEF AllDenied, Audit, Holds, Dispatched, InHand, StageAt, TypeOK
  <2> QED
    BY <1>13, <2>1, <2>2, <1>11 DEF AllDenied, Audit
<1>14. ASSUME NEW w \in Workers, DeleteInUse(w) PROVE StillDue'
  <2>1. \A v \in Workers \ {w} : Same(v)
    BY <1>14, <1>0 DEF DeleteInUse, Same, TypeOK
  <2>2. \A t \in todo[w] : Holds(w, t) => Holds(w, t)'
    BY <1>14, <1>0 DEF DeleteInUse, Holds, Dispatched, InHand, TypeOK
  <2> QED
    BY <1>14, <2>1, <2>2, <1>11 DEF DeleteInUse
<1> QED
  BY <1>1, <1>2, <1>3, <1>4, <1>5, <1>6, <1>7, <1>8, <1>10, <1>12, <1>13, <1>14
  DEF Next, Step, Stale, AuditRaises, RowsGone, Lose

LEMMA SchedInit == Init => SchedInv
<1> SUFFICES ASSUME Init PROVE SchedInv
  OBVIOUS
<1>1. TypeOK
  BY InitType
<1>2. StageInv
  BY DEF Init, StageInv, InHand, Running
<1>3. Remembered /\ NotAhead
  BY DEF Init, Remembered, NotAhead
<1>4. StillDue
  BY DEF Init, StillDue
<1> QED
  BY <1>1, <1>2, <1>3, <1>4 DEF SchedInv

LEMMA SchedStep == SchedInv /\ [Next]_vars => SchedInv'
BY TypeStep, StageStep, RememberedStep, NotAheadStep, StillDueStep DEF SchedInv

\* No reachable state leaves the types, whatever the schedules and processes.
THEOREM SchedulerTypes == Spec => []TypeOK
<1>1. Init => TypeOK
  BY InitType
<1>2. TypeOK /\ [Next]_vars => TypeOK'
  BY TypeStep
<1> QED
  BY <1>1, <1>2, PTL DEF Spec

\* In every reachable state the last dispatch of a schedule is remembered by
\* its row or by a check that still has to commit it, and what an undisturbed
\* check found due and has not dispatched is still due.
THEOREM SchedulerInvariant == Spec => []SchedInv
<1> QED
  BY SchedInit, SchedStep, PTL DEF Spec

\* dispatch_due never runs a schedule again within its period, or a single
\* schedule a second time, unless two checks overlapped or one was cut short.
THEOREM RepeatsHaveCause == Spec => RepeatNeedsCause
<1> DEFINE A == \A w \in Workers, s \in Schedules :
                  pc'[w] = "send" /\ pc[w] # "send" /\ InHand(w, s) /\ ~overlapped[w] => ~TooSoon(s)
<1>1. SchedInv /\ [Next]_vars => [A]_vars
  <2> SUFFICES ASSUME SchedInv, Next, NEW w \in Workers, NEW s \in Schedules,
                      pc'[w] = "send", pc[w] # "send", InHand(w, s), ~overlapped[w]
               PROVE  ~TooSoon(s)
    OBVIOUS
  <2>1. TypeOK /\ StageAt(w)
    BY StageParts DEF SchedInv
  <2>2. pc[w] \in {"pick", "batch"}
    <3>1. ASSUME pc' = pc PROVE FALSE
      BY <3>1
    <3>2. ASSUME NEW v \in Workers, NEW x, x # "send", pc' = [pc EXCEPT ![v] = x] PROVE FALSE
      BY <2>1, <3>2 DEF TypeOK
    <3>3. ASSUME NEW v \in Workers, NEW t \in Schedules, CreateSingle(v, t) \/ CreateMember(v, t)
          PROVE  pc[w] \in {"pick", "batch"}
      BY <2>1, <3>3 DEF CreateSingle, CreateMember, Dispatch, TypeOK
    <3>4. ASSUME NEW v \in Workers, Abort(v) PROVE FALSE
      BY <3>2, <3>4 DEF Abort
    <3>5. ASSUME NEW v \in Workers, Take(v) \/ Finish(v) \/ AllDenied(v) \/ Audit(v) PROVE FALSE
      BY <3>2, <3>5 DEF Take, Finish, AllDenied, Audit
    <3>6. ASSUME NEW v \in Workers, NEW t \in Schedules, NoTargets(v, t) \/ CreateBatch(v, t) \/ Sweep(v, t)
          PROVE  FALSE
      BY <3>2, <3>6 DEF NoTargets, CreateBatch, Sweep, Stamp
    <3>7. ASSUME NEW v \in Workers, NEW t \in Schedules, Send(v, t) PROVE FALSE
      <4>1. \E x : x # "send" /\ pc' = [pc EXCEPT ![v] = x]
        <5>1. CASE Plan[t].template
          <6>1. CASE Plan[t].creds
            BY <3>7, <5>1, <6>1 DEF Send
          <6>2. CASE ~Plan[t].creds
            BY <3>7, <5>1, <6>2 DEF Send
          <6> QED
            BY <6>1, <6>2
        <5>2. CASE ~Plan[t].template
          BY <3>7, <5>2 DEF Send, Stamp
        <5> QED
          BY <5>1, <5>2
      <4> QED
        BY <3>2, <4>1
    <3>8. ASSUME NEW t \in Schedules, Create(t) \/ Toggle(t) \/ Delete(t) PROVE FALSE
      BY <3>1, <3>8 DEF Create, Toggle, Delete, checks
    <3>9. ASSUME NEW v \in Workers, DeleteInUse(v) PROVE FALSE
      BY <3>1, <3>9 DEF DeleteInUse
    <3>10. CASE Tick
      BY <3>1, <3>10 DEF Tick
    <3> QED
      BY <3>3, <3>4, <3>5, <3>6, <3>7, <3>8, <3>9, <3>10
      DEF Next, Step, Stale, AuditRaises, RowsGone, Lose
  <2>3. ~Holds(w, s)
    BY <2>1, <2>2 DEF Holds, Dispatched, StageAt, InHand
  <2> QED
    BY <2>3 DEF SchedInv, StillDue, InHand
<1> QED
  BY <1>1, SchedulerInvariant, PTL DEF Spec, RepeatNeedsCause

\* An empty batch or a row without a task is only ever the work of a mishap.
THEOREM DebrisIsMishap == Spec => []DebrisNeedsMishap
<1> USE DEF rows, checks, history
<1>1. Init => DebrisNeedsMishap
  BY DEF Init, DebrisNeedsMishap
<1>2. SchedInv /\ DebrisNeedsMishap /\ [Next]_vars => DebrisNeedsMishap'
  <2> SUFFICES ASSUME SchedInv, DebrisNeedsMishap, [Next]_vars, debris' PROVE mishaps' > 0
    BY DEF DebrisNeedsMishap
  <2>1. mishaps \in Nat /\ \A w \in Workers : StageAt(w)
    BY StageParts, SchedulerAssumption DEF SchedInv, TypeOK
  <2>2. CASE debris' = debris /\ mishaps' = mishaps
    BY <2>2 DEF DebrisNeedsMishap
  <2>3. ASSUME NEW w \in Workers, Lose(w) \/ DeleteInUse(w) PROVE mishaps' > 0
    <3>1. mishaps' = mishaps + 1
      BY <2>3 DEF Lose, DeleteInUse
    <3> QED
      BY <2>1, <3>1
  <2>4. ASSUME NEW w \in Workers, RowsGone(w) PROVE mishaps' > 0
    BY <2>1, <2>4 DEF RowsGone, StageAt, DebrisNeedsMishap
  <2> QED
    BY <2>2, <2>3, <2>4 DEF Next, Step, Tick, Create, Toggle, Delete, Take, Finish, Stale, AllDenied,
         Audit, AuditRaises, CreateSingle, NoTargets, CreateBatch, CreateMember, Send, Sweep, vars
<1> QED
  BY <1>1, <1>2, SchedulerInvariant, PTL DEF Spec

\* The last dispatch of a schedule is remembered, and debris has a cause, for
\* any number of schedules, workers and mishaps.
THEOREM ScheduleInvariant == Spec => []ScheduleInv
BY SchedulerInvariant, DebrisIsMishap, PTL DEF ScheduleInv

-----------------------------------------------------------------------------
(* The safety half of NoneStarves: a running check never turns in circles   *)
(* and never passes a schedule over.                                        *)

\* How far a check is from being done with the schedule in hand.
Rank(stage) ==
  CASE stage = "pick" -> 4 [] stage = "batch" -> 3 [] stage = "send" -> 2
    [] stage = "audit" -> 1 [] OTHER -> 0

\* A step leaves a check alone, brings it further with the schedule in hand, leaves that schedule
\* with last_run set, or ends the check.
Waits(w)  == pc'[w] = pc[w] /\ todo'[w] = todo[w]
Works(w)  == todo'[w] = todo[w] /\ pc'[w] # "idle" /\ Rank(pc'[w]) < Rank(pc[w])
Handles(w) ==
  \E s \in todo[w] : /\ InHand(w, s)
                     /\ pc'[w] = "pick" /\ todo'[w] = todo[w] \ {s}
                     /\ s \in stamped'[w]
Ends(w)   == pc'[w] = "idle" /\ todo'[w] = {}

\* What may end a check before it has been through its schedules: a mishap, a row
\* deleted in use or after its stamp, or the audit of a faulty schedule in hand.
CutShort(w) ==
  \/ mishaps' = mishaps + 1
  \/ batch[w] = "gone" \/ batch[w] = "emptied"
  \/ ~CanCommit(w)
  \/ \E s \in Faulty : pc[w] = "audit" /\ InHand(w, s)

Advances(w) == Waits(w) \/ Works(w) \/ Handles(w) \/ (Ends(w) /\ (todo[w] = {} \/ CutShort(w)))

\* A last_run that was set is committed, or waits for the next commit, or is lost with its check.
Carries(w) ==
  \A s \in stamped[w] : s \in stamped'[w] \/ age'[s] = elapsed[w] \/ (Ends(w) /\ CutShort(w))

\* A check that runs gets closer to its end with every step of its own, leaves a schedule only
\* with last_run set, and keeps what it has set; it ends early for the named causes only.
ChecksAdvance == [][\A w \in Workers : Running(w) => Advances(w) /\ Carries(w)]_vars

\* What a check's own step does.
LEMMA OwnStep ==
  ASSUME SchedInv, NEW w \in Workers, Running(w), Step(w)
  PROVE  Advances(w) /\ Carries(w)
<1> USE DEF Ends, CutShort, Advances, Carries, Running
<1>1. /\ pc \in [Workers -> Stage] /\ todo \in [Workers -> SUBSET Schedules]
      /\ stamped \in [Workers -> SUBSET Schedules] /\ StageAt(w)
  BY StageParts DEF SchedInv, TypeOK
<1>2. CASE Take(w)
  BY <1>2 DEF Take
<1>3. CASE Finish(w)
  BY <1>1, <1>3 DEF Finish, Commit
<1>4. CASE Stale(w) \/ AuditRaises(w) \/ RowsGone(w)
  BY <1>1, <1>4 DEF Stale, AuditRaises, RowsGone, Abort
<1>5. CASE AllDenied(w) \/ Audit(w)
  BY <1>1, <1>5 DEF AllDenied, Audit, Works, Rank
<1>6. ASSUME NEW s \in Schedules, CreateSingle(w, s) \/ CreateBatch(w, s)
      PROVE  Advances(w) /\ Carries(w)
  BY <1>1, <1>6 DEF CreateSingle, CreateBatch, Commit, Dispatch, Works, Rank
<1>7. ASSUME NEW s \in Schedules, CreateMember(w, s)
      PROVE  Advances(w) /\ Carries(w)
  BY <1>1, <1>7 DEF CreateMember, Dispatch, Works, Rank
<1>8. ASSUME NEW s \in Schedules, NoTargets(w, s) \/ Sweep(w, s)
      PROVE  Advances(w) /\ Carries(w)
  BY <1>1, <1>8 DEF NoTargets, Sweep, Stamp, Handles, InHand
<1>9. ASSUME NEW s \in Schedules, Send(w, s), Plan[s].template
      PROVE  Advances(w) /\ Carries(w)
  <2>1. pc' = [pc EXCEPT ![w] = IF Plan[s].creds THEN "audit" ELSE "sweep"]
        /\ UNCHANGED <<todo, stamped>>
    BY <1>9 DEF Send
  <2> QED
    BY <1>1, <1>9, <2>1 DEF Send, Works, Rank
<1>10. ASSUME NEW s \in Schedules, Send(w, s), ~Plan[s].template
       PROVE  Advances(w) /\ Carries(w)
  BY <1>1, <1>10 DEF Send, Stamp, Handles, InHand
<1> QED
  BY <1>2, <1>3, <1>4, <1>5, <1>6, <1>7, <1>8, <1>9, <1>10 DEF Step

\* What the step of another check does to it.
LEMMA OthersStep ==
  ASSUME SchedInv, NEW w \in Workers, NEW v \in Workers, v # w, Step(v) \/ Lose(v)
  PROVE  Waits(w) /\ stamped'[w] = stamped[w]
<1> USE DEF Waits, SchedInv, TypeOK, checks
<1>1. CASE Take(v) \/ Finish(v)
  BY <1>1 DEF Take, Finish, Commit
<1>2. CASE Stale(v) \/ AuditRaises(v) \/ RowsGone(v) \/ Lose(v)
  BY <1>2 DEF Stale, AuditRaises, RowsGone, Lose, Abort
<1>3. CASE AllDenied(v) \/ Audit(v)
  BY <1>3 DEF AllDenied, Audit
<1>4. ASSUME NEW s \in Schedules, CreateSingle(v, s) \/ CreateBatch(v, s) \/ CreateMember(v, s)
      PROVE  Waits(w) /\ stamped'[w] = stamped[w]
  BY <1>4 DEF CreateSingle, CreateBatch, CreateMember, Commit, Dispatch
<1>5. ASSUME NEW s \in Schedules, NoTargets(v, s) \/ Sweep(v, s) \/ Send(v, s)
      PROVE  Waits(w) /\ stamped'[w] = stamped[w]
  BY <1>5 DEF NoTargets, Sweep, Send, Stamp
<1> QED
  BY <1>1, <1>2, <1>3, <1>4, <1>5 DEF Step

\* Checks never turn in circles and never pass a schedule over, for any number of schedules,
\* workers and mishaps: that NoneStarves holds is then a matter of fairness alone.
THEOREM ChecksDoAdvance == Spec => ChecksAdvance
<1>1. ASSUME SchedInv, [Next]_vars, NEW w \in Workers, Running(w)
      PROVE  Advances(w) /\ Carries(w)
  <2>1. CASE UNCHANGED vars
    BY <1>1, <2>1 DEF vars, checks, Advances, Waits, Carries
  <2>2. CASE Tick
    BY <1>1, <2>2 DEF Tick, Advances, Waits, Carries
  <2>3. ASSUME NEW s \in Schedules, Create(s) \/ Toggle(s) \/ Delete(s)
        PROVE  Advances(w) /\ Carries(w)
    BY <1>1, <2>3 DEF Create, Toggle, Delete, checks, Advances, Waits, Carries
  <2>4. CASE Step(w)
    BY <1>1, <2>4, OwnStep
  <2>5. CASE Lose(w)
    BY <1>1, <2>5 DEF Lose, Abort, SchedInv, TypeOK, Advances, Ends, CutShort, Carries
  <2>6. ASSUME NEW v \in Workers, v # w, Step(v) \/ Lose(v)
        PROVE  Advances(w) /\ Carries(w)
    BY <1>1, <2>6, OthersStep DEF Advances, Carries
  <2>7. ASSUME NEW v \in Workers, DeleteInUse(v)
        PROVE  Advances(w) /\ Carries(w)
    BY <1>1, <2>7 DEF DeleteInUse, Advances, Waits, Carries
  <2> QED
    BY <1>1, <2>1, <2>2, <2>3, <2>4, <2>5, <2>6, <2>7 DEF Next
<1>2. SchedInv /\ [Next]_vars => \A w \in Workers : Running(w) => Advances(w) /\ Carries(w)
  BY <1>1
<1> QED
  BY <1>2, SchedulerInvariant, PTL DEF Spec, ChecksAdvance

=============================================================================
