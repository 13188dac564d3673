--------------------------- MODULE ScanTasksProofs ---------------------------
(***************************************************************************)
(* What the deliveries of one message, its buttons and its mishaps leave   *)
(* of a scan, for any number of scans, blocks, deliveries, requests and    *)
(* mishaps.  Nothing two scans do touches each other, so the invariant is  *)
(* stated, and kept, scan by scan.                                         *)
(***************************************************************************)
EXTENDS ScanTasks, TLAPS

Unsent == {"none", "send"}
Before == {"absent", "queued", "begin"}
Owning == {"loop", "probe", "work", "save", "finish", "failing"}

\* The message is sent after the row, and the row is stopped after it is there.
Launched(s) ==
  /\ row[s] = "unborn" => launch[s] = "none" /\ revoked[s] = "no"
  /\ launch[s] \in Unsent => \A d \in Deliveries : stage[s][d] = "absent"

\* Nobody has written the row while no execution is past its beginning, and
\* none is past it while the row is as it was created.
Fresh(s) ==
  /\ (\A d \in Deliveries : stage[s][d] \in Before) =>
        row[s] \in {"unborn", "pending", "cancelled", "deleted"}
  /\ row[s] \in {"unborn", "pending"} =>
        \A d \in Deliveries : /\ stage[s][d] \in Before \cup {"failing", "dead"}
                              /\ cache[s][d] \in {"pending", "none"}

Single(s) == ~twice[s] => \A d \in Deliveries : d > 1 => stage[s][d] = "absent"

\* A revoke that found the message in the queue keeps it from being run.
Caught(s) ==
  caught[s] => /\ row[s] \in {"pending", "cancelled", "deleted"}
               /\ revoked[s] = "known"
               /\ \A d \in Deliveries : stage[s][d] \in {"absent", "queued", "dead"}

Saved(s) ==
  /\ row[s] = "completed" => results[s]
  /\ \A d \in Deliveries : stage[s][d] = "finish" => results[s] \/ row[s] = "deleted"

\* "running" belongs to an execution that knows of it and will replace it.
Owned(s) ==
  row[s] = "running" =>
    \/ hit[s] \/ revoked[s] = "known"
    \/ \E d \in Deliveries : stage[s][d] \in Owning /\ cache[s][d] = "running"

\* After a Stop in time, the one execution there is can only end or fail.
Ending(s, d) ==
  \/ row[s] = "deleted" \/ stage[s][d] = "failing"
  \/ /\ row[s] = "cancelled" /\ stage[s][d] \in {"loop", "probe"}
     /\ left[s][d] >= 1 /\ (left[s][d] >= 2 \/ cache[s][d] = "cancelled")

Heeded(s) ==
  heeded[s] =>
    /\ row[s] \in {"cancelled", "failed", "deleted"} /\ launch[s] \notin Unsent
    /\ \A d \in Deliveries :
         /\ stage[s][d] \notin {"queued", "begin"}
         /\ stage[s][d] \in Working =>
              Ending(s, d) /\ \A e \in Deliveries : e # d => stage[s][e] \notin Working

Sound(s) ==
  Launched(s) /\ Fresh(s) /\ Single(s) /\ Caught(s) /\ Saved(s) /\ Owned(s) /\ Heeded(s)

SoundInv == TypeOK /\ \A s \in Scans : Sound(s)

-----------------------------------------------------------------------------
(* Types.                                                                  *)

\* An execution moves at its own place and nowhere else.
LEMMA StageType ==
  ASSUME TypeOK, NEW s \in Scans, NEW d \in Deliveries, NEW where \in Stage, Goto(s, d, where)
  PROVE  stage' \in [Scans -> [Deliveries -> Stage]]
BY DEF TypeOK, Goto

\* The session primitives keep the types.
LEMMA CacheType ==
  ASSUME TypeOK, NEW s \in Scans, NEW d \in Deliveries, NEW x \in Stored \cup {"none"},
         cache' = [cache EXCEPT ![s][d] = x]
  PROVE  cache' \in [Scans -> [Deliveries -> Stored \cup {"none"}]]
BY DEF TypeOK

LEMMA ProgressType ==
  ASSUME TypeOK, NEW s \in Scans, NEW d \in Deliveries, NEW where \in Stage, Progress(s, d, where)
  PROVE  /\ cache' \in [Scans -> [Deliveries -> Stored \cup {"none"}]]
         /\ stage' \in [Scans -> [Deliveries -> Stage]]
<1>1. "failing" \in Stage
  BY DEF Stage, Working
<1>2. Visible(s) \in Stored \cup {"none"}
  BY DEF Visible, Exists
<1> QED
  BY <1>1, <1>2, CacheType, StageType DEF Progress

LEMMA StatusType ==
  ASSUME TypeOK, NEW s \in Scans, NEW d \in Deliveries, NEW where \in Stage, NEW new \in Stored,
         SetStatus(s, d, new, where)
  PROVE  /\ row' \in [Scans -> Row]
         /\ cache' \in [Scans -> [Deliveries -> Stored \cup {"none"}]]
         /\ stage' \in [Scans -> [Deliveries -> Stage]]
<1>1. "failing" \in Stage
  BY DEF Stage, Working
<1>2. row' \in [Scans -> Row] /\ (Exists(s) => row'[s] \in Stored)
  BY DEF SetStatus, TypeOK, Row, Exists
<1>3. (IF Exists(s) THEN row'[s] ELSE "none") \in Stored \cup {"none"}
  BY <1>2
<1> QED
  BY <1>1, <1>2, <1>3, CacheType, StageType DEF SetStatus

LEMMA EndsType ==
  ASSUME TypeOK, NEW s \in Scans, NEW d \in Deliveries, NEW how \in {"done", "dead"}, Ends(s, d, how)
  PROVE  /\ cache' \in [Scans -> [Deliveries -> Stored \cup {"none"}]]
         /\ left' \in [Scans -> [Deliveries -> Nat]]
         /\ stage' \in [Scans -> [Deliveries -> Stage]]
<1>1. how \in Stage
  BY DEF Stage
<1>2. left' \in [Scans -> [Deliveries -> Nat]]
  BY DEF Ends, TypeOK
<1> QED
  BY <1>1, <1>2, CacheType, StageType DEF Ends

LEMMA TerminateType ==
  ASSUME TypeOK, NEW S, Terminate(S)
  PROVE  /\ cache' \in [Scans -> [Deliveries -> Stored \cup {"none"}]]
         /\ stage' \in [Scans -> [Deliveries -> Stage]]
         /\ left' \in [Scans -> [Deliveries -> Nat]]
BY DEF TypeOK, Terminate, Stage

\* Every variable keeps its type.
LEMMA TypeStep ==
  ASSUME TypeOK, [Next]_vars
  PROVE  TypeOK'
<1> USE ScanTasksAssumption
<1>p. Working \subseteq Stage /\ {"done", "dead", "queued"} \subseteq Stage
  BY DEF Stage
<1>q. 1 \in Deliveries
  BY DEF Deliveries
<1>1. ASSUME NEW s \in Scans, NEW d \in Deliveries, Step(s, d)
      PROVE  TypeOK'
  <2> DEFINE Cache == cache' \in [Scans -> [Deliveries -> Stored \cup {"none"}]]
             Places == stage' \in [Scans -> [Deliveries -> Stage]]
             Rows == row' \in [Scans -> Row]
             Lefts == left' \in [Scans -> [Deliveries -> Nat]]
             Done == results' \in [Scans -> BOOLEAN]
  <2>0. SUFFICES other' = other /\ Cache /\ Places /\ Rows /\ Lefts /\ Done
    BY DEF TypeOK, other, scanVars, history
  <2>t. /\ cache \in [Scans -> [Deliveries -> Stored \cup {"none"}]]
        /\ stage \in [Scans -> [Deliveries -> Stage]] /\ row \in [Scans -> Row]
        /\ left \in [Scans -> [Deliveries -> Nat]] /\ results \in [Scans -> BOOLEAN]
        /\ blocks \in [Scans -> Nat]
    BY DEF TypeOK
  <2>s. /\ {"begin", "loop", "probe", "work", "save", "finish", "tail", "failing"} \subseteq Stage
        /\ {"running", "failed", "completed"} \subseteq Stored
    BY DEF Stage, Working, Stored
  <2>v. Visible(s) \in Stored \cup {"none"}
    BY DEF Visible, Exists
  <2>1. CASE Pick(s, d)
    BY <2>1, <2>t, <2>s, <2>v, StageType DEF Pick, other
  <2>2. CASE Discard(s, d)
    BY <2>2, <2>t, <1>p, StageType DEF Discard, other
  <2>3. CASE Denied(s, d)
    BY <2>3, <2>t, <2>s, StatusType DEF Denied, other
  <2>4. CASE Begin(s, d)
    <3>1. PICK n \in 1..blocks[s] : left' = [left EXCEPT ![s][d] = n]
      BY <2>4 DEF Begin
    <3>2. n \in Nat
      BY <2>t, <3>1
    <3>3. Lefts
      BY <2>t, <3>1, <3>2
    <3>4. (IF kind[s] = "ping" THEN "loop" ELSE "work") \in Stage
      BY <2>s
    <3> QED
      BY <2>4, <2>t, <2>s, <3>3, <3>4, StatusType DEF Begin, other
  <2>5. CASE Cancelled(s, d)
    BY <2>5, <2>t, <1>p, EndsType DEF Cancelled, other
  <2>6. CASE NextBlock(s, d)
    <3>1. left[s][d] \in Nat /\ left[s][d] > 0
      BY <2>6, <2>t DEF NextBlock
    <3>2. left[s][d] - 1 \in Nat
      BY <3>1
    <3>3. Lefts
      BY <2>6, <2>t, <3>2 DEF NextBlock
    <3>4. row' = row
      BY <2>6 DEF NextBlock, Progress
    <3> QED
      BY <2>6, <2>t, <2>s, <3>3, <3>4, ProgressType DEF NextBlock, other
  <2>7. CASE Probed(s, d)
    BY <2>7, <2>t, <2>s, StageType DEF Probed, other
  <2>8. CASE WorkDone(s, d)
    <3>1. row' = row
      BY <2>8 DEF WorkDone, Progress
    <3> QED
      BY <2>8, <2>t, <2>s, <3>1, ProgressType DEF WorkDone, other
  <2>9. CASE Save(s, d)
    <3>1. Done
      BY <2>9, <2>t DEF Save, Exists
    <3> QED
      BY <2>9, <2>t, <2>s, <3>1, StageType DEF Save, other
  <2>10. CASE Finish(s, d)
    BY <2>10, <2>t, <2>s, StatusType DEF Finish, other
  <2>11. CASE Tail(s, d)
    BY <2>11, <2>t, <1>p, EndsType DEF Tail, other
  <2>12. CASE MarkFailed(s, d)
    <3>1. Rows
      BY <2>12, <2>t DEF MarkFailed, Row, Stored
    <3> QED
      BY <2>12, <2>t, <1>p, <3>1, EndsType DEF MarkFailed, other
  <2> QED
    BY <1>1, <2>1, <2>2, <2>3, <2>4, <2>5, <2>6, <2>7, <2>8, <2>9, <2>10, <2>11, <2>12 DEF Step
<1>2. ASSUME NEW s \in Scans, NEW d \in Deliveries, Raise(s, d) \/ Redeliver(s, d)
      PROVE  TypeOK'
  <2>1. "failing" \in Stage
    BY DEF Stage, Working
  <2>2. stage' \in [Scans -> [Deliveries -> Stage]]
    BY <1>2, <1>p, <2>1, StageType DEF Raise, Redeliver
  <2> QED
    BY <1>2, <2>2 DEF Raise, Redeliver, other, scanVars, history, TypeOK
<1>3. ASSUME NEW s \in Scans, NEW d \in Deliveries, Lose(s, d)
      PROVE  TypeOK'
  BY <1>3, <1>p, EndsType DEF Lose, Mishap, scanVars, TypeOK
<1>4. ASSUME NEW s \in Scans, Start(s) \/ Rescan(s)
      PROVE  TypeOK'
  <2>1. PICK k \in Kinds, n \in Nat : CreateScan(s, k, n)
    BY <1>4 DEF Start, Rescan, Displayed
  <2>2. k \in AllKinds
    OBVIOUS
  <2> QED
    BY <2>1, <2>2 DEF CreateScan, TypeOK, workVars, history, Row, Stored
<1>5. ASSUME NEW s \in Scans, Send(s)
      PROVE  TypeOK'
  BY <1>5, <1>p, <1>q, StageType DEF Send, scanVars, history, TypeOK
<1>6. ASSUME NEW s \in Scans, WriteTaskId(s)
      PROVE  TypeOK'
  BY <1>6 DEF WriteTaskId, scanVars, workVars, history, TypeOK, Exists
<1>7. ASSUME NEW s \in Scans, RevokeArrives(s)
      PROVE  TypeOK'
  <2>1. caught' \in [Scans -> BOOLEAN] /\ revoked' \in [Scans -> {"no", "sent", "known"}]
    BY <1>7 DEF RevokeArrives, TypeOK
  <2> QED
    BY <1>7, <2>1, TerminateType DEF RevokeArrives, scanVars, TypeOK
<1>8. ASSUME NEW s \in Scans, SendFails(s)
      PROVE  TypeOK'
  BY <1>8 DEF SendFails, Mishap, scanVars, workVars, TypeOK
<1>9. ASSUME NEW q \in Requests, NEW s \in Scans, AskStop(q, s) \/ AskDelete(q, s)
      PROVE  TypeOK'
  <2>0. \A what \in {"stop", "delete"} :
          [do |-> what, scan |-> s] \in [do : {"idle", "done"}] \cup [do : {"stop", "delete"}, scan : Scans]
    OBVIOUS
  <2>1. request' \in [Requests -> [do : {"idle", "done"}] \cup [do : {"stop", "delete"}, scan : Scans]]
    BY <1>9, <2>0 DEF AskStop, AskDelete, TypeOK
  <2>2. revoked' \in [Scans -> {"no", "sent", "known"}]
    BY <1>9 DEF AskStop, AskDelete, TypeOK
  <2> QED
    BY <1>9, <2>1, <2>2 DEF AskStop, AskDelete, scanVars, workVars, history, TypeOK
<1>10. ASSUME NEW q \in Requests, Stop(q)
      PROVE  TypeOK'
  <2>1. PICK s \in Scans : request[q].scan = s
    BY <1>10 DEF Stop, TypeOK
  <2>2. request' \in [Requests -> [do : {"idle", "done"}] \cup [do : {"stop", "delete"}, scan : Scans]]
    BY <1>10 DEF Stop, TypeOK
  <2>3. row' \in [Scans -> Row] /\ heeded' \in [Scans -> BOOLEAN]
    BY <1>10, <2>1 DEF Stop, TypeOK, Row, Stored, StopInTime, Exists
  <2> QED
    BY <1>10, <2>2, <2>3 DEF Stop, scanVars, workVars, TypeOK
<1>11. ASSUME NEW q \in Requests, Delete(q)
      PROVE  TypeOK'
  <2>1. PICK s \in Scans : request[q].scan = s
    BY <1>11 DEF Delete, TypeOK
  <2>2. request' \in [Requests -> [do : {"idle", "done"}] \cup [do : {"stop", "delete"}, scan : Scans]]
    BY <1>11 DEF Delete, TypeOK
  <2>3. row' \in [Scans -> Row] /\ results' \in [Scans -> BOOLEAN]
    BY <1>11, <2>1 DEF Delete, TypeOK, Row
  <2> QED
    BY <1>11, <2>2, <2>3 DEF Delete, scanVars, workVars, history, TypeOK
<1>12. CASE Restart
  <2>1. caught' \in [Scans -> BOOLEAN] /\ revoked' \in [Scans -> {"no", "sent", "known"}]
    BY <1>12 DEF Restart
  <2>2. hit' \in [Scans -> BOOLEAN] /\ mishaps' \in 0..MaxMishaps
    BY <1>12 DEF Restart, Mishap, TypeOK
  <2> QED
    BY <1>12, <2>1, <2>2, TerminateType DEF Restart, scanVars, TypeOK
<1>13. CASE UNCHANGED vars
  BY <1>13 DEF vars, scanVars, workVars, history, TypeOK
<1> QED
  BY <1>1, <1>2, <1>3, <1>4, <1>5, <1>6, <1>7, <1>8, <1>9, <1>10, <1>11, <1>12, <1>13 DEF Next

-----------------------------------------------------------------------------
(* The invariant.                                                          *)

\* Nothing of scan s changes.
Same(s) ==
  /\ row'[s] = row[s] /\ launch'[s] = launch[s] /\ revoked'[s] = revoked[s]
  /\ results'[s] = results[s] /\ hit'[s] = hit[s] /\ twice'[s] = twice[s]
  /\ heeded'[s] = heeded[s] /\ caught'[s] = caught[s]
  /\ \A d \in Deliveries :
       stage'[s][d] = stage[s][d] /\ cache'[s][d] = cache[s][d] /\ left'[s][d] = left[s][d]

\* Execution d of scan s takes a step: its place, its session and its blocks
\* change, and the row and the results of the scan.
Moves(s, d, where, holds, n) ==
  /\ launch'[s] = launch[s] /\ revoked'[s] = revoked[s] /\ hit'[s] = hit[s]
  /\ twice'[s] = twice[s] /\ heeded'[s] = heeded[s] /\ caught'[s] = caught[s]
  /\ stage'[s][d] = where /\ cache'[s][d] = holds /\ left'[s][d] = n
  /\ \A e \in Deliveries \ {d} :
       stage'[s][e] = stage[s][e] /\ cache'[s][e] = cache[s][e] /\ left'[s][e] = left[s][e]

LEMMA SameIsSound ==
  ASSUME NEW s \in Scans, Sound(s), Same(s)
  PROVE  Sound(s)'
<1>1. Launched(s)' /\ Fresh(s)' /\ Single(s)'
  BY DEF Sound, Same, Launched, Fresh, Single
<1>2. Caught(s)' /\ Saved(s)'
  BY DEF Sound, Same, Caught, Saved
<1>3. Owned(s)'
  BY DEF Sound, Same, Owned
<1>4. Heeded(s)'
  BY DEF Sound, Same, Heeded, Ending
<1> QED
  BY <1>1, <1>2, <1>3, <1>4 DEF Sound

\* What the primitives do to the scan of the execution, and to no other.
LEMMA PrimitiveEffect ==
  ASSUME TypeOK, NEW s \in Scans, NEW d \in Deliveries, NEW where, NEW new
  PROVE  /\ Goto(s, d, where) =>
              /\ stage'[s][d] = where
              /\ \A e \in Deliveries \ {d} : stage'[s][e] = stage[s][e]
              /\ \A t \in Scans \ {s} : stage'[t] = stage[t]
         /\ cache' = [cache EXCEPT ![s][d] = new] =>
              /\ cache'[s][d] = new
              /\ \A e \in Deliveries \ {d} : cache'[s][e] = cache[s][e]
              /\ \A t \in Scans \ {s} : cache'[t] = cache[t]
         /\ left' = [left EXCEPT ![s][d] = new] =>
              /\ left'[s][d] = new
              /\ \A e \in Deliveries \ {d} : left'[s][e] = left[s][e]
              /\ \A t \in Scans \ {s} : left'[t] = left[t]
         /\ row' = [row EXCEPT ![s] = new] =>
              row'[s] = new /\ \A t \in Scans \ {s} : row'[t] = row[t]
         /\ results' = [results EXCEPT ![s] = new] =>
              results'[s] = new /\ \A t \in Scans \ {s} : results'[t] = results[t]
BY DEF TypeOK, Goto

LEMMA RowIs ==
  ASSUME TypeOK, NEW s \in Scans
  PROVE  row[s] \in Stored \cup {"unborn", "deleted"}
BY DEF TypeOK, Row

LEMMA LeftIs ==
  ASSUME TypeOK, NEW s \in Scans, NEW d \in Deliveries
  PROVE  left[s][d] \in Nat
BY DEF TypeOK

\* The one execution after a Stop in time goes on: the others stand still.
LEMMA HeededMove ==
  ASSUME NEW s \in Scans, NEW d \in Deliveries, Heeded(s), NEW where, NEW holds, NEW n,
         Moves(s, d, where, holds, n), stage[s][d] \in Working,
         heeded[s] => /\ row'[s] \in {"cancelled", "failed", "deleted"}
                      /\ where \notin {"queued", "begin"}
                      /\ where \in Working => \/ row'[s] = "deleted" \/ where = "failing"
                                              \/ /\ row'[s] = "cancelled" /\ where \in {"loop", "probe"}
                                                 /\ n >= 1 /\ (n >= 2 \/ holds = "cancelled")
  PROVE  Heeded(s)'
<1> SUFFICES ASSUME heeded[s]
             PROVE  /\ row'[s] \in {"cancelled", "failed", "deleted"} /\ launch'[s] \notin Unsent
                    /\ \A e \in Deliveries :
                         /\ stage'[s][e] \notin {"queued", "begin"}
                         /\ stage'[s][e] \in Working =>
                              Ending(s, e)' /\ \A f \in Deliveries : f # e => stage'[s][f] \notin Working
  BY DEF Heeded, Moves
<1>1. \A e \in Deliveries \ {d} : stage'[s][e] \notin Working /\ stage'[s][e] \notin {"queued", "begin"}
  BY DEF Heeded, Moves
<1>2. stage'[s][d] = where /\ (where \in Working => Ending(s, d)')
  BY DEF Moves, Ending
<1>3. launch'[s] \notin Unsent
  BY DEF Heeded, Moves
<1> QED
  BY <1>1, <1>2, <1>3

LEMMA PickSound ==
  ASSUME SoundInv, NEW s \in Scans, NEW d \in Deliveries, Pick(s, d)
  PROVE  Sound(s)' /\ \A t \in Scans \ {s} : Same(t)
<1> USE DEF SoundInv
<1>1. /\ Moves(s, d, "begin", Visible(s), left[s][d])
      /\ row'[s] = row[s] /\ results'[s] = results[s]
  BY PrimitiveEffect DEF Pick, Goto, Moves, other, history, TypeOK
<1>2. \A t \in Scans \ {s} : Same(t)
  BY PrimitiveEffect DEF Pick, Goto, Same, other, history, TypeOK
<1>3. Launched(s)' /\ Fresh(s)' /\ Single(s)'
  BY <1>1 DEF Pick, Moves, Sound, Launched, Fresh, Single, Unsent, Before, Visible, Exists, Stored, Working
<1>4. Caught(s)'
  BY <1>1 DEF Pick, Moves, Sound, Caught, Working
<1>7. Saved(s)'
  BY <1>1, RowIs DEF Pick, Moves, Sound, Saved, Launched, Unsent, Exists, Stored
<1>5. Owned(s)'
  BY <1>1 DEF Pick, Moves, Sound, Owned, Owning, Visible, Lost, Exists, Stored, Working
<1>6. Heeded(s)'
  BY <1>1, LeftIs DEF Pick, Moves, Sound, Heeded, Ending, Visible, Lost, Exists, Stored, Working
<1> QED
  BY <1>2, <1>3, <1>4, <1>5, <1>6, <1>7 DEF Sound

LEMMA DiscardSound ==
  ASSUME SoundInv, NEW s \in Scans, NEW d \in Deliveries, Discard(s, d)
  PROVE  Sound(s)' /\ \A t \in Scans \ {s} : Same(t)
<1> USE DEF SoundInv
<1>1. /\ Moves(s, d, "dead", cache[s][d], left[s][d])
      /\ row'[s] = row[s] /\ results'[s] = results[s]
  BY PrimitiveEffect DEF Discard, Goto, Moves, other, history, TypeOK
<1>2. \A t \in Scans \ {s} : Same(t)
  BY PrimitiveEffect DEF Discard, Goto, Same, other, history, TypeOK
<1>3. Launched(s)' /\ Fresh(s)' /\ Single(s)'
  BY <1>1 DEF Discard, Moves, Sound, Launched, Fresh, Single, Unsent, Before, Visible, Exists, Stored, Working
<1>4. Caught(s)'
  <2>1. caught[s] => \A e \in Deliveries \ {d} : stage'[s][e] \in {"absent", "queued", "dead"}
    BY <1>1 DEF Moves, Sound, Caught
  <2> QED
    BY <1>1, <2>1 DEF Moves, Sound, Caught
<1>7. Saved(s)'
  BY <1>1, RowIs DEF Discard, Moves, Sound, Saved, Launched, Unsent, Exists, Stored
<1>5. Owned(s)'
  BY <1>1 DEF Discard, Moves, Sound, Owned, Owning, Visible, Lost, Exists, Stored, Working
<1>6. Heeded(s)'
  BY <1>1, LeftIs DEF Discard, Moves, Sound, Heeded, Ending, Visible, Lost, Exists, Stored, Working
<1> QED
  BY <1>2, <1>3, <1>4, <1>5, <1>6, <1>7 DEF Sound

LEMMA CancelledSound ==
  ASSUME SoundInv, NEW s \in Scans, NEW d \in Deliveries, Cancelled(s, d)
  PROVE  Sound(s)' /\ \A t \in Scans \ {s} : Same(t)
<1> USE DEF SoundInv
<1>1. /\ Moves(s, d, "done", "none", 0)
      /\ row'[s] = row[s] /\ results'[s] = results[s]
  BY PrimitiveEffect DEF Cancelled, Ends, Goto, Moves, other, history, TypeOK
<1>2. \A t \in Scans \ {s} : Same(t)
  BY PrimitiveEffect DEF Cancelled, Ends, Goto, Same, other, history, TypeOK
<1>3. Launched(s)' /\ Fresh(s)' /\ Single(s)'
  BY <1>1 DEF Cancelled, Moves, Sound, Launched, Fresh, Single, Unsent, Before, Visible, Exists, Stored, Working
<1>4. Caught(s)'
  BY <1>1 DEF Cancelled, Moves, Sound, Caught, Working
<1>7. Saved(s)'
  BY <1>1, RowIs DEF Cancelled, Moves, Sound, Saved, Launched, Unsent, Exists, Stored
<1>5. Owned(s)'
  BY <1>1 DEF Cancelled, Moves, Sound, Owned, Owning, Visible, Lost, Exists, Stored, Working
<1>6. Heeded(s)'
  <2>1. Heeded(s) /\ stage[s][d] \in Working /\ left[s][d] \in Nat
    BY LeftIs DEF Cancelled, Sound, Working
  <2>2. heeded[s] => Ending(s, d) /\ row[s] \in {"cancelled", "failed", "deleted"}
    BY <2>1 DEF Heeded
  <2> QED
    BY <1>1, <2>1, <2>2, HeededMove DEF Cancelled, Ending, Visible, Lost, Exists, Stored, Working
<1> QED
  BY <1>2, <1>3, <1>4, <1>5, <1>6, <1>7 DEF Sound

LEMMA ProbedSound ==
  ASSUME SoundInv, NEW s \in Scans, NEW d \in Deliveries, Probed(s, d)
  PROVE  Sound(s)' /\ \A t \in Scans \ {s} : Same(t)
<1> USE DEF SoundInv
<1>1. /\ Moves(s, d, "loop", cache[s][d], left[s][d])
      /\ row'[s] = row[s] /\ results'[s] = results[s]
  BY PrimitiveEffect DEF Probed, Goto, Moves, other, history, TypeOK
<1>2. \A t \in Scans \ {s} : Same(t)
  BY PrimitiveEffect DEF Probed, Goto, Same, other, history, TypeOK
<1>3. Launched(s)' /\ Fresh(s)' /\ Single(s)'
  BY <1>1 DEF Probed, Moves, Sound, Launched, Fresh, Single, Unsent, Before, Visible, Exists, Stored, Working
<1>4. Caught(s)'
  BY <1>1 DEF Probed, Moves, Sound, Caught, Working
<1>7. Saved(s)'
  BY <1>1, RowIs DEF Probed, Moves, Sound, Saved, Launched, Unsent, Exists, Stored
<1>5. Owned(s)'
  BY <1>1 DEF Probed, Moves, Sound, Owned, Owning, Visible, Lost, Exists, Stored, Working
<1>6. Heeded(s)'
  <2>1. Heeded(s) /\ stage[s][d] \in Working /\ left[s][d] \in Nat
    BY LeftIs DEF Probed, Sound, Working
  <2>2. heeded[s] => Ending(s, d) /\ row[s] \in {"cancelled", "failed", "deleted"}
    BY <2>1 DEF Heeded
  <2> QED
    BY <1>1, <2>1, <2>2, HeededMove DEF Probed, Ending, Visible, Lost, Exists, Stored, Working
<1> QED
  BY <1>2, <1>3, <1>4, <1>5, <1>6, <1>7 DEF Sound

LEMMA RaiseSound ==
  ASSUME SoundInv, NEW s \in Scans, NEW d \in Deliveries, Raise(s, d)
  PROVE  Sound(s)' /\ \A t \in Scans \ {s} : Same(t)
<1> USE DEF SoundInv
<1>1. /\ Moves(s, d, "failing", cache[s][d], left[s][d])
      /\ row'[s] = row[s] /\ results'[s] = results[s]
  BY PrimitiveEffect DEF Raise, Goto, Moves, other, history, TypeOK
<1>2. \A t \in Scans \ {s} : Same(t)
  BY PrimitiveEffect DEF Raise, Goto, Same, other, history, TypeOK
<1>3. Launched(s)' /\ Fresh(s)' /\ Single(s)'
  BY <1>1 DEF Raise, Moves, Sound, Launched, Fresh, Single, Unsent, Before, Visible, Exists, Stored, Working
<1>4. Caught(s)'
  BY <1>1 DEF Raise, Moves, Sound, Caught, Working
<1>7. Saved(s)'
  BY <1>1, RowIs DEF Raise, Moves, Sound, Saved, Launched, Unsent, Exists, Stored
<1>5. Owned(s)'
  BY <1>1 DEF Raise, Moves, Sound, Owned, Owning, Visible, Lost, Exists, Stored, Working
<1>6. Heeded(s)'
  <2>1. Heeded(s) /\ stage[s][d] \in Working /\ left[s][d] \in Nat
    BY LeftIs DEF Raise, Sound, Working
  <2>2. heeded[s] => Ending(s, d) /\ row[s] \in {"cancelled", "failed", "deleted"}
    BY <2>1 DEF Heeded
  <2> QED
    BY <1>1, <2>1, <2>2, HeededMove DEF Raise, Ending, Visible, Lost, Exists, Stored, Working
<1> QED
  BY <1>2, <1>3, <1>4, <1>5, <1>6, <1>7 DEF Sound

LEMMA TailSound ==
  ASSUME SoundInv, NEW s \in Scans, NEW d \in Deliveries, Tail(s, d)
  PROVE  Sound(s)' /\ \A t \in Scans \ {s} : Same(t)
<1> USE DEF SoundInv
<1>1. /\ Moves(s, d, "done", "none", 0)
      /\ row'[s] = row[s] /\ results'[s] = results[s]
  BY PrimitiveEffect DEF Tail, Ends, Goto, Moves, other, history, TypeOK
<1>2. \A t \in Scans \ {s} : Same(t)
  BY PrimitiveEffect DEF Tail, Ends, Goto, Same, other, history, TypeOK
<1>3. Launched(s)' /\ Fresh(s)' /\ Single(s)'
  BY <1>1 DEF Tail, Moves, Sound, Launched, Fresh, Single, Unsent, Before, Visible, Exists, Stored, Working
<1>4. Caught(s)'
  BY <1>1 DEF Tail, Moves, Sound, Caught, Working
<1>7. Saved(s)'
  BY <1>1, RowIs DEF Tail, Moves, Sound, Saved, Launched, Unsent, Exists, Stored
<1>5. Owned(s)'
  BY <1>1 DEF Tail, Moves, Sound, Owned, Owning, Visible, Lost, Exists, Stored, Working
<1>6. Heeded(s)'
  <2>1. Heeded(s) /\ stage[s][d] \in Working /\ left[s][d] \in Nat
    BY LeftIs DEF Tail, Sound, Working
  <2>2. heeded[s] => Ending(s, d) /\ row[s] \in {"cancelled", "failed", "deleted"}
    BY <2>1 DEF Heeded
  <2> QED
    BY <1>1, <2>1, <2>2, HeededMove DEF Tail, Ending, Visible, Lost, Exists, Stored, Working
<1> QED
  BY <1>2, <1>3, <1>4, <1>5, <1>6, <1>7 DEF Sound

LEMMA MarkFailedSound ==
  ASSUME SoundInv, NEW s \in Scans, NEW d \in Deliveries, MarkFailed(s, d)
  PROVE  Sound(s)' /\ \A t \in Scans \ {s} : Same(t)
<1> USE DEF SoundInv
<1>1. /\ Moves(s, d, "done", "none", 0)
      /\ row'[s] = (IF Exists(s) THEN "failed" ELSE row[s]) /\ results'[s] = results[s]
  BY PrimitiveEffect DEF MarkFailed, Ends, Goto, Moves, other, history, TypeOK
<1>2. \A t \in Scans \ {s} : Same(t)
  BY PrimitiveEffect DEF MarkFailed, Ends, Goto, Same, other, history, TypeOK
<1>3. Launched(s)' /\ Fresh(s)' /\ Single(s)'
  BY <1>1 DEF MarkFailed, Moves, Sound, Launched, Fresh, Single, Unsent, Before, Visible, Exists, Stored, Working
<1>4. Caught(s)'
  BY <1>1 DEF MarkFailed, Moves, Sound, Caught, Working
<1>7. Saved(s)'
  BY <1>1, RowIs DEF MarkFailed, Moves, Sound, Saved, Launched, Unsent, Exists, Stored
<1>5. Owned(s)'
  BY <1>1 DEF MarkFailed, Moves, Sound, Owned, Owning, Visible, Lost, Exists, Stored, Working
<1>6. Heeded(s)'
  <2>1. Heeded(s) /\ stage[s][d] \in Working /\ left[s][d] \in Nat
    BY LeftIs DEF MarkFailed, Sound, Working
  <2>2. heeded[s] => Ending(s, d) /\ row[s] \in {"cancelled", "failed", "deleted"}
    BY <2>1 DEF Heeded
  <2> QED
    BY <1>1, <2>1, <2>2, HeededMove DEF MarkFailed, Ending, Visible, Lost, Exists, Stored, Working
<1> QED
  BY <1>2, <1>3, <1>4, <1>5, <1>6, <1>7 DEF Sound

LEMMA SaveSound ==
  ASSUME SoundInv, NEW s \in Scans, NEW d \in Deliveries, Save(s, d)
  PROVE  Sound(s)' /\ \A t \in Scans \ {s} : Same(t)
<1> USE DEF SoundInv
<1>1. /\ Moves(s, d, "finish", cache[s][d], left[s][d])
      /\ row'[s] = row[s] /\ results'[s] = (results[s] \/ Exists(s))
  BY PrimitiveEffect DEF Save, Goto, Moves, other, history, TypeOK
<1>2. \A t \in Scans \ {s} : Same(t)
  BY PrimitiveEffect DEF Save, Goto, Same, other, history, TypeOK
<1>3. Launched(s)' /\ Fresh(s)' /\ Single(s)'
  BY <1>1 DEF Save, Moves, Sound, Launched, Fresh, Single, Unsent, Before, Visible, Exists, Stored, Working
<1>4. Caught(s)'
  BY <1>1 DEF Save, Moves, Sound, Caught, Working
<1>7. Saved(s)'
  BY <1>1, RowIs DEF Save, Moves, Sound, Saved, Launched, Unsent, Exists, Stored
<1>5. Owned(s)'
  BY <1>1 DEF Save, Moves, Sound, Owned, Owning, Visible, Lost, Exists, Stored, Working
<1>6. Heeded(s)'
  <2>1. Heeded(s) /\ stage[s][d] \in Working /\ left[s][d] \in Nat
    BY LeftIs DEF Save, Sound, Working
  <2>2. heeded[s] => Ending(s, d) /\ row[s] \in {"cancelled", "failed", "deleted"}
    BY <2>1 DEF Heeded
  <2> QED
    BY <1>1, <2>1, <2>2, HeededMove DEF Save, Ending, Visible, Lost, Exists, Stored, Working
<1> QED
  BY <1>2, <1>3, <1>4, <1>5, <1>6, <1>7 DEF Sound

LEMMA NextBlockSound ==
  ASSUME SoundInv, NEW s \in Scans, NEW d \in Deliveries, NextBlock(s, d)
  PROVE  Sound(s)' /\ \A t \in Scans \ {s} : Same(t)
<1> USE DEF SoundInv
<1>1. /\ Moves(s, d, (IF Lost(s, d) THEN "failing" ELSE "probe"), Visible(s), left[s][d] - 1)
      /\ row'[s] = row[s] /\ results'[s] = results[s]
  BY PrimitiveEffect DEF NextBlock, Progress, Goto, Moves, other, history, TypeOK
<1>2. \A t \in Scans \ {s} : Same(t)
  BY PrimitiveEffect DEF NextBlock, Progress, Goto, Same, other, history, TypeOK
<1>3. Launched(s)' /\ Fresh(s)' /\ Single(s)'
  BY <1>1 DEF NextBlock, Moves, Sound, Launched, Fresh, Single, Unsent, Before, Visible, Exists, Stored, Working
<1>4. Caught(s)'
  BY <1>1 DEF NextBlock, Moves, Sound, Caught, Working
<1>7. Saved(s)'
  BY <1>1, RowIs DEF NextBlock, Moves, Sound, Saved, Launched, Unsent, Exists, Stored
<1>5. Owned(s)'
  BY <1>1 DEF NextBlock, Moves, Sound, Owned, Owning, Visible, Lost, Exists, Stored, Working
<1>6. Heeded(s)'
  <2>1. Heeded(s) /\ stage[s][d] \in Working /\ left[s][d] \in Nat
    BY LeftIs DEF NextBlock, Sound, Working
  <2>2. heeded[s] => Ending(s, d) /\ row[s] \in {"cancelled", "failed", "deleted"}
    BY <2>1 DEF Heeded
  <2> QED
    BY <1>1, <2>1, <2>2, HeededMove DEF NextBlock, Ending, Visible, Lost, Exists, Stored, Working
<1> QED
  BY <1>2, <1>3, <1>4, <1>5, <1>6, <1>7 DEF Sound

LEMMA WorkDoneSound ==
  ASSUME SoundInv, NEW s \in Scans, NEW d \in Deliveries, WorkDone(s, d)
  PROVE  Sound(s)' /\ \A t \in Scans \ {s} : Same(t)
<1> USE DEF SoundInv
<1>1. /\ Moves(s, d, (IF Lost(s, d) THEN "failing" ELSE "save"), Visible(s), left[s][d])
      /\ row'[s] = row[s] /\ results'[s] = results[s]
  BY PrimitiveEffect DEF WorkDone, Progress, Goto, Moves, other, history, TypeOK
<1>2. \A t \in Scans \ {s} : Same(t)
  BY PrimitiveEffect DEF WorkDone, Progress, Goto, Same, other, history, TypeOK
<1>3. Launched(s)' /\ Fresh(s)' /\ Single(s)'
  BY <1>1 DEF WorkDone, Moves, Sound, Launched, Fresh, Single, Unsent, Before, Visible, Exists, Stored, Working
<1>4. Caught(s)'
  BY <1>1 DEF WorkDone, Moves, Sound, Caught, Working
<1>7. Saved(s)'
  BY <1>1, RowIs DEF WorkDone, Moves, Sound, Saved, Launched, Unsent, Exists, Stored
<1>5. Owned(s)'
  BY <1>1 DEF WorkDone, Moves, Sound, Owned, Owning, Visible, Lost, Exists, Stored, Working
<1>6. Heeded(s)'
  <2>1. Heeded(s) /\ stage[s][d] \in Working /\ left[s][d] \in Nat
    BY LeftIs DEF WorkDone, Sound, Working
  <2>2. heeded[s] => Ending(s, d) /\ row[s] \in {"cancelled", "failed", "deleted"}
    BY <2>1 DEF Heeded
  <2> QED
    BY <1>1, <2>1, <2>2, HeededMove DEF WorkDone, Ending, Visible, Lost, Exists, Stored, Working
<1> QED
  BY <1>2, <1>3, <1>4, <1>5, <1>6, <1>7 DEF Sound

LEMMA DeniedSound ==
  ASSUME SoundInv, NEW s \in Scans, NEW d \in Deliveries, Denied(s, d)
  PROVE  Sound(s)' /\ \A t \in Scans \ {s} : Same(t)
<1> USE DEF SoundInv
<1>1. /\ Moves(s, d, IF Lost(s, d) THEN "failing" ELSE "tail",
               IF Exists(s) THEN row'[s] ELSE "none", left[s][d])
      /\ row'[s] = IF Exists(s) /\ cache[s][d] # "failed" THEN "failed" ELSE row[s]
      /\ results'[s] = results[s]
  BY PrimitiveEffect DEF Denied, SetStatus, Goto, Moves, other, history, TypeOK
<1>2. \A t \in Scans \ {s} : Same(t)
  BY PrimitiveEffect DEF Denied, SetStatus, Goto, Same, other, history, TypeOK
<1>3. Launched(s)' /\ Fresh(s)' /\ Single(s)'
  BY <1>1 DEF Denied, Moves, Sound, Launched, Fresh, Single, Unsent, Before, Lost, Exists, Stored
<1>4. Caught(s)'
  BY <1>1 DEF Denied, Moves, Sound, Caught
<1>7. Saved(s)'
  BY <1>1, RowIs DEF Denied, Moves, Sound, Saved, Launched, Unsent, Exists, Stored
<1>5. Owned(s)'
  BY <1>1 DEF Denied, Moves, Sound, Owned, Owning, Lost, Exists, Stored
<1>6. Heeded(s)'
  <2>1. Heeded(s) /\ stage[s][d] \in Working
    BY DEF Denied, Sound, Working
  <2>2. heeded[s] => Ending(s, d) /\ stage[s][d] # "begin"
    BY <2>1 DEF Heeded
  <2> QED
    BY <1>1, <2>1, <2>2, HeededMove DEF Denied, Ending, Lost, Exists, Stored
<1> QED
  BY <1>2, <1>3, <1>4, <1>5, <1>6, <1>7 DEF Sound

LEMMA FinishSound ==
  ASSUME SoundInv, NEW s \in Scans, NEW d \in Deliveries, Finish(s, d)
  PROVE  Sound(s)' /\ \A t \in Scans \ {s} : Same(t)
<1> USE DEF SoundInv
<1>1. /\ Moves(s, d, IF Lost(s, d) THEN "failing" ELSE "tail",
               IF Exists(s) THEN row'[s] ELSE "none", left[s][d])
      /\ row'[s] = IF Exists(s) /\ cache[s][d] # "completed" THEN "completed" ELSE row[s]
      /\ results'[s] = results[s]
  BY PrimitiveEffect DEF Finish, SetStatus, Goto, Moves, other, history, TypeOK
<1>2. \A t \in Scans \ {s} : Same(t)
  BY PrimitiveEffect DEF Finish, SetStatus, Goto, Same, other, history, TypeOK
<1>3. Launched(s)' /\ Fresh(s)' /\ Single(s)'
  BY <1>1 DEF Finish, Moves, Sound, Launched, Fresh, Single, Unsent, Before, Lost, Exists, Stored
<1>4. Caught(s)'
  BY <1>1 DEF Finish, Moves, Sound, Caught
<1>7. Saved(s)'
  BY <1>1, RowIs DEF Finish, Moves, Sound, Saved, Launched, Unsent, Exists, Stored
<1>5. Owned(s)'
  BY <1>1 DEF Finish, Moves, Sound, Owned, Owning, Lost, Exists, Stored
<1>6. Heeded(s)'
  <2>1. Heeded(s) /\ stage[s][d] \in Working
    BY DEF Finish, Sound, Working
  <2>2. heeded[s] => Ending(s, d) /\ stage[s][d] # "begin"
    BY <2>1 DEF Heeded
  <2> QED
    BY <1>1, <2>1, <2>2, HeededMove DEF Finish, Ending, Lost, Exists, Stored
<1> QED
  BY <1>2, <1>3, <1>4, <1>5, <1>6, <1>7 DEF Sound

LEMMA BeginSound ==
  ASSUME SoundInv, NEW s \in Scans, NEW d \in Deliveries, Begin(s, d)
  PROVE  Sound(s)' /\ \A t \in Scans \ {s} : Same(t)
<1> USE DEF SoundInv
<1>0. PICK n \in 1..blocks[s] : left' = [left EXCEPT ![s][d] = n]
  BY DEF Begin
<1>1. /\ Moves(s, d, IF Lost(s, d) THEN "failing" ELSE (IF kind[s] = "ping" THEN "loop" ELSE "work"),
               IF Exists(s) THEN row'[s] ELSE "none", n)
      /\ row'[s] = IF Exists(s) /\ cache[s][d] # "running" THEN "running" ELSE row[s]
      /\ results'[s] = results[s]
  BY <1>0, PrimitiveEffect DEF Begin, SetStatus, Goto, Moves, other, history, TypeOK
<1>2. \A t \in Scans \ {s} : Same(t)
  BY <1>0, PrimitiveEffect DEF Begin, SetStatus, Goto, Same, other, history, TypeOK
<1>3. Launched(s)' /\ Fresh(s)' /\ Single(s)'
  BY <1>1 DEF Begin, Moves, Sound, Launched, Fresh, Single, Unsent, Before, Lost, Exists, Stored
<1>4. Caught(s)'
  BY <1>1 DEF Begin, Moves, Sound, Caught
<1>7. Saved(s)'
  BY <1>1, RowIs DEF Begin, Moves, Sound, Saved, Launched, Unsent, Exists, Stored
<1>5. Owned(s)'
  BY <1>1 DEF Begin, Moves, Sound, Owned, Owning, Lost, Exists, Stored
<1>6. Heeded(s)'
  <2>1. Heeded(s) /\ stage[s][d] \in Working
    BY DEF Begin, Sound, Working
  <2>2. heeded[s] => Ending(s, d) /\ stage[s][d] # "begin"
    BY <2>1 DEF Heeded
  <2> QED
    BY <1>1, <2>1, <2>2, HeededMove DEF Begin, Ending, Lost, Exists, Stored
<1> QED
  BY <1>2, <1>3, <1>4, <1>5, <1>6, <1>7 DEF Sound

-----------------------------------------------------------------------------
(* The requests, the broker and the mishaps.                               *)

LEMMA GotoEffect ==
  ASSUME TypeOK, NEW s \in Scans, NEW d \in Deliveries, NEW where, Goto(s, d, where)
  PROVE  /\ stage'[s][d] = where
         /\ \A e \in Deliveries \ {d} : stage'[s][e] = stage[s][e]
         /\ \A t \in Scans \ {s} : stage'[t] = stage[t]
BY DEF TypeOK, Goto

LEMMA EndsEffect ==
  ASSUME TypeOK, NEW s \in Scans, NEW d \in Deliveries, NEW how, Ends(s, d, how)
  PROVE  /\ stage'[s][d] = how /\ cache'[s][d] = "none"
         /\ \A e \in Deliveries \ {d} :
              stage'[s][e] = stage[s][e] /\ cache'[s][e] = cache[s][e] /\ left'[s][e] = left[s][e]
         /\ \A t \in Scans \ {s} : stage'[t] = stage[t] /\ cache'[t] = cache[t] /\ left'[t] = left[t]
BY DEF TypeOK, Ends, Goto

LEMMA RedeliverSound ==
  ASSUME SoundInv, NEW s \in Scans, NEW d \in Deliveries, Redeliver(s, d)
  PROVE  Sound(s)' /\ \A t \in Scans \ {s} : Same(t)
<1> USE DEF SoundInv
<1>0. d \in Nat /\ d - 1 \in Deliveries /\ d - 1 # d
  BY ScanTasksAssumption DEF Redeliver, Deliveries
<1>1. /\ stage'[s][d] = "queued" /\ stage[s][d] = "absent" /\ stage[s][d - 1] = "queued" /\ twice'[s]
      /\ \A e \in Deliveries \ {d} : stage'[s][e] = stage[s][e]
      /\ row' = row /\ launch' = launch /\ revoked' = revoked /\ results' = results
      /\ cache' = cache /\ left' = left /\ hit' = hit /\ heeded' = heeded /\ caught' = caught
  <2>1. twice'[s]
    BY DEF Redeliver, TypeOK
  <2>2. stage'[s][d] = "queued" /\ \A e \in Deliveries \ {d} : stage'[s][e] = stage[s][e]
    BY GotoEffect DEF Redeliver
  <2> QED
    BY <2>1, <2>2 DEF Redeliver
<1>2. \A t \in Scans \ {s} : Same(t)
  <2>1. \A t \in Scans \ {s} : stage'[t] = stage[t]
    BY GotoEffect DEF Redeliver
  <2>2. \A t \in Scans \ {s} : twice'[t] = twice[t]
    BY DEF Redeliver, TypeOK
  <2> QED
    BY <1>1, <2>1, <2>2 DEF Same
<1>3. Launched(s)' /\ Fresh(s)' /\ Single(s)'
  <2>1. Launched(s)'
    BY <1>0, <1>1 DEF Sound, Launched
  <2>2. Fresh(s)'
    <3>1. Fresh(s)
      BY DEF Sound
    <3>2. (\A e \in Deliveries : stage'[s][e] \in Before) => \A e \in Deliveries : stage[s][e] \in Before
      BY <1>1 DEF Before
    <3>3. row[s] \in {"unborn", "pending"} =>
            \A e \in Deliveries : stage'[s][e] \in Before \cup {"failing", "dead"}
      BY <3>1, <1>1 DEF Fresh, Before
    <3> QED
      BY <3>1, <3>2, <3>3, <1>1 DEF Fresh
  <2>3. Single(s)'
    BY <1>1 DEF Single
  <2> QED
    BY <2>1, <2>2, <2>3
<1>4. Caught(s)' /\ Saved(s)'
  BY <1>1 DEF Sound, Caught, Saved
<1>5. Owned(s)'
  BY <1>1 DEF Sound, Owned, Owning
<1>6. Heeded(s)'
  BY <1>0, <1>1 DEF Sound, Heeded
<1> QED
  BY <1>2, <1>3, <1>4, <1>5, <1>6 DEF Sound

LEMMA LoseSound ==
  ASSUME SoundInv, NEW s \in Scans, NEW d \in Deliveries, Lose(s, d)
  PROVE  Sound(s)' /\ \A t \in Scans \ {s} : Same(t)
<1> USE DEF SoundInv
<1>1. /\ stage'[s][d] = "dead" /\ cache'[s][d] = "none" /\ stage[s][d] # "absent"
      /\ \A e \in Deliveries \ {d} :
           stage'[s][e] = stage[s][e] /\ cache'[s][e] = cache[s][e] /\ left'[s][e] = left[s][e]
      /\ row' = row /\ launch' = launch /\ revoked' = revoked /\ results' = results
      /\ hit'[s] /\ twice' = twice /\ heeded' = heeded /\ caught' = caught
  <2>1. stage[s][d] # "absent"
    BY DEF Lose, Working
  <2>2. hit'[s]
    BY DEF Lose, Mishap
  <2>3. /\ stage'[s][d] = "dead" /\ cache'[s][d] = "none"
        /\ \A e \in Deliveries \ {d} :
             stage'[s][e] = stage[s][e] /\ cache'[s][e] = cache[s][e] /\ left'[s][e] = left[s][e]
    BY EndsEffect DEF Lose
  <2> QED
    BY <2>1, <2>2, <2>3 DEF Lose
<1>2. \A t \in Scans \ {s} : Same(t)
  <2>1. \A t \in Scans \ {s} : stage'[t] = stage[t] /\ cache'[t] = cache[t] /\ left'[t] = left[t]
    BY EndsEffect DEF Lose
  <2>2. \A t \in Scans \ {s} : hit'[t] = hit[t]
    BY DEF Lose, Mishap, TypeOK
  <2> QED
    BY <1>1, <2>1, <2>2 DEF Same
<1>3. Launched(s)' /\ Fresh(s)' /\ Single(s)'
  <2>1. stage[s][d] \in Before => row[s] \in {"unborn", "pending", "cancelled", "deleted"} \/
           \E e \in Deliveries \ {d} : stage[s][e] \notin Before
    BY DEF Sound, Fresh
  <2> QED
    BY <1>1, <2>1 DEF Sound, Launched, Fresh, Single, Unsent, Before
<1>4. Caught(s)' /\ Saved(s)'
  BY <1>1 DEF Sound, Caught, Saved
<1>5. Owned(s)'
  BY <1>1 DEF Owned
<1>6. Heeded(s)'
  <2>1. "dead" \notin Working
    BY DEF Working
  <2> QED
    BY <1>1, <2>1 DEF Sound, Heeded, Ending
<1> QED
  BY <1>2, <1>3, <1>4, <1>5, <1>6 DEF Sound

LEMMA CreateSound ==
  ASSUME SoundInv, NEW s \in Scans, NEW k, NEW n, CreateScan(s, k, n)
  PROVE  Sound(s)' /\ \A t \in Scans \ {s} : Same(t)
<1> USE DEF SoundInv
<1>1. /\ row[s] = "unborn" /\ row'[s] = "pending" /\ launch[s] = "none" /\ launch'[s] = "send"
      /\ \A d \in Deliveries : stage[s][d] = "absent"
      /\ revoked[s] = "no"
      /\ UNCHANGED <<revoked, results, stage, cache, left, twice, hit, heeded, caught>>
  BY DEF CreateScan, workVars, history, TypeOK, Sound, Launched, Unsent
<1>2. \A t \in Scans \ {s} : Same(t)
  BY <1>1 DEF CreateScan, Same, TypeOK
<1>3. Launched(s)' /\ Fresh(s)' /\ Single(s)'
  BY <1>1 DEF Sound, Launched, Fresh, Single, Before, Unsent
<1>4. Caught(s)' /\ Saved(s)' /\ Owned(s)'
  BY <1>1 DEF Sound, Caught, Saved, Owned
<1>6. Heeded(s)'
  BY <1>1 DEF Sound, Heeded
<1> QED
  BY <1>2, <1>3, <1>4, <1>6 DEF Sound

LEMMA SendSound ==
  ASSUME SoundInv, NEW s \in Scans, Send(s)
  PROVE  Sound(s)' /\ \A t \in Scans \ {s} : Same(t)
<1> USE DEF SoundInv
<1>0. 1 \in Deliveries /\ Deliveries \subseteq Nat
  BY ScanTasksAssumption DEF Deliveries
<1>1. /\ launch[s] = "send" /\ launch'[s] \in {"task_id", "done"} /\ row[s] # "unborn"
      /\ \A d \in Deliveries : stage[s][d] = "absent"
      /\ stage'[s][1] = "queued" /\ \A d \in Deliveries \ {1} : stage'[s][d] = "absent"
      /\ UNCHANGED <<row, revoked, results, cache, left, twice, hit, heeded, caught>>
  <2>1. launch[s] = "send" /\ row[s] # "unborn" /\ \A d \in Deliveries : stage[s][d] = "absent"
    BY DEF Send, Sound, Launched, Unsent
  <2>2. launch'[s] \in {"task_id", "done"}
    BY DEF Send, TypeOK
  <2>3. stage'[s][1] = "queued" /\ \A d \in Deliveries \ {1} : stage'[s][d] = stage[s][d]
    BY <1>0, GotoEffect DEF Send
  <2> QED
    BY <2>1, <2>2, <2>3 DEF Send, history
<1>2. \A t \in Scans \ {s} : Same(t)
  <2>1. \A t \in Scans \ {s} : stage'[t] = stage[t]
    BY <1>0, GotoEffect DEF Send
  <2>2. \A t \in Scans \ {s} : launch'[t] = launch[t]
    BY DEF Send, TypeOK
  <2> QED
    BY <1>1, <2>1, <2>2 DEF Same
<1>3. Launched(s)' /\ Fresh(s)' /\ Single(s)'
  BY <1>0, <1>1 DEF Sound, Launched, Fresh, Single, Before, Unsent
<1>4. Caught(s)' /\ Saved(s)' /\ Owned(s)'
  BY <1>1 DEF Sound, Caught, Saved, Owned, Owning
<1>6. Heeded(s)'
  BY <1>1 DEF Sound, Heeded, Unsent
<1> QED
  BY <1>2, <1>3, <1>4, <1>6 DEF Sound

LEMMA LaunchSound ==
  ASSUME SoundInv, NEW s \in Scans, WriteTaskId(s) \/ SendFails(s)
  PROVE  Sound(s)' /\ \A t \in Scans \ {s} : Same(t)
<1> USE DEF SoundInv
<1>1. /\ launch[s] \in {"task_id", "send"} /\ launch'[s] = "done" /\ (hit[s] => hit'[s])
      /\ UNCHANGED <<row, revoked, results, stage, cache, left, twice, heeded, caught>>
  BY DEF WriteTaskId, SendFails, Mishap, workVars, history, TypeOK
<1>2. \A t \in Scans \ {s} : Same(t)
  <2>1. \A t \in Scans \ {s} : launch'[t] = launch[t]
    BY DEF WriteTaskId, SendFails, TypeOK
  <2>2. \A t \in Scans \ {s} : hit'[t] = hit[t]
    <3>1. CASE WriteTaskId(s)
      BY <3>1 DEF WriteTaskId, history
    <3>2. CASE SendFails(s)
      BY <3>2 DEF SendFails, Mishap, TypeOK
    <3> QED
      BY <3>1, <3>2
  <2> QED
    BY <1>1, <2>1, <2>2 DEF Same
<1>3. Launched(s)' /\ Fresh(s)' /\ Single(s)'
  BY <1>1 DEF Sound, Launched, Fresh, Single, Unsent
<1>4. Caught(s)' /\ Saved(s)' /\ Owned(s)'
  BY <1>1 DEF Sound, Caught, Saved, Owned
<1>6. Heeded(s)'
  BY <1>1 DEF Sound, Heeded, Ending, Unsent
<1> QED
  BY <1>2, <1>3, <1>4, <1>6 DEF Sound

LEMMA AskSound ==
  ASSUME SoundInv, NEW q \in Requests, NEW s \in Scans, AskStop(q, s) \/ AskDelete(q, s)
  PROVE  Sound(s)' /\ \A t \in Scans \ {s} : Same(t)
<1> USE DEF SoundInv
<1>1. /\ row[s] # "unborn" /\ revoked'[s] \in {"sent", revoked[s]} /\ (revoked[s] = "known" => revoked'[s] = "known")
      /\ UNCHANGED <<row, launch, results, stage, cache, left, twice, hit, heeded, caught>>
  BY DEF AskStop, AskDelete, workVars, history, Exists, Stored, TypeOK
<1>2. \A t \in Scans \ {s} : Same(t)
  BY <1>1 DEF AskStop, AskDelete, Same, TypeOK
<1>3. Launched(s)' /\ Fresh(s)' /\ Single(s)'
  BY <1>1 DEF Sound, Launched, Fresh, Single
<1>4. Caught(s)' /\ Saved(s)' /\ Owned(s)'
  BY <1>1 DEF Sound, Caught, Saved, Owned
<1>6. Heeded(s)'
  BY <1>1 DEF Sound, Heeded, Ending
<1> QED
  BY <1>2, <1>3, <1>4, <1>6 DEF Sound

LEMMA StopSound ==
  ASSUME SoundInv, NEW q \in Requests, Stop(q)
  PROVE  \A s \in Scans : Sound(s)'
<1> USE DEF SoundInv
<1>0. PICK s \in Scans : request[q].scan = s
  BY DEF Stop, TypeOK
<1>1. /\ row'[s] = IF Exists(s) THEN "cancelled" ELSE row[s]
      /\ heeded'[s] = (heeded[s] \/ (Exists(s) /\ StopInTime(s)))
      /\ UNCHANGED <<launch, revoked, results, stage, cache, left, twice, hit, caught>>
  BY <1>0 DEF Stop, TypeOK, workVars
<1>2. \A t \in Scans \ {s} : Same(t)
  BY <1>0, <1>1 DEF Stop, Same, TypeOK
<1>3. Launched(s)' /\ Fresh(s)' /\ Single(s)'
  BY <1>1 DEF Sound, Launched, Fresh, Single, Exists, Stored
<1>4. Caught(s)' /\ Saved(s)' /\ Owned(s)'
  BY <1>1 DEF Sound, Caught, Saved, Owned, Exists, Stored
<1>5. Heeded(s)'
  <2>1. CASE heeded[s]
    BY <1>1, <2>1 DEF Sound, Heeded, Ending, Exists, Stored
  <2>2. CASE Exists(s) /\ StopInTime(s) /\ ~heeded[s]
    <3>1. PICK d \in Deliveries :
            /\ stage[s][d] \in {"loop", "probe"} /\ left[s][d] >= 2
            /\ \A e \in Deliveries \ {d} : stage[s][e] \notin Working \cup {"queued"}
      BY <2>2 DEF StopInTime
    <3>2. row'[s] = "cancelled" /\ heeded'[s]
      BY <1>1, <2>2
    <3>3. launch[s] \notin Unsent
      BY <3>1 DEF Sound, Launched
    <3>4. left[s][d] \in Nat /\ "begin" \in Working
      BY LeftIs DEF Working
    <3>5. Ending(s, d)'
      BY <1>1, <3>1, <3>2, <3>4 DEF Ending
    <3> QED
      BY <1>1, <3>1, <3>2, <3>3, <3>4, <3>5 DEF Heeded
  <2>3. CASE ~heeded[s] /\ ~(Exists(s) /\ StopInTime(s))
    BY <1>1, <2>3 DEF Heeded
  <2> QED
    BY <2>1, <2>2, <2>3
<1> QED
  BY <1>2, <1>3, <1>4, <1>5, SameIsSound DEF Sound

LEMMA DeleteSound ==
  ASSUME SoundInv, NEW q \in Requests, Delete(q)
  PROVE  \A s \in Scans : Sound(s)'
<1> USE DEF SoundInv
<1>0. PICK s \in Scans : request[q].scan = s
  BY DEF Delete, TypeOK
<1>1. /\ row'[s] = "deleted" /\ ~results'[s]
      /\ UNCHANGED <<launch, revoked, stage, cache, left, twice, hit, heeded, caught>>
  BY <1>0 DEF Delete, TypeOK, workVars, history
<1>2. \A t \in Scans \ {s} : Same(t)
  BY <1>0, <1>1 DEF Delete, Same, TypeOK
<1>3. Launched(s)' /\ Fresh(s)' /\ Single(s)'
  BY <1>1 DEF Sound, Launched, Fresh, Single
<1>4. Caught(s)' /\ Saved(s)' /\ Owned(s)'
  BY <1>1 DEF Sound, Caught, Saved, Owned
<1>5. Heeded(s)'
  BY <1>1 DEF Sound, Heeded, Ending
<1> QED
  BY <1>2, <1>3, <1>4, <1>5, SameIsSound DEF Sound

\* Executions that are lost with their process: what it means for one scan.
LEMMA LostSound ==
  ASSUME SoundInv, NEW S, Terminate(S), NEW s \in Scans, s \in S,
         UNCHANGED <<row, launch, results, twice, heeded>>,
         \/ hit'[s]
         \/ revoked'[s] = "known"
         \/ /\ \A d \in Deliveries : stage[s][d] \notin Working
            /\ hit'[s] = hit[s] /\ revoked'[s] = revoked[s],
         row[s] = "unborn" => revoked'[s] = "no",
         caught'[s] => /\ row[s] \in {"pending", "cancelled", "deleted"} /\ revoked'[s] = "known"
                       /\ \A d \in Deliveries : stage[s][d] \in {"absent", "queued", "dead"}
  PROVE  Sound(s)'
<1> USE DEF SoundInv
<1>1. \A d \in Deliveries :
        /\ stage[s][d] \in Working => stage'[s][d] = "dead" /\ cache'[s][d] = "none"
        /\ stage[s][d] \notin Working =>
             stage'[s][d] = stage[s][d] /\ cache'[s][d] = cache[s][d] /\ left'[s][d] = left[s][d]
  BY DEF Terminate
<1>w. /\ {"absent", "queued", "dead"} \cap Working = {} /\ "begin" \in Working
      /\ Owning \subseteq Working /\ "finish" \in Working
  BY DEF Working, Owning
<1>2. Launched(s)'
  BY <1>1, <1>w DEF Sound, Launched
<1>3. Fresh(s)'
  <2>1. (\A d \in Deliveries : stage'[s][d] \in Before) => \A d \in Deliveries : stage[s][d] \in Before
    BY <1>1, <1>w DEF Before
  <2> QED
    BY <1>1, <2>1 DEF Sound, Fresh
<1>4. Single(s)'
  BY <1>1, <1>w DEF Sound, Single
<1>5. Caught(s)'
  BY <1>1, <1>w DEF Caught
<1>6. Saved(s)'
  BY <1>1 DEF Sound, Saved
<1>7. Owned(s)'
  BY <1>1, <1>w DEF Sound, Owned
<1>8. Heeded(s)'
  BY <1>1, <1>w DEF Sound, Heeded
<1> QED
  BY <1>2, <1>3, <1>4, <1>5, <1>6, <1>7, <1>8 DEF Sound

LEMMA RevokeSound ==
  ASSUME SoundInv, NEW s \in Scans, RevokeArrives(s)
  PROVE  Sound(s)' /\ \A t \in Scans \ {s} : Same(t)
<1> USE DEF SoundInv
<1>1. /\ revoked[s] = "sent" /\ revoked'[s] = "known" /\ Terminate({s})
      /\ caught'[s] = (caught[s] \/ \A d \in Deliveries : stage[s][d] \in {"absent", "queued"})
      /\ UNCHANGED <<row, launch, results, twice, hit, heeded>>
  BY DEF RevokeArrives, TypeOK
<1>2. row[s] # "unborn"
  BY <1>1 DEF Sound, Launched
<1>3. caught'[s] => row[s] \in {"pending", "cancelled", "deleted"}
                    /\ \A d \in Deliveries : stage[s][d] \in {"absent", "queued", "dead"}
  BY <1>1, <1>2 DEF Sound, Caught, Fresh, Before
<1>4. Sound(s)'
  BY <1>1, <1>2, <1>3, LostSound
<1>5. \A t \in Scans \ {s} : revoked'[t] = revoked[t] /\ caught'[t] = caught[t]
  BY DEF RevokeArrives, TypeOK
<1>6. \A t \in Scans \ {s}, d \in Deliveries :
        stage'[t][d] = stage[t][d] /\ cache'[t][d] = cache[t][d] /\ left'[t][d] = left[t][d]
  BY <1>1 DEF Terminate
<1> QED
  BY <1>1, <1>4, <1>5, <1>6 DEF Same

LEMMA RestartSound ==
  ASSUME SoundInv, Restart
  PROVE  \A s \in Scans : Sound(s)'
<1> SUFFICES ASSUME NEW s \in Scans PROVE Sound(s)'
  OBVIOUS
<1> USE DEF SoundInv
<1>1. /\ Terminate(Scans) /\ revoked'[s] = "no" /\ ~caught'[s]
      /\ UNCHANGED <<row, launch, results, twice, heeded>>
  BY DEF Restart
<1>2. hit'[s] = (hit[s] \/ revoked[s] # "no" \/ \E d \in Deliveries : stage[s][d] \in Working)
  BY DEF Restart, Mishap, TypeOK
<1>3. hit[s] \in BOOLEAN
  BY DEF TypeOK
<1> QED
  BY <1>1, <1>2, <1>3, LostSound

-----------------------------------------------------------------------------
(* The theorems.                                                           *)

LEMMA SoundStep ==
  ASSUME SoundInv, [Next]_vars
  PROVE  SoundInv'
<1> DEFINE All == \A s \in Scans : Sound(s)'
<1>0. ASSUME NEW s \in Scans, Sound(s)' /\ \A t \in Scans \ {s} : Same(t) PROVE All
  BY <1>0, SameIsSound DEF SoundInv
<1>1. ASSUME NEW s \in Scans, NEW d \in Deliveries, Step(s, d) \/ Raise(s, d) PROVE All
  BY <1>0, <1>1, PickSound, DiscardSound, DeniedSound, BeginSound, CancelledSound, NextBlockSound,
     ProbedSound, WorkDoneSound, SaveSound, FinishSound, TailSound, MarkFailedSound, RaiseSound DEF Step
<1>2. ASSUME NEW s \in Scans, NEW d \in Deliveries, Redeliver(s, d) \/ Lose(s, d) PROVE All
  BY <1>0, <1>2, RedeliverSound, LoseSound
<1>3. ASSUME NEW s \in Scans, Start(s) \/ Rescan(s) PROVE All
  BY <1>0, <1>3, CreateSound DEF Start, Rescan
<1>4. ASSUME NEW s \in Scans, Send(s) \/ WriteTaskId(s) \/ RevokeArrives(s) \/ SendFails(s) PROVE All
  BY <1>0, <1>4, SendSound, LaunchSound, RevokeSound
<1>5. ASSUME NEW q \in Requests, NEW s \in Scans, AskStop(q, s) \/ AskDelete(q, s) PROVE All
  BY <1>0, <1>5, AskSound
<1>6. ASSUME NEW q \in Requests, Stop(q) \/ Delete(q) PROVE All
  BY <1>6, StopSound, DeleteSound
<1>7. ASSUME Restart PROVE All
  BY <1>7, RestartSound
<1>8. ASSUME UNCHANGED vars PROVE All
  <2> SUFFICES ASSUME NEW s \in Scans PROVE Sound(s)'
    OBVIOUS
  <2>1. Same(s)
    BY <1>8 DEF vars, workVars, history, Same
  <2> QED
    BY <2>1, SameIsSound DEF SoundInv
<1>9. TypeOK'
  BY TypeStep DEF SoundInv
<1> QED
  BY <1>1, <1>2, <1>3, <1>4, <1>5, <1>6, <1>7, <1>8, <1>9 DEF Next, SoundInv

\* Any number of scans, deliveries, buttons and mishaps keep the invariant.
THEOREM TasksAreSound == Spec => []SoundInv
<1>1. Init => SoundInv
  <2> SUFFICES ASSUME Init PROVE SoundInv
    OBVIOUS
  <2>1. TypeOK
    BY ScanTasksAssumption DEF Init, TypeOK, Row, Stage, Idle
  <2>2. \A s \in Scans : Launched(s) /\ Fresh(s) /\ Single(s) /\ Caught(s) /\ Saved(s) /\ Owned(s) /\ Heeded(s)
    BY DEF Init, Launched, Fresh, Single, Caught, Saved, Owned, Heeded, Before, Unsent
  <2> QED
    BY <2>1, <2>2 DEF SoundInv, Sound
<1> QED
  BY <1>1, SoundStep, PTL DEF Spec

\* A revoked message never runs, "completed" has its results, and a row is
\* left "running" only by a mishap or a revoke: whatever the deliveries of a
\* message, the buttons and the losses of processes come between.
THEOREM TasksInvariant == Spec => []TaskInv
<1>1. SoundInv => TaskInv
  <2> SUFFICES ASSUME SoundInv PROVE TaskInv
    OBVIOUS
  <2>1. CaughtNeverRuns /\ CompletedHasResults
    BY DEF SoundInv, Sound, Caught, Saved, CaughtNeverRuns, CompletedHasResults
  <2>2. Owning \subseteq Working
    BY DEF Owning, Working
  <2>3. StuckNeedsCause
    BY <2>2 DEF SoundInv, Sound, Owned, StuckNeedsCause, AtWork
  <2> QED
    BY <2>1, <2>3 DEF TaskInv, SoundInv
<1> QED
  BY <1>1, TasksAreSound, PTL

\* A Stop committed with two blocks of a ping scan to begin is not painted over.
THEOREM PingStopIsHonoured == Spec => []PingStopHonoured
<1>1. SoundInv => PingStopHonoured
  BY DEF SoundInv, Sound, Heeded, PingStopHonoured
<1> QED
  BY <1>1, TasksAreSound, PTL

\* Which steps write the row of a scan, and what they find there.
LEMMA RowStep ==
  ASSUME SoundInv, Next, NEW s \in Scans, row'[s] # row[s], ~twice[s]
  PROVE  \/ row[s] = "unborn" /\ row'[s] = "pending"
         \/ row[s] \in {"pending", "cancelled"} /\ row'[s] = "running"
         \/ row[s] \notin {"unborn", "pending", "deleted"} /\ row'[s] = "completed"
         \/ row[s] \notin {"unborn", "deleted"} /\ row'[s] \in {"failed", "cancelled"}
         \/ row'[s] = "deleted"
<1> USE DEF SoundInv
<1>0. row[s] \in Stored \cup {"unborn", "deleted"}
  BY RowIs
<1>r. ASSUME NEW t \in Scans, NEW x, row' = [row EXCEPT ![t] = x]
      PROVE  t = s /\ row'[s] = x
  BY <1>r DEF TypeOK
<1>1. ASSUME NEW t \in Scans, NEW d \in Deliveries, NEW new, NEW where, SetStatus(t, d, new, where)
      PROVE  t = s /\ Exists(s) /\ row'[s] = new
  BY <1>r, <1>1 DEF SetStatus
<1>2. ASSUME NEW t \in Scans, NEW d \in Deliveries, Begin(t, d)
      PROVE  row[s] \in {"pending", "cancelled"} /\ row'[s] = "running"
  <2>1. t = s /\ Exists(s) /\ row'[s] = "running" /\ stage[s][d] = "begin"
    BY <1>1, <1>2 DEF Begin
  <2>2. ~(d > 1)
    BY <2>1 DEF Sound, Single
  <2>3. \A e \in Deliveries : e # d => e > 1
    BY <2>2, ScanTasksAssumption DEF Deliveries
  <2>4. \A e \in Deliveries : stage[s][e] \in Before
    BY <2>1, <2>3 DEF Sound, Single, Before
  <2> QED
    BY <2>1, <2>4 DEF Sound, Fresh, Exists, Stored
<1>3. ASSUME NEW t \in Scans, NEW d \in Deliveries, Finish(t, d)
      PROVE  row[s] \notin {"unborn", "pending", "deleted"} /\ row'[s] = "completed"
  <2>1. t = s /\ Exists(s) /\ row'[s] = "completed" /\ stage[s][d] = "finish"
    BY <1>1, <1>3 DEF Finish
  <2> QED
    BY <2>1 DEF Sound, Fresh, Before, Exists, Stored
<1>4. ASSUME NEW t \in Scans, NEW d \in Deliveries, Denied(t, d) \/ MarkFailed(t, d)
      PROVE  row[s] \notin {"unborn", "deleted"} /\ row'[s] = "failed"
  <2>1. CASE Denied(t, d)
    BY <2>1, <1>1 DEF Denied, Exists, Stored
  <2>2. CASE MarkFailed(t, d)
    BY <2>2, <1>r DEF MarkFailed, Exists, Stored
  <2> QED
    BY <1>4, <2>1, <2>2
<1>5. ASSUME NEW t \in Scans, NEW d \in Deliveries, Step(t, d)
      PROVE  Begin(t, d) \/ Finish(t, d) \/ Denied(t, d) \/ MarkFailed(t, d)
  BY <1>5 DEF Step, Pick, Discard, Cancelled, NextBlock, Probed, WorkDone, Save, Tail, Progress
<1>6. ASSUME NEW t \in Scans, Start(t) \/ Rescan(t)
      PROVE  row[s] = "unborn" /\ row'[s] = "pending"
  <2>1. PICK k, n : CreateScan(t, k, n)
    BY <1>6 DEF Start, Rescan
  <2> QED
    BY <2>1, <1>r DEF CreateScan
<1>7. ASSUME NEW q \in Requests, Stop(q) \/ Delete(q)
      PROVE  \/ row[s] \notin {"unborn", "deleted"} /\ row'[s] = "cancelled"
             \/ row'[s] = "deleted"
  <2>1. PICK t \in Scans : request[q].scan = t
    BY <1>7 DEF Stop, Delete, TypeOK
  <2>2. CASE Stop(q)
    BY <2>1, <2>2, <1>r DEF Stop, Exists, Stored
  <2>3. CASE Delete(q)
    BY <2>1, <2>3, <1>r DEF Delete
  <2> QED
    BY <1>7, <2>2, <2>3
<1> QED
  BY <1>2, <1>3, <1>4, <1>5, <1>6, <1>7
     DEF Next, Send, WriteTaskId, RevokeArrives, SendFails, Raise, Redeliver, Lose, AskStop, AskDelete, Restart

\* The row of a scan lives the life of ScanRow as long as its message is
\* delivered once.
THEOREM RowIsScanRow == Spec => RowLife
<1>1. Init => \A s \in Scans : Life(s)!Init
  BY DEF Init, Life!Init
<1>2. ASSUME SoundInv, [Next]_vars
      PROVE  [\A s \in Scans : Life(s)!Next \/ row'[s] = row[s] \/ twice[s]
                \/ (row[s] = "unborn" /\ row'[s] = "pending")]_row
  <2> SUFFICES ASSUME NEW s \in Scans, row' # row, row'[s] # row[s], ~twice[s],
                      ~(row[s] = "unborn" /\ row'[s] = "pending")
               PROVE  Life(s)!Next
    OBVIOUS
  <2>1. Next
    BY <1>2 DEF vars
  <2>2. \/ row[s] \in {"pending", "cancelled"} /\ row'[s] = "running"
        \/ row[s] \notin {"unborn", "pending", "deleted"} /\ row'[s] = "completed"
        \/ row[s] \notin {"unborn", "deleted"} /\ row'[s] \in {"failed", "cancelled"}
        \/ row'[s] = "deleted"
    BY <1>2, <2>1, RowStep
  <2> QED
    BY <2>2 DEF Life!Next, Life!Begin, Life!Complete, Life!Fail, Life!Stop, Life!Delete
<1> QED
  BY <1>1, <1>2, TasksAreSound, PTL DEF Spec, RowLife

-----------------------------------------------------------------------------
(* The safety half of ComesToRest: no execution turns in circles, whatever *)
(* is redelivered, stopped, lost or restarted.                             *)

\* How far an execution has come.
Order(where) ==
  CASE where = "absent" -> 0 [] where = "queued" -> 1 [] where = "begin" -> 2
    [] where = "loop" -> 3 [] where = "probe" -> 3 [] where = "work" -> 3
    [] where = "save" -> 4 [] where = "finish" -> 5 [] where = "tail" -> 6
    [] where = "failing" -> 7 [] OTHER -> 8

Stands(s, d) == stage'[s][d] = stage[s][d] /\ left'[s][d] = left[s][d]

\* It comes further, or goes once more through the loop of a ping scan, with a block less to begin.
Onward(s, d) ==
  \/ Order(stage'[s][d]) > Order(stage[s][d])
  \/ /\ stage[s][d] = "loop" /\ stage'[s][d] = "probe"
     /\ left[s][d] > 0 /\ left'[s][d] = left[s][d] - 1
  \/ stage[s][d] = "probe" /\ stage'[s][d] = "loop" /\ left'[s][d] = left[s][d]

\* Whatever happens, an execution stands still or goes onward.
TasksAdvance == [][\A s \in Scans, d \in Deliveries : Stands(s, d) \/ Onward(s, d)]_vars

LEMMA StepOnward ==
  ASSUME SoundInv, NEW s \in Scans, NEW d \in Deliveries,
         Step(s, d) \/ Raise(s, d) \/ Redeliver(s, d) \/ Lose(s, d)
  PROVE  /\ Onward(s, d)
         /\ \A e \in Deliveries \ {d} : Stands(s, e)
         /\ \A v \in Scans \ {s} : stage'[v] = stage[v] /\ left'[v] = left[v]
<1> USE DEF SoundInv
<1>g. ASSUME NEW where, Goto(s, d, where)
      PROVE  /\ stage'[s][d] = where
             /\ \A e \in Deliveries \ {d} : stage'[s][e] = stage[s][e]
             /\ \A v \in Scans \ {s} : stage'[v] = stage[v]
  BY <1>g, GotoEffect
<1>l. ASSUME NEW n, left' = [left EXCEPT ![s][d] = n] \/ left' = left
      PROVE  /\ \A e \in Deliveries \ {d} : left'[s][e] = left[s][e]
             /\ \A v \in Scans \ {s} : left'[v] = left[v]
  BY <1>l DEF TypeOK
<1>1. \/ Pick(s, d) \/ Discard(s, d) \/ Denied(s, d) \/ Begin(s, d) \/ Cancelled(s, d)
      \/ NextBlock(s, d) \/ Probed(s, d) \/ WorkDone(s, d) \/ Save(s, d) \/ Finish(s, d)
      \/ Tail(s, d) \/ MarkFailed(s, d) \/ Raise(s, d) \/ Redeliver(s, d) \/ Lose(s, d)
  BY DEF Step
<1>2. \A e \in Deliveries \ {d} : Stands(s, e)
  <2>1. \E where : Goto(s, d, where)
    BY <1>1, Zenon DEF Pick, Discard, Denied, Begin, Cancelled, NextBlock, Probed, WorkDone, Save,
       Finish, Tail, MarkFailed, Raise, Redeliver, Lose, SetStatus, Progress, Ends
  <2>2. (\E n : left' = [left EXCEPT ![s][d] = n]) \/ left' = left
    BY <1>1, Zenon DEF Pick, Discard, Denied, Begin, Cancelled, NextBlock, Probed, WorkDone, Save,
       Finish, Tail, MarkFailed, Raise, Redeliver, Lose, Ends
  <2> QED
    BY <2>1, <2>2, <1>g, <1>l DEF Stands
<1>3. \A v \in Scans \ {s} : stage'[v] = stage[v] /\ left'[v] = left[v]
  <2>1. \E where : Goto(s, d, where)
    BY <1>1, Zenon DEF Pick, Discard, Denied, Begin, Cancelled, NextBlock, Probed, WorkDone, Save,
       Finish, Tail, MarkFailed, Raise, Redeliver, Lose, SetStatus, Progress, Ends
  <2>2. (\E n : left' = [left EXCEPT ![s][d] = n]) \/ left' = left
    BY <1>1, Zenon DEF Pick, Discard, Denied, Begin, Cancelled, NextBlock, Probed, WorkDone, Save,
       Finish, Tail, MarkFailed, Raise, Redeliver, Lose, Ends
  <2> QED
    BY <2>1, <2>2, <1>g, <1>l
<1>4. \A where : Goto(s, d, where) => stage'[s][d] = where
  BY <1>g
<1>5. CASE Pick(s, d) \/ Discard(s, d) \/ Redeliver(s, d)
  BY <1>4, <1>5, <1>2, <1>3 DEF Pick, Discard, Redeliver, Onward, Order
<1>6. CASE Denied(s, d) \/ Begin(s, d) \/ Finish(s, d)
  BY <1>4, <1>6, <1>2, <1>3 DEF Denied, Begin, Finish, SetStatus, Onward, Order
<1>7. CASE Cancelled(s, d) \/ Tail(s, d) \/ MarkFailed(s, d)
  BY <1>4, <1>7, <1>2, <1>3 DEF Cancelled, Tail, MarkFailed, Ends, Onward, Order
<1>8. CASE NextBlock(s, d)
  <2>1. left'[s][d] = left[s][d] - 1
    BY <1>8 DEF NextBlock, TypeOK
  <2> QED
    BY <1>4, <1>8, <2>1, <1>2, <1>3 DEF NextBlock, Progress, Onward, Order
<1>9. CASE Probed(s, d) \/ WorkDone(s, d) \/ Save(s, d)
  BY <1>4, <1>9, <1>2, <1>3 DEF Probed, WorkDone, Save, Progress, Onward, Order
<1>10. CASE Raise(s, d) \/ Lose(s, d)
  BY <1>4, <1>10, <1>2, <1>3 DEF Raise, Lose, Ends, Working, Onward, Order
<1> QED
  BY <1>1, <1>5, <1>6, <1>7, <1>8, <1>9, <1>10

\* No execution turns in circles, for any number of scans, blocks, deliveries, requests and
\* mishaps.
THEOREM TasksDoAdvance == Spec => TasksAdvance
<1>1. ASSUME SoundInv, [Next]_vars, NEW s \in Scans, NEW d \in Deliveries
      PROVE  Stands(s, d) \/ Onward(s, d)
  <2> USE <1>1 DEF SoundInv
  <2>1. ASSUME NEW v \in Scans, NEW e \in Deliveries,
               Step(v, e) \/ Raise(v, e) \/ Redeliver(v, e) \/ Lose(v, e)
        PROVE  Stands(s, d) \/ Onward(s, d)
    BY <2>1, StepOnward DEF Stands
  <2>2. ASSUME NEW v \in Scans, Send(v)
        PROVE  Stands(s, d) \/ Onward(s, d)
    <3>1. 1 \in Deliveries /\ stage[v][1] = "absent"
      BY <2>2, ScanTasksAssumption DEF Send, Sound, Launched, Unsent, Deliveries
    <3>2. /\ stage'[v][1] = "queued" /\ left' = left
          /\ \A e \in Deliveries \ {1} : stage'[v][e] = stage[v][e]
          /\ \A u \in Scans \ {v} : stage'[u] = stage[u]
      BY <2>2, <3>1, GotoEffect DEF Send
    <3> QED
      BY <3>1, <3>2 DEF Stands, Onward, Order
  <2>3. ASSUME NEW S, Terminate(S)
        PROVE  Stands(s, d) \/ Onward(s, d)
    <3>1. stage'[s][d] = IF s \in S /\ stage[s][d] \in Working THEN "dead" ELSE stage[s][d]
      BY <2>3 DEF Terminate
    <3>2. left'[s][d] = IF s \in S /\ stage[s][d] \in Working THEN 0 ELSE left[s][d]
      BY <2>3 DEF Terminate
    <3> QED
      BY <3>1, <3>2 DEF Stands, Onward, Order, Working
  <2>4. CASE stage' = stage /\ left' = left
    BY <2>4 DEF Stands
  <2>5. CASE UNCHANGED vars
    BY <2>4, <2>5 DEF vars, workVars
  <2>6. ASSUME NEW v \in Scans, Start(v) \/ Rescan(v) \/ WriteTaskId(v) \/ SendFails(v)
        PROVE  stage' = stage /\ left' = left
    BY <2>6 DEF Start, Rescan, CreateScan, WriteTaskId, SendFails, workVars
  <2>7. ASSUME NEW q \in Requests, \/ Stop(q) \/ Delete(q)
                                   \/ \E v \in Scans : AskStop(q, v) \/ AskDelete(q, v)
        PROVE  stage' = stage /\ left' = left
    BY <2>7 DEF Stop, Delete, AskStop, AskDelete, workVars
  <2>8. ASSUME NEW v \in Scans, RevokeArrives(v)
        PROVE  Stands(s, d) \/ Onward(s, d)
    BY <2>3, <2>8 DEF RevokeArrives
  <2>9. CASE Restart
    BY <2>3, <2>9 DEF Restart
  <2> QED
    BY <2>1, <2>2, <2>4, <2>5, <2>6, <2>7, <2>8, <2>9 DEF Next
<1>2. SoundInv /\ [Next]_vars =>
        \A s \in Scans, d \in Deliveries : Stands(s, d) \/ Onward(s, d)
  BY <1>1
<1> QED
  BY <1>2, TasksAreSound, PTL DEF Spec, TasksAdvance

=============================================================================
