---------------------------- MODULE ResultProofs ----------------------------
(***************************************************************************)
(* What becomes of the results of scans, whichever way their workers and   *)
(* the analysts interleave.                                                *)
(*                                                                         *)
(* The completion mail of a batch that is complete before it starts and    *)
(* that nobody stops goes out once at most, and after every other member   *)
(* has returned, however many members, failures and crashes there are.     *)
(*                                                                         *)
(* The life cycle of a vulnerability keeps what it promises for any number *)
(* of scans and triage requests, and what it takes to break it is a        *)
(* transaction that another one crossed, or a host that another scan       *)
(* reached.                                                                *)
(*                                                                         *)
(* An audit tells what the device shows: the findings, the compliance rows *)
(* and the weaknesses of the device agree for every plan of every door,    *)
(* and no verdict rests on a fact that was not read.                       *)
(***************************************************************************)
EXTENDS BatchNotify, VulnSync, HostChecks, SequenceTheorems, TLAPS

----------------------------------------------------------------------------
(* The completion mail *)

\* The invariant holds before the wizard has created a member.
LEMMA InitMail == BatchInit => MailInv
<1> SUFFICES ASSUME BatchInit PROVE MailInv
  OBVIOUS
<1>1. \A m \in Members : worker[m] = "absent" /\ status[m] = "absent"
  BY DEF BatchInit
<1>2. BatchTypeOK
  <2>1. status \in [Members -> MemberStatus] /\ worker \in [Members -> Stage]
    BY DEF BatchInit, MemberStatus, Stage
  <2>2. seen \in [Members -> BOOLEAN]
    BY Zenon DEF BatchInit
  <2>3. stops \in 0..MaxStops /\ losses \in 0..MaxLosses
    BY BatchAssumption DEF BatchInit
  <2> QED
    BY <2>1, <2>2, <2>3 DEF BatchInit, BatchTypeOK
<1>3. Claims
  BY <1>1 DEF BatchInit, Claims, Terminal
<1>4. Delivery
  <2>1. PICK m \in Members : worker[m] \in OnTheWay
    BY <1>1, BatchAssumption DEF OnTheWay
  <2> QED
    BY <2>1, <1>1 DEF BatchInit, Delivery, Terminal
<1> QED
  BY <1>2, <1>3, <1>4 DEF MailInv

\* Types are kept by every step, Stops and late members included.
LEMMA BatchStepType == BatchTypeOK /\ [BatchNext]_batchVars => BatchTypeOK'
<1> SUFFICES ASSUME BatchTypeOK, [BatchNext]_batchVars PROVE BatchTypeOK'
  OBVIOUS
<1>t. MaxLosses \in Nat /\ MaxStops \in Nat
  BY BatchAssumption
<1>1. CASE UNCHANGED batchVars
  BY <1>1 DEF BatchTypeOK, batchVars
<1>2. ASSUME NEW m \in Members, Create(m) PROVE BatchTypeOK'
  <2>1. joined' \in BOOLEAN
    BY <1>2, Zenon DEF Create, BatchTypeOK
  <2> QED
    BY <2>1, <1>2 DEF Create, Goto, BatchTypeOK, MemberStatus, Stage
<1>3. ASSUME NEW m \in Members, Claim(m) PROVE BatchTypeOK'
  <2>1. early' \in BOOLEAN
    BY <1>3, Zenon DEF Claim, BatchTypeOK
  <2> QED
    BY <2>1, <1>3 DEF Claim, Goto, BatchTypeOK, Stage, Hook
<1>4. ASSUME NEW m \in Members, ReadBatch(m) \/ EnterHook(m) PROVE BatchTypeOK'
  BY <1>4 DEF ReadBatch, EnterHook, Goto, BatchTypeOK, Stage, Hook
<1>7. ASSUME NEW m \in Members, ReadMembers(m) PROVE BatchTypeOK'
  <2>1. met' \in BOOLEAN
    BY <1>7, Zenon DEF ReadMembers, BatchTypeOK
  <2> QED
    BY <2>1, <1>7 DEF ReadMembers, Goto, BatchTypeOK, Stage, Hook
<1>5. ASSUME NEW m \in Members, StartMember(m) \/ Send(m) \/ Finish(m) PROVE BatchTypeOK'
  BY <1>5 DEF StartMember, Send, Finish, Goto, BatchTypeOK, Stage, Hook, MemberStatus, Terminal
<1>6. ASSUME NEW m \in Members, Fail(m) \/ HookError(m) \/ Crash(m) \/ Stop(m) PROVE BatchTypeOK'
  BY <1>6, <1>t DEF Fail, HookError, Crash, Stop, Goto, BatchTypeOK, Stage, MemberStatus, Terminal
<1> QED
  BY <1>1, <1>2, <1>3, <1>4, <1>5, <1>6, <1>7 DEF BatchNext, Step

\* A step that leaves the batch undisturbed keeps what the claims rest on.
LEMMA StepClaims ==
  ASSUME BatchTypeOK, Claims, Undisturbed, Undisturbed', [BatchNext]_batchVars
  PROVE  Claims'
<1>1. CASE UNCHANGED batchVars
  BY <1>1 DEF Claims, batchVars
<1>2. CASE BatchNext
  <2>1. PICK m \in Members : Step(m)
    BY <1>2 DEF BatchNext
  <2>2. CASE Create(m)
    <3>1. \A n \in Members : worker[n] \in {"absent", "queued"}
      BY <2>2, Zenon DEF Create, Undisturbed, BatchTypeOK
    <3>2. \A n \in Members : worker'[n] \in {"absent", "queued"}
      BY <3>1, <2>2 DEF Create, Goto, BatchTypeOK
    <3> QED
      BY <3>1, <3>2, <2>2 DEF Create, Goto, Claims, BatchTypeOK, Terminal
  <2>3. CASE StartMember(m)
    BY <2>3 DEF StartMember, Goto, Claims, BatchTypeOK, Terminal
  <2>4. CASE EnterHook(m)
    <3>1. status[m] # "cancelled"
      BY <2>4 DEF EnterHook, Claims, Terminal
    <3> QED
      BY <3>1, <2>4 DEF EnterHook, Goto, Claims, BatchTypeOK, Terminal
  <2>5. CASE ReadBatch(m)
    BY <2>5 DEF ReadBatch, Goto, Claims, BatchTypeOK, Terminal
  <2>6. CASE ReadMembers(m)
    BY <2>6 DEF ReadMembers, OthersTerminal, Goto, Claims, BatchTypeOK, Terminal
  <2>7. CASE Claim(m)
    <3>1. \A n \in Members \ {m} : worker[n] \in {"absent", "done"}
      BY <2>7 DEF Claim, Claims
    <3>2. mails = {} /\ mails' = {} /\ ~early'
      BY <3>1, <2>7 DEF Claim, Claims
    <3>3. \A n \in Members : worker'[n] = IF n = m THEN "send" ELSE worker[n]
      BY <2>7 DEF Claim, Goto, BatchTypeOK
    <3> QED
      BY <3>1, <3>2, <3>3, <2>7 DEF Claim, Claims, Terminal
  <2>8. CASE Send(m)
    <3>1. mails = {} /\ mails' = {m} /\ notified
      BY <2>8 DEF Send, Claims
    <3>2. \A n \in Members : worker'[n] = IF n = m THEN "finish" ELSE worker[n]
      BY <2>8 DEF Send, Goto, BatchTypeOK
    <3>3. \A n \in Members \ {m} : worker[n] \in {"absent", "done"}
      BY <2>8 DEF Send, Claims
    <3> QED
      BY <3>1, <3>2, <3>3, <2>8 DEF Send, Claims, Terminal
  <2>9. CASE Finish(m)
    BY <2>9 DEF Finish, Goto, Claims, BatchTypeOK, Terminal
  <2>10. CASE Fail(m) \/ HookError(m) \/ Crash(m)
    BY <2>10 DEF Fail, HookError, Crash, Goto, Claims, BatchTypeOK, Terminal, Hook
  <2>11. CASE Stop(m)
    BY <2>11 DEF Stop, Undisturbed, BatchTypeOK
  <2> QED
    BY <2>1, <2>2, <2>3, <2>4, <2>5, <2>6, <2>7, <2>8, <2>9, <2>10, <2>11 DEF Step
<1> QED
  BY <1>1, <1>2

\* Neither a Stop nor a loss ever happened before a state where none has.
LEMMA Unharmed ==
  ASSUME BatchTypeOK, [BatchNext]_batchVars, stops' = 0, losses' = 0
  PROVE  stops = 0 /\ losses = 0
  BY BatchAssumption DEF BatchTypeOK, BatchNext, Step, batchVars, Create, StartMember, EnterHook,
     ReadBatch, ReadMembers, Claim, Send, Finish, Fail, HookError, Crash, Stop

\* While hooks do not cross, the one that reads the members and does not claim
\* leaves behind a member that has not reached its hook yet.
LEMMA StepDelivery ==
  ASSUME BatchTypeOK, Delivery, stops = 0, losses = 0, stops' = 0, losses' = 0, [BatchNext]_batchVars
  PROVE  Delivery'
<1> USE DEF Delivery, BatchTypeOK, Terminal, OnTheWay
<1>1. CASE UNCHANGED batchVars
  BY <1>1 DEF batchVars
<1>2. CASE BatchNext
  <2>1. PICK m \in Members : Step(m)
    BY <1>2 DEF BatchNext
  <2>2. CASE Create(m) \/ StartMember(m) \/ ReadBatch(m)
    BY <2>2 DEF Create, StartMember, ReadBatch, Goto
  <2>3. CASE EnterHook(m)
    BY <2>3 DEF EnterHook, Goto
  <2>4. CASE ReadMembers(m)
    <3>1. CASE worker'[m] = "claim" \/ met' \/ notified
      BY <2>4, <3>1 DEF ReadMembers, Goto
    <3>2. CASE worker'[m] # "claim" /\ ~met' /\ ~notified
      <4>1. ~OthersTerminal(m) /\ ~met
        BY <2>4, <3>2 DEF ReadMembers, Goto
      <4>2. PICK n \in Members \ {m} : status[n] \notin Terminal \cup {"absent"}
        BY <4>1 DEF OthersTerminal
      <4>3. worker[n] \notin Hook \cup {"finish"}
        BY <2>4, <3>2 DEF ReadMembers
      <4>4. worker[n] \in {"queued", "scanning"}
        BY <4>2, <4>3 DEF Stage, Hook
      <4> QED
        BY <4>4, <2>4 DEF ReadMembers, Goto
    <3> QED
      BY <3>1, <3>2
  <2>5. CASE Claim(m)
    BY <2>5 DEF Claim, Goto
  <2>6. CASE Send(m) \/ Finish(m)
    BY <2>6 DEF Send, Finish, Goto
  <2>7. CASE Fail(m) \/ HookError(m) \/ Crash(m) \/ Stop(m)
    BY <2>7, BatchAssumption DEF Fail, HookError, Crash, Stop
  <2> QED
    BY <2>1, <2>2, <2>3, <2>4, <2>5, <2>6, <2>7 DEF Step
<1> QED
  BY <1>1, <1>2

\* A disturbance is never forgotten.
LEMMA Disturbed == BatchTypeOK /\ [BatchNext]_batchVars /\ Undisturbed' => Undisturbed
  BY BatchAssumption DEF BatchTypeOK, BatchNext, Step, Undisturbed, batchVars, Create, StartMember, EnterHook,
     ReadBatch, ReadMembers, Claim, Send, Finish, Fail, HookError, Crash, Stop

\* The inductive invariant holds for any number of members, Stops and losses.
THEOREM MailInvariant == BatchSpec => []MailInv
<1>1. MailInv /\ [BatchNext]_batchVars => MailInv'
  BY BatchStepType, StepClaims, Disturbed, StepDelivery, Unharmed DEF MailInv
<1> QED
  BY InitMail, <1>1, PTL DEF BatchSpec

\* The mail of a batch that nobody stops or adds to while it runs goes out once
\* at most, and after every other member has returned.
THEOREM OneTimely == BatchSpec => []OneTimelyMail
<1>1. MailInv => OneTimelyMail
  BY DEF MailInv, Claims, OneTimelyMail, AtMostOneMail, MailMeansAllAtRest
<1> QED
  BY MailInvariant, <1>1, PTL

\* A batch whose members all came to their end is silent only for a cause.
THEOREM SilenceHasCause == BatchSpec => []SilenceNeedsCause
<1>1. MailInv => SilenceNeedsCause
  BY DEF MailInv, Delivery, OnTheWay, SilenceNeedsCause
<1> QED
  BY MailInvariant, <1>1, PTL

----------------------------------------------------------------------------
(* The life of a vulnerability *)

\* A transaction's write yields a row of the right type.
LEMMA WriteType ==
  ASSUME SyncTypeOK, NEW s \in Scans, row # Absent
  PROVE  Sighting(s) \in Vuln
<1>1. row \in Vuln /\ par[s] \in Params /\ view[s] \in Vuln \cup {Absent}
  BY DEF SyncTypeOK, Tx
<1> QED
  BY <1>1 DEF Sighting, Column, Params, Vuln, Status

LEMMA AbsentIsNoRow == Absent \notin Vuln
BY DEF Absent, Vuln, Status, Triage

\* What a commit does to the history and to the session that ends with it.
LEMMA CommitType ==
  ASSUME SyncTypeOK, NEW t \in Tx, Commit(t)
  PROVE  /\ crossed' \in [Tx -> BOOLEAN] /\ mixed' \in BOOLEAN /\ helped' = helped
         /\ view' \in [Tx -> Vuln \cup {Absent}]
<1>1. crossed' \in [Tx -> BOOLEAN] /\ mixed' \in BOOLEAN
  BY Zenon DEF SyncTypeOK, Commit
<1> QED
  BY <1>1 DEF SyncTypeOK, Commit

\* Types are preserved, and rows stay, however transactions overlap.
LEMMA SyncStepType == SyncTypeOK /\ RowStays /\ [SyncNext]_syncVars => SyncTypeOK' /\ RowStays'
<1> SUFFICES ASSUME SyncTypeOK, RowStays, [SyncNext]_syncVars PROVE SyncTypeOK' /\ RowStays'
  OBVIOUS
<1>1. CASE UNCHANGED syncVars
  BY <1>1 DEF syncVars, history, SyncTypeOK, RowStays
<1>2. ASSUME NEW s \in Scans, Start(s) PROVE SyncTypeOK' /\ RowStays'
  <2>1. SyncTypeOK'
    BY <1>2 DEF Start, history, SyncTypeOK, Tx, Params
  <2>2. RowStays'
    BY <1>2, SyncAssumption DEF Start, SyncTypeOK, RowStays, Tx
  <2> QED
    BY <2>1, <2>2
<1>3. ASSUME NEW s \in Scans, Reach(s) PROVE SyncTypeOK' /\ RowStays'
  <2>1. bumped' \in [Scans -> BOOLEAN] /\ helped' \in [Scans -> BOOLEAN]
    <3>1. \A r \in Scans : (bumped[r] \/ stage[r] \in {"active", "open"}) \in BOOLEAN
      BY Zenon DEF SyncTypeOK
    <3>2. \A r \in Scans :
            (helped[r] \/ (r # s /\ stage[r] \in {"active", "open"})) \in BOOLEAN
      BY Zenon DEF SyncTypeOK
    <3> QED
      BY <3>1, <3>2, <1>3, Zenon DEF Reach
  <2> QED
    BY <2>1, <1>3 DEF Reach, SyncTypeOK, RowStays
<1>4. ASSUME NEW s \in Scans, ReadSync(s) PROVE SyncTypeOK' /\ RowStays'
  <2>1. SyncTypeOK'
    BY <1>4 DEF ReadSync, history, SyncTypeOK, Tx
  <2>2. RowStays'
    BY <1>4, SyncAssumption DEF ReadSync, SyncTypeOK, RowStays, Tx
  <2> QED
    BY <2>1, <2>2
<1>5. ASSUME NEW s \in Scans, Sees(s) PROVE SyncTypeOK' /\ RowStays'
  <2>1. par[s] \in Params /\ row \in Vuln \cup {Absent}
    BY DEF SyncTypeOK
  <2>2. row' \in Vuln
    <3>1. CASE view[s] = Absent
      <4>1. Fresh(s) \in Vuln
        BY <2>1 DEF Fresh, Params, Vuln, Status
      <4> QED
        BY <3>1, <4>1, <2>1, <1>5 DEF Sees
    <3>2. CASE view[s] # Absent
      BY <3>2, <1>5, WriteType DEF Sees, RowStays, Tx
    <3> QED
      BY <3>1, <3>2
  <2>3. stage' \in [Tx -> {"new", "active", "open", "done", "failed"}]
    BY <1>5 DEF Sees, SyncTypeOK, Tx
  <2>4. SyncTypeOK'
    BY <2>2, <2>3, <1>5, CommitType DEF Sees, SyncTypeOK, Tx
  <2>5. RowStays'
    BY <2>2, AbsentIsNoRow, <1>5, SyncAssumption DEF Sees, Commit, SyncTypeOK, RowStays, Tx
  <2> QED
    BY <2>4, <2>5
<1>6. ASSUME NEW s \in Scans, Misses(s) PROVE SyncTypeOK' /\ RowStays'
  <2>1. row' \in Vuln \/ row' = row
    <3>1. CASE Resolvable(s)
      <4>1. row \in Vuln
        BY <3>1 DEF Resolvable, Absent, RowStays, SyncTypeOK, Tx
      <4>2. row' = [row EXCEPT !.status = "resolved", !.resolvedAt = TRUE]
        BY <3>1, <1>6 DEF Misses
      <4> QED
        BY <4>1, <4>2 DEF Vuln, Status
    <3> QED
      BY <3>1, <1>6 DEF Misses
  <2>2. SyncTypeOK'
    BY <2>1, <1>6, CommitType DEF Misses, SyncTypeOK, Tx
  <2>3. RowStays'
    BY <2>1, AbsentIsNoRow, <1>6, SyncAssumption DEF Misses, Commit, SyncTypeOK, RowStays, Tx
  <2> QED
    BY <2>2, <2>3
<1>7. ASSUME NEW a \in Analysts, ReadTriage(a) PROVE SyncTypeOK' /\ RowStays'
  <2>1. SyncTypeOK'
    BY <1>7 DEF ReadTriage, history, SyncTypeOK, Tx
  <2>2. RowStays'
    BY <1>7 DEF ReadTriage, SyncTypeOK, RowStays, Tx
  <2> QED
    BY <2>1, <2>2
<1>8. ASSUME NEW a \in Analysts, WriteTriage(a) PROVE SyncTypeOK' /\ RowStays'
  <2>1. row \in Vuln /\ view[a] \in Vuln /\ new[a] \in Status
    BY <1>8 DEF WriteTriage, RowStays, SyncTypeOK, Tx
  <2>2. row' \in Vuln
    BY <2>1, <1>8 DEF WriteTriage, Column, Vuln
  <2>3. SyncTypeOK'
    BY <2>2, <1>8, CommitType DEF WriteTriage, SyncTypeOK, Tx
  <2>4. RowStays'
    BY <2>2, AbsentIsNoRow, <1>8 DEF WriteTriage, Commit, SyncTypeOK, RowStays, Tx
  <2> QED
    BY <2>3, <2>4
<1> QED
  BY <1>1, <1>2, <1>3, <1>4, <1>5, <1>6, <1>7, <1>8 DEF SyncNext

\* A commit crosses every open transaction whose row it changes.
LEMMA CommitHolds ==
  ASSUME SyncTypeOK, ReadsHold, NEW t \in Tx, Commit(t), stage[t] = "open",
         NEW out \in {"done", "failed"}, stage' = [stage EXCEPT ![t] = out],
         out = "failed" => crossed[t]
  PROVE  ReadsHold'
<1>1. crossed[t] => crossed'[t]
  BY DEF Commit
<1>2. ASSUME NEW u \in Tx \ {t}
      PROVE  /\ stage'[u] = stage[u] /\ view'[u] = view[u]
             /\ crossed[u] => crossed'[u]
             /\ stage[u] = "open" /\ ~crossed'[u] => row' = row
  <2>1. stage'[u] = stage[u] /\ view'[u] = view[u]
    BY DEF Commit, SyncTypeOK
  <2>2. crossed'[u] = (crossed[u] \/ (u # t /\ stage[u] = "open" /\ row' # row))
    BY DEF Commit
  <2> QED
    BY <2>1, <2>2
<1>3. \A u \in Tx : stage'[u] = "open" /\ ~crossed'[u] => view'[u] = row'
  BY <1>2 DEF ReadsHold, SyncTypeOK
<1>4. \A u \in Tx : stage'[u] = "failed" => crossed'[u]
  BY <1>1, <1>2 DEF ReadsHold, SyncTypeOK
<1> QED
  BY <1>3, <1>4 DEF ReadsHold

\* An open transaction that nobody crossed still holds the row.
LEMMA StepReads ==
  ASSUME SyncTypeOK, RowStays, ReadsHold, [SyncNext]_syncVars
  PROVE  ReadsHold'
<1>1. CASE UNCHANGED syncVars
  BY <1>1 DEF syncVars, history, ReadsHold
<1>2. ASSUME NEW s \in Scans, Start(s) \/ Reach(s) PROVE ReadsHold'
  BY <1>2 DEF Start, Reach, history, ReadsHold, SyncTypeOK, Tx
<1>3. ASSUME NEW s \in Scans, ReadSync(s) PROVE ReadsHold'
  BY <1>3 DEF ReadSync, history, ReadsHold, SyncTypeOK, Tx
<1>4. ASSUME NEW a \in Analysts, ReadTriage(a) PROVE ReadsHold'
  BY <1>4 DEF ReadTriage, history, ReadsHold, SyncTypeOK, Tx
<1>5. ASSUME NEW s \in Scans, Sees(s) PROVE ReadsHold'
  <2>1. view[s] = Absent /\ row # Absent => crossed[s]
    BY <1>5 DEF Sees, ReadsHold, Tx
  <2> QED
    BY <2>1, <1>5, CommitHolds DEF Sees, Tx
<1>6. ASSUME NEW s \in Scans, Misses(s) PROVE ReadsHold'
  BY <1>6, CommitHolds DEF Misses, Tx
<1>7. ASSUME NEW a \in Analysts, WriteTriage(a) PROVE ReadsHold'
  BY <1>7, CommitHolds DEF WriteTriage, Tx
<1> QED
  BY <1>1, <1>2, <1>3, <1>4, <1>5, <1>6, <1>7 DEF SyncNext

\* Status and date are written together by a transaction nobody crossed.
LEMMA StepDate ==
  ASSUME SyncTypeOK, RowStays, ReadsHold, ~mixed => ResolvedAtMatches, [SyncNext]_syncVars
  PROVE  ~mixed' => ResolvedAtMatches'
<1>1. CASE UNCHANGED syncVars
  BY <1>1 DEF syncVars, history, ResolvedAtMatches
<1>2. ASSUME NEW s \in Scans, Start(s) \/ Reach(s) \/ ReadSync(s)
      PROVE  ~mixed' => ResolvedAtMatches'
  BY <1>2 DEF Start, Reach, ReadSync, history, ResolvedAtMatches
<1>3. ASSUME NEW a \in Analysts, ReadTriage(a)
      PROVE  ~mixed' => ResolvedAtMatches'
  BY <1>3 DEF ReadTriage, history, ResolvedAtMatches
<1>4. ASSUME NEW t \in Tx, Commit(t), stage[t] = "open", ~mixed', row' # row
      PROVE  view[t] = row /\ ResolvedAtMatches
  BY <1>4 DEF Commit, ReadsHold
<1>5. ASSUME NEW s \in Scans, Sees(s), ~mixed', row' # row
      PROVE  ResolvedAtMatches'
  <2>1. view[s] = row /\ ResolvedAtMatches
    BY <1>4, <1>5 DEF Sees, Tx
  <2>2. CASE row = Absent
    BY <2>1, <2>2, <1>5 DEF Sees, Fresh, ResolvedAtMatches
  <2>3. CASE row # Absent
    <3>1. row' = Sighting(s) /\ row \in Vuln
      BY <2>1, <2>3, <1>5 DEF Sees, SyncTypeOK
    <3> QED
      BY <3>1, <2>1 DEF Sighting, Column, ResolvedAtMatches, Vuln
  <2> QED
    BY <2>2, <2>3
<1>6. ASSUME NEW s \in Scans, Misses(s), row' # row
      PROVE  ResolvedAtMatches'
  BY <1>6 DEF Misses, ResolvedAtMatches, SyncTypeOK, Vuln, Absent
<1>7. ASSUME NEW a \in Analysts, WriteTriage(a), ~mixed', row' # row
      PROVE  ResolvedAtMatches'
  <2>1. view[a] = row /\ ResolvedAtMatches /\ row \in Vuln
    BY <1>4, <1>7 DEF WriteTriage, RowStays, SyncTypeOK, Tx
  <2> QED
    BY <2>1, <1>7 DEF WriteTriage, Column, ResolvedAtMatches, Vuln
<1>8. ~mixed' => ~mixed
  BY DEF SyncNext, syncVars, history, Start, Reach, ReadSync, Sees, Misses, ReadTriage, WriteTriage, Commit
<1> QED
  BY <1>1, <1>2, <1>3, <1>5, <1>6, <1>7, <1>8 DEF SyncNext, ResolvedAtMatches

\* A scan the host did not answer sees last_seen move only by another scan.
LEMMA StepReached ==
  ASSUME SyncTypeOK, ReachedInv, [SyncNext]_syncVars
  PROVE  ReachedInv'
<1>1. CASE UNCHANGED syncVars
  BY <1>1 DEF syncVars, history, ReachedInv
<1>2. ASSUME NEW s \in Scans, Start(s) PROVE ReachedInv'
  BY <1>2 DEF Start, history, ReachedInv, SyncTypeOK, Tx
<1>3. ASSUME NEW s \in Scans, Reach(s) PROVE ReachedInv'
  BY <1>3 DEF Reach, ReachedInv, SyncTypeOK, Tx
<1>4. ASSUME NEW s \in Scans, ReadSync(s) PROVE ReachedInv'
  BY <1>4 DEF ReadSync, history, ReachedInv, SyncTypeOK, Tx
<1>5. ASSUME NEW s \in Scans, Sees(s) \/ Misses(s) PROVE ReachedInv'
  BY <1>5 DEF Sees, Misses, Commit, ReachedInv, SyncTypeOK, Tx
<1>6. ASSUME NEW a \in Analysts, ReadTriage(a) \/ WriteTriage(a) PROVE ReachedInv'
  BY <1>6, SyncAssumption DEF ReadTriage, WriteTriage, Commit, history, ReachedInv, SyncTypeOK, Tx
<1> QED
  BY <1>1, <1>2, <1>3, <1>4, <1>5, <1>6 DEF SyncNext

\* The invariant of the run, for any number of scans and triage requests.
THEOREM SyncInvariant == SyncSpec => []SyncInv
<1>1. SyncInit => SyncInv
  <2> SUFFICES ASSUME SyncInit PROVE SyncInv
    OBVIOUS
  <2>1. bumped \in [Scans -> BOOLEAN] /\ helped \in [Scans -> BOOLEAN]
        /\ crossed \in [Tx -> BOOLEAN]
    BY Zenon DEF SyncInit
  <2>2. par \in [Scans -> Params]
    BY DEF SyncInit, Params, Domain, Rank, Report
  <2>3. row \in Vuln \cup {Absent}
    BY DEF SyncInit, Settled
  <2>4. SyncTypeOK
    BY <2>1, <2>2, <2>3 DEF SyncInit, SyncTypeOK, Status
  <2>5. ReadsHold /\ ReachedInv
    BY DEF SyncInit, ReadsHold, ReachedInv, Tx
  <2>6. ResolvedAtMatches
    BY DEF SyncInit, Settled, ResolvedAtMatches, Absent
  <2>7. RowStays
    BY DEF SyncInit, RowStays, Tx
  <2> QED
    BY <2>4, <2>5, <2>6, <2>7 DEF SyncInv
<1>2. SyncInv /\ [SyncNext]_syncVars => SyncInv'
  BY SyncStepType, StepReads, StepReached, StepDate DEF SyncInv
<1> QED
  BY <1>1, <1>2, PTL DEF SyncSpec

\* A sync that nobody crossed keeps what an analyst has decided and reopens
\* what it finds again.
THEOREM PromisesKept == SyncSpec => SyncKeepsPromises
<1> DEFINE Decided == row.status \in Triage /\ row'.status # row.status =>
                        \/ \E a \in Analysts : WriteTriage(a)
                        \/ \E s \in Scans : crossed[s] /\ (Sees(s) \/ Misses(s))
           Reopened == \A s \in Scans : Sees(s) /\ row'.status = "resolved" => crossed[s]
<1>1. SyncInv /\ SyncNext => Decided
  <2> SUFFICES ASSUME SyncInv, SyncNext, row.status \in Triage, row'.status # row.status
               PROVE  \/ \E a \in Analysts : WriteTriage(a)
                      \/ \E s \in Scans : crossed[s] /\ (Sees(s) \/ Misses(s))
    OBVIOUS
  <2>t. SyncTypeOK /\ ReadsHold /\ row # Absent /\ row \in Vuln
    BY DEF SyncInv, SyncTypeOK, Triage, Absent
  <2>1. ASSUME NEW s \in Scans, Sees(s), ~crossed[s] PROVE FALSE
    <3>1. view[s] = row
      BY <2>1, <2>t DEF Sees, ReadsHold, Tx
    <3>2. row' = Sighting(s)
      BY <3>1, <2>1, <2>t DEF Sees
    <3> QED
      BY <3>1, <3>2, <2>t DEF Sighting, Vuln, Triage
  <2>2. ASSUME NEW s \in Scans, Misses(s), ~crossed[s] PROVE FALSE
    <3>1. view[s] = row
      BY <2>2, <2>t DEF Misses, ReadsHold, Tx
    <3> QED
      BY <3>1, <2>2 DEF Misses, Resolvable, Triage
  <2> QED
    BY <2>1, <2>2 DEF SyncNext, Start, Reach, ReadSync, ReadTriage
<1>2. SyncInv => Reopened
  <2> SUFFICES ASSUME SyncInv, NEW s \in Scans, Sees(s), ~crossed[s]
               PROVE  row'.status # "resolved"
    OBVIOUS
  <2>1. view[s] = row /\ SyncTypeOK
    BY DEF SyncInv, ReadsHold, Sees, Tx
  <2>2. CASE row = Absent
    BY <2>1, <2>2 DEF Sees, Fresh
  <2>3. CASE row # Absent
    BY <2>1, <2>3 DEF Sees, Sighting, SyncTypeOK, Vuln
  <2> QED
    BY <2>2, <2>3
<1>3. SyncInv /\ [SyncNext]_syncVars => [Decided /\ Reopened]_syncVars
  BY <1>1, <1>2
<1> QED
  BY SyncInvariant, <1>3, PTL DEF SyncSpec, SyncKeepsPromises

\* Without the help of another scan nothing is resolved on a host that did not
\* answer.
THEOREM ClosedHostsStay == SyncSpec => ResolvedOnlyIfReached
<1>1. SyncInv /\ [SyncNext]_syncVars =>
        [\A s \in Scans : Resolves(s) /\ par[s].report = "down" => helped[s]]_syncVars
  <2> SUFFICES ASSUME SyncInv, NEW s \in Scans, Resolves(s), par[s].report = "down"
               PROVE  helped[s]
    OBVIOUS
  <2>1. Resolvable(s)
    BY DEF Resolves, Misses
  <2> QED
    BY <2>1 DEF SyncInv, ReachedInv, Resolvable, Covered
<1> QED
  BY SyncInvariant, <1>1, PTL DEF SyncSpec, ResolvedOnlyIfReached

----------------------------------------------------------------------------
(* Host checks: plans *)

\* The probes of two plans, one after the other.
LEMMA ProbesConcat ==
  ASSUME NEW S, NEW s \in Seq(SUBSET S), NEW t \in Seq(SUBSET S)
  PROVE  s \o t \in Seq(SUBSET S) /\ ProbesOf(s \o t) = ProbesOf(s) \cup ProbesOf(t)
<1>1. /\ s \o t \in Seq(SUBSET S) /\ Len(s \o t) = Len(s) + Len(t)
      /\ \A i \in 1..Len(s) + Len(t) : (s \o t)[i] = IF i <= Len(s) THEN s[i] ELSE t[i - Len(s)]
  BY ConcatProperties
<1>2. /\ DOMAIN s = 1..Len(s) /\ DOMAIN t = 1..Len(t) /\ DOMAIN (s \o t) = 1..Len(s) + Len(t)
      /\ Len(s) \in Nat /\ Len(t) \in Nat
  BY <1>1
<1>3. \A i \in DOMAIN s : i \in DOMAIN (s \o t) /\ (s \o t)[i] = s[i]
  BY <1>1, <1>2
<1>4. \A i \in DOMAIN t : Len(s) + i \in DOMAIN (s \o t) /\ (s \o t)[Len(s) + i] = t[i]
  BY <1>1, <1>2
<1>5. \A i \in DOMAIN (s \o t) : (s \o t)[i] \in {s[j] : j \in DOMAIN s} \cup {t[j] : j \in DOMAIN t}
  BY <1>1, <1>2
<1> QED
  BY <1>1, <1>3, <1>4, <1>5 DEF ProbesOf

\* A plan of no probe asks nothing.
LEMMA NoProbes == \A S : <<>> \in Seq(SUBSET S) /\ ProbesOf(<<>>) = {}
BY DEF ProbesOf

\* A plan and what it asks, of which nothing but what is asked matters.
IsPlan(s, S) == s \in Seq(SUBSET S) /\ ProbesOf(s) = S

\* A plan is one over every larger set of facts.
LEMMA PlanWidens ==
  ASSUME NEW S, NEW T, NEW s, IsPlan(s, S), S \subseteq T
  PROVE  s \in Seq(SUBSET T)
BY DEF IsPlan

\* Two plans run one after the other ask what the two ask.
LEMMA PlanJoins ==
  ASSUME NEW S, NEW T, NEW s, NEW t, IsPlan(s, S), IsPlan(t, T)
  PROVE  IsPlan(s \o t, S \cup T)
<1>1. s \in Seq(SUBSET (S \cup T)) /\ t \in Seq(SUBSET (S \cup T))
  BY PlanWidens
<1>2. s \o t \in Seq(SUBSET (S \cup T)) /\ ProbesOf(s \o t) = ProbesOf(s) \cup ProbesOf(t)
  BY <1>1, ProbesConcat
<1> QED
  BY <1>2 DEF IsPlan

\* The plan of no probe, as a plan.
LEMMA EmptyPlan == IsPlan(<<>>, {})
BY NoProbes DEF IsPlan

\* The probes of two plans, by their places.
LEMMA PlanPlaces ==
  ASSUME NEW S, NEW T, NEW s, NEW t, IsPlan(s, S), IsPlan(t, T)
  PROVE  /\ Len(s \o t) = Len(s) + Len(t) /\ Len(s) \in Nat /\ Len(t) \in Nat
         /\ DOMAIN s = 1..Len(s) /\ DOMAIN t = 1..Len(t) /\ DOMAIN (s \o t) = 1..Len(s) + Len(t)
         /\ \A i \in 1..Len(s) + Len(t) : (s \o t)[i] = IF i <= Len(s) THEN s[i] ELSE t[i - Len(s)]
<1>1. s \in Seq(SUBSET (S \cup T)) /\ t \in Seq(SUBSET (S \cup T))
  BY PlanWidens
<1> QED
  BY <1>1, ConcatProperties

\* A fact is asked by one probe at most, at a known place.
AskedAt(s, x, k) == \A i \in DOMAIN s : x \in s[i] => i = k

\* A fact the second plan does not ask keeps its place.
LEMMA PlanKeepsPlace ==
  ASSUME NEW S, NEW T, NEW s, NEW t, IsPlan(s, S), IsPlan(t, T), NEW x, x \notin ProbesOf(t),
         NEW k, AskedAt(s, x, k)
  PROVE  AskedAt(s \o t, x, k)
<1>1. /\ Len(s \o t) = Len(s) + Len(t) /\ Len(s) \in Nat /\ Len(t) \in Nat
      /\ DOMAIN s = 1..Len(s) /\ DOMAIN t = 1..Len(t) /\ DOMAIN (s \o t) = 1..Len(s) + Len(t)
      /\ \A i \in 1..Len(s) + Len(t) : (s \o t)[i] = IF i <= Len(s) THEN s[i] ELSE t[i - Len(s)]
  BY PlanPlaces
<1>2. \A i \in DOMAIN t : x \notin t[i]
  BY DEF ProbesOf
<1>3. ASSUME NEW i \in DOMAIN (s \o t), x \in (s \o t)[i]
      PROVE  i = k
  <2>1. CASE i <= Len(s)
    BY <2>1, <1>1, <1>3 DEF AskedAt
  <2>2. CASE i > Len(s)
    BY <2>2, <1>1, <1>2, <1>3
  <2> QED
    BY <2>1, <2>2, <1>1
<1> QED
  BY <1>3 DEF AskedAt

\* The facts an audit of a file server asks for, by its options.
SmbAsked(g) ==
  ({"signing", "smb1", "null", "anonshares", "guest", "guestlist"}
     \cup (IF "creds" \in g THEN {"login", "list"} ELSE {}))
    \cup (IF "words" \in g THEN {"share", "hidden"} ELSE {})

\* What the audit of a file server asks.
LEMMA SmbLaw == ASSUME NEW g PROVE IsPlan(SmbPlan(g), SmbAsked(g))
<1> DEFINE A == << {"signing"}, {"smb1"}, {"null", "anonshares"}, {"guest", "guestlist"} >>
           B == IF "creds" \in g THEN << {"login", "list"} >> ELSE <<>>
           C == IF "words" \in g THEN << {"share", "hidden"} >> ELSE <<>>
           SA == {"signing", "smb1", "null", "anonshares", "guest", "guestlist"}
           SB == IF "creds" \in g THEN {"login", "list"} ELSE {}
           SC == IF "words" \in g THEN {"share", "hidden"} ELSE {}
<1>1. IsPlan(A, SA)
  BY DEF IsPlan, ProbesOf
<1>2. IsPlan(<< {"login", "list"} >>, {"login", "list"})
      /\ IsPlan(<< {"share", "hidden"} >>, {"share", "hidden"})
  BY DEF IsPlan, ProbesOf
<1>3. IsPlan(B, SB) /\ IsPlan(C, SC)
  BY <1>2, EmptyPlan
<1>4. SmbPlan(g) = (A \o B) \o C
  <2>1. SmbPlan(g) = A \o B \o C
    BY DEF SmbPlan
  <2> QED
    BY <2>1
<1> HIDE DEF A, B, C
<1>5. IsPlan(A \o B, SA \cup SB)
  BY <1>1, <1>3, PlanJoins
<1>6. IsPlan((A \o B) \o C, (SA \cup SB) \cup SC)
  BY <1>5, <1>3, PlanJoins
<1> QED
  BY <1>4, <1>6 DEF SmbAsked

\* What the audit of a directory asks, with and without credentials.
LEMMA LdapLaw ==
  ASSUME NEW g
  PROVE  IsPlan(LdapPlan(g),
                {"rootdse", "starttls", "bind", "search", "ldaps"}
                  \cup IF "creds" \in g THEN {"shortpw", "nolock"} ELSE {})
<1> DEFINE A == << {"rootdse", "starttls"}, {"bind", "search", "rootdse", "starttls"}, {"ldaps"} >>
           B == << {"shortpw", "nolock", "rootdse", "starttls"} >>
<1>1. IsPlan(A, {"rootdse", "starttls", "bind", "search", "ldaps"})
  BY DEF IsPlan, ProbesOf
<1>2. IsPlan(B, {"shortpw", "nolock", "rootdse", "starttls"})
  BY DEF IsPlan, ProbesOf
<1>3. LdapPlan(g) = A \o (IF "creds" \in g THEN B ELSE <<>>)
  BY DEF LdapPlan
<1> HIDE DEF A, B
<1>4. CASE "creds" \in g
  <2>1. LdapPlan(g) = A \o B
    BY <1>3, <1>4
  <2>2. IsPlan(A \o B, {"rootdse", "starttls", "bind", "search", "ldaps"} \cup
                       {"shortpw", "nolock", "rootdse", "starttls"})
    BY <1>1, <1>2, PlanJoins
  <2>3. {"rootdse", "starttls", "bind", "search", "ldaps"} \cup
           {"shortpw", "nolock", "rootdse", "starttls"}
         = {"rootdse", "starttls", "bind", "search", "ldaps"} \cup {"shortpw", "nolock"}
    OBVIOUS
  <2> QED
    BY <2>1, <2>2, <2>3, <1>4
<1>5. CASE "creds" \notin g
  <2>1. LdapPlan(g) = A \o <<>>
    BY <1>3, <1>5
  <2>2. IsPlan(A \o <<>>, {"rootdse", "starttls", "bind", "search", "ldaps"} \cup {})
    BY <1>1, EmptyPlan, PlanJoins
  <2> QED
    BY <2>1, <2>2, <1>5
<1> QED
  BY <1>4, <1>5

\* What the Telnet audit asks, with and without credentials.
LEMMA TelnetLaw ==
  ASSUME NEW g
  PROVE  IsPlan(TelnetPlan(g),
                {"banner"} \cup IF "creds" \in g THEN {"config"} \cup ConfigChecks ELSE {})
<1>1. IsPlan(<< {"banner"} >>, {"banner"})
  BY DEF IsPlan, ProbesOf
<1>2. IsPlan(<< {"config"} \cup ConfigChecks >>, {"config"} \cup ConfigChecks)
  BY DEF IsPlan, ProbesOf
<1>3. CASE "creds" \in g
  <2>1. TelnetPlan(g) = << {"banner"} >> \o << {"config"} \cup ConfigChecks >>
    BY <1>3 DEF TelnetPlan
  <2> QED
    BY <2>1, <1>1, <1>2, <1>3, PlanJoins
<1>4. CASE "creds" \notin g
  <2>1. TelnetPlan(g) = << {"banner"} >> \o <<>>
    BY <1>4 DEF TelnetPlan
  <2>2. IsPlan(<< {"banner"} >> \o <<>>, {"banner"} \cup {})
    BY <1>1, EmptyPlan, PlanJoins
  <2> QED
    BY <2>1, <2>2, <1>4
<1> QED
  BY <1>3, <1>4

\* What the audits ask whose plan is always the same.
LEMMA FlatPlans ==
  /\ IsPlan(CiscoPlan, {"config"} \cup CiscoChecks)
  /\ IsPlan(EsxiPlan, {"vmware", "version", "mob", "weaktls"})
  /\ IsPlan(PgPlan, {"nossl", "nolog", "md5"})
  /\ IsPlan(MysqlPlan, {"notls", "infile", "native"})
  /\ IsPlan(MssqlPlan, {"xpcmd", "ole", "clr", "mixed"})
  /\ IsPlan(OraclePlan, {"osauth", "dictionary", "sql92", "caseless"})
  /\ IsPlan(SnmpPlan, {"known2c", "known1", "own2c", "own1"})
  /\ IsPlan(RpcPlan, {"pipe", "mapper"})
  /\ IsPlan(NetPlan, Exposed)
  /\ IsPlan(DirPlan, {"catchall", "dir"})
  /\ IsPlan(TlsPlan, TlsFacts \cup {"tls10"})
  /\ IsPlan(ActivePlan, {"xss", "sqli", "redirect", "lfi", "listing"})
<1>1. IsPlan(CiscoPlan, {"config"} \cup CiscoChecks)
  BY DEF IsPlan, ProbesOf, CiscoPlan
<1>2. IsPlan(EsxiPlan, {"vmware", "version", "mob", "weaktls"})
  BY DEF IsPlan, ProbesOf, EsxiPlan
<1>3. IsPlan(PgPlan, {"nossl", "nolog", "md5"})
  BY DEF IsPlan, ProbesOf, PgPlan
<1>4. IsPlan(MysqlPlan, {"notls", "infile", "native"})
  BY DEF IsPlan, ProbesOf, MysqlPlan
<1>5. IsPlan(MssqlPlan, {"xpcmd", "ole", "clr", "mixed"})
  BY DEF IsPlan, ProbesOf, MssqlPlan
<1>6. IsPlan(OraclePlan, {"osauth", "dictionary", "sql92", "caseless"})
  BY DEF IsPlan, ProbesOf, OraclePlan
<1>7. IsPlan(SnmpPlan, {"known2c", "known1", "own2c", "own1"})
  BY DEF IsPlan, ProbesOf, SnmpPlan
<1>8. IsPlan(RpcPlan, {"pipe", "mapper"})
  BY DEF IsPlan, ProbesOf, RpcPlan
<1>9. IsPlan(NetPlan, Exposed)
  BY DEF IsPlan, ProbesOf, NetPlan, Exposed
<1>10. IsPlan(DirPlan, {"catchall", "dir"})
  BY DEF IsPlan, ProbesOf, DirPlan
<1>11. IsPlan(TlsPlan, TlsFacts \cup {"tls10"})
  BY DEF IsPlan, ProbesOf, TlsPlan
<1>12. IsPlan(ActivePlan, {"xss", "sqli", "redirect", "lfi", "listing"})
  BY DEF IsPlan, ProbesOf, ActivePlan
<1> QED
  BY <1>1, <1>2, <1>3, <1>4, <1>5, <1>6, <1>7, <1>8, <1>9, <1>10, <1>11, <1>12

\* What the SSH audit asks, with and without an escalation attempt.
LEMMA SshLaw ==
  ASSUME NEW g
  PROVE  IsPlan(SshPlan(g),
                {"kernel", "packages", "suid", "caps", "cron"} \cup SshControls \cup AuthControls
                  \cup IF "attempt" \in g THEN {"isroot", "escalates"} ELSE {})
<1> DEFINE A == << {"kernel"}, {"packages"}, {"rootlogin"}, {"emptypw"}, {"sticky"}, {"emptyssh"},
                   {"maxauth"}, {"updates"}, {"nopasswd"}, {"writable"} >>
           B == << {"isroot", "escalates"} >>
           S == {"kernel", "packages"} \cup SshControls \cup AuthControls
<1>1. IsPlan(A, S)
  <2>1. A \in Seq(SUBSET S)
    BY DEF SshControls, AuthControls
  <2>2. ProbesOf(A) = S
    BY DEF ProbesOf, SshControls, AuthControls
  <2> QED
    BY <2>1, <2>2 DEF IsPlan
<1>2. IsPlan(PrivescPlan, {"suid", "caps", "cron"})
  BY DEF IsPlan, ProbesOf, PrivescPlan
<1>3. IsPlan(B, {"isroot", "escalates"})
  BY DEF IsPlan, ProbesOf
<1>4. SshPlan(g) = (A \o PrivescPlan) \o (IF "attempt" \in g THEN B ELSE <<>>)
  BY DEF SshPlan
<1> HIDE DEF A, B, S
<1>5. IsPlan(A \o PrivescPlan, S \cup {"suid", "caps", "cron"})
  BY <1>1, <1>2, PlanJoins
<1>6. IsPlan(SshPlan(g), (S \cup {"suid", "caps", "cron"})
                           \cup IF "attempt" \in g THEN {"isroot", "escalates"} ELSE {})
  BY <1>3, <1>4, <1>5, EmptyPlan, PlanJoins
<1>7. S \cup {"suid", "caps", "cron"}
        = {"kernel", "packages", "suid", "caps", "cron"} \cup SshControls \cup AuthControls
  BY DEF S
<1> QED
  BY <1>6, <1>7

\* What the WinRM audit asks.
LEMMA WinLaw == IsPlan(WinPlan, WinControls \cup {"privileges", "elevated", "unquoted"})
<1> DEFINE A == << {"smb1"}, {"defender"}, {"firewall"}, {"nla"}, {"autologon"}, {"admins"} >>
<1>1. IsPlan(A, WinControls)
  BY DEF IsPlan, ProbesOf, WinControls
<1>2. IsPlan(WinPrivescPlan, {"privileges", "elevated", "unquoted"})
  BY DEF IsPlan, ProbesOf, WinPrivescPlan
<1>3. WinPlan = A \o WinPrivescPlan
  BY DEF WinPlan
<1> QED
  BY <1>1, <1>2, <1>3, PlanJoins

DirFacts    == {"catchall", "dir"}
ActiveFacts == {"xss", "sqli", "redirect", "lfi", "listing"}

\* What a web scan asks under its options, and where it asks it: each fact of
\* an active probe has one probe of its own.
LEMMA WebLaw ==
  ASSUME NEW g
  PROVE  /\ IsPlan(WebPlan(g),
                   PageFacts \cup {"path"}
                     \cup (IF "dirs" \in g THEN DirFacts ELSE {})
                     \cup (IF "https" \in g THEN TlsFacts \cup {"tls10"} ELSE {})
                     \cup (IF "aggressive" \in g THEN ActiveFacts ELSE {}))
         /\ AskedAt(WebPlan(g), "catchall", 3) /\ AskedAt(WebPlan(g), "dir", 4)
<1> DEFINE A == << PageFacts, {"path"} >>
           D == IF "dirs" \in g THEN DirPlan ELSE <<>>
           T == IF "https" \in g THEN TlsPlan ELSE <<>>
           V == IF "aggressive" \in g THEN ActivePlan ELSE <<>>
           SD == IF "dirs" \in g THEN DirFacts ELSE {}
           ST == IF "https" \in g THEN TlsFacts \cup {"tls10"} ELSE {}
           SV == IF "aggressive" \in g THEN ActiveFacts ELSE {}
<1>1. IsPlan(A, PageFacts \cup {"path"})
  BY DEF IsPlan, ProbesOf
<1>2. IsPlan(D, SD) /\ IsPlan(T, ST) /\ IsPlan(V, SV)
  BY FlatPlans, EmptyPlan DEF DirFacts, ActiveFacts
<1>3. WebPlan(g) = ((A \o D) \o T) \o V
  BY DEF WebPlan
<1>4. /\ \A i \in DOMAIN A : A[i] \cap DirFacts = {}
      /\ Len(A) = 2 /\ A \in Seq(SUBSET (PageFacts \cup {"path"}))
  BY DEF PageFacts, DirFacts
<1>5. AskedAt(D, "catchall", 1) /\ AskedAt(D, "dir", 2)
  BY DEF DirPlan, AskedAt
<1>6. \A x \in DirFacts : x \notin ProbesOf(T) /\ x \notin ProbesOf(V)
  BY <1>2 DEF IsPlan, TlsFacts, ActiveFacts, DirFacts
<1> HIDE DEF A, D, T, V, SD, ST, SV
<1>7. IsPlan(A \o D, (PageFacts \cup {"path"}) \cup SD)
  BY <1>1, <1>2, PlanJoins
<1>8. IsPlan((A \o D) \o T, ((PageFacts \cup {"path"}) \cup SD) \cup ST)
  BY <1>7, <1>2, PlanJoins
<1>9. IsPlan(WebPlan(g), (((PageFacts \cup {"path"}) \cup SD) \cup ST) \cup SV)
  BY <1>3, <1>8, <1>2, PlanJoins
<1>10. AskedAt((A \o D), "catchall", 3) /\ AskedAt((A \o D), "dir", 4)
  <2>1. /\ Len(A \o D) = Len(A) + Len(D) /\ Len(D) \in Nat /\ DOMAIN D = 1..Len(D)
        /\ DOMAIN A = 1..Len(A) /\ DOMAIN (A \o D) = 1..Len(A) + Len(D)
        /\ \A i \in 1..Len(A) + Len(D) : (A \o D)[i] = IF i <= Len(A) THEN A[i] ELSE D[i - Len(A)]
    BY <1>1, <1>2, PlanPlaces
  <2> QED
    BY <2>1, <1>4, <1>5 DEF DirFacts, AskedAt
<1>11. AskedAt(((A \o D) \o T), "catchall", 3) /\ AskedAt(((A \o D) \o T), "dir", 4)
  <2> DEFINE AD == A \o D
  <2>1. /\ "catchall" \notin ProbesOf(T) /\ "dir" \notin ProbesOf(T)
        /\ IsPlan(AD, (PageFacts \cup {"path"}) \cup SD) /\ IsPlan(T, ST)
        /\ AskedAt(AD, "catchall", 3)
        /\ AskedAt(AD, "dir", 4)
    BY <1>10, <1>2, <1>7, <1>6 DEF DirFacts
  <2> HIDE DEF AD
  <2>2. AskedAt((AD \o T), "catchall", 3)
    BY <2>1, PlanKeepsPlace
  <2>3. AskedAt((AD \o T), "dir", 4)
    BY <2>1, PlanKeepsPlace
  <2> QED
    BY <2>2, <2>3 DEF AD
<1>12. AskedAt(WebPlan(g), "catchall", 3) /\ AskedAt(WebPlan(g), "dir", 4)
  <2> DEFINE ADT == (A \o D) \o T
  <2>1. /\ "catchall" \notin ProbesOf(V) /\ "dir" \notin ProbesOf(V)
        /\ IsPlan(ADT, ((PageFacts \cup {"path"}) \cup SD) \cup ST) /\ IsPlan(V, SV)
        /\ AskedAt(ADT, "catchall", 3)
        /\ AskedAt(ADT, "dir", 4)
        /\ WebPlan(g) = ADT \o V
    BY <1>11, <1>2, <1>3, <1>8, <1>6 DEF DirFacts
  <2> HIDE DEF ADT
  <2>2. AskedAt((ADT \o V), "catchall", 3)
    BY <2>1, PlanKeepsPlace
  <2>3. AskedAt((ADT \o V), "dir", 4)
    BY <2>1, PlanKeepsPlace
  <2> QED
    BY <2>1, <2>2, <2>3
<1> QED
  BY <1>9, <1>12 DEF SD, ST, SV

----------------------------------------------------------------------------
(* Host checks: doors *)

\* Every plan is a sequence of probes, and asks for facts of its door only.
LEMMA PlanLaw ==
  ASSUME NEW d \in Doors, NEW g
  PROVE  /\ IsPlan(Plan(d, g), ProbesOf(Plan(d, g)))
         /\ g \subseteq Options(d) => ProbesOf(Plan(d, g)) \subseteq Facts(d)
<1> DEFINE Law(p) == IsPlan(p, ProbesOf(p))
<1>0. Facts(d) = ProbesOf(Plan(d, Options(d))) \cup (IF d = "telnet" THEN {"telnet"} ELSE {})
  BY DEF Facts
<1>1. CASE d = "ldap"
  <2>1. Plan(d, g) = LdapPlan(g) /\ Plan(d, Options(d)) = LdapPlan(Options(d))
    BY <1>1 DEF Plan
  <2>2. Law(LdapPlan(g))
    BY LdapLaw DEF IsPlan
  <2>3. g \subseteq Options(d) => ProbesOf(LdapPlan(g)) \subseteq ProbesOf(LdapPlan(Options(d)))
    BY LdapLaw DEF IsPlan
  <2> QED
    BY <2>1, <2>2, <2>3, <1>0
<1>2. CASE d = "telnet"
  <2>1. Plan(d, g) = TelnetPlan(g) /\ Plan(d, Options(d)) = TelnetPlan(Options(d))
    BY <1>2 DEF Plan
  <2>2. Law(TelnetPlan(g))
    BY TelnetLaw DEF IsPlan
  <2>3. g \subseteq Options(d) => ProbesOf(TelnetPlan(g)) \subseteq ProbesOf(TelnetPlan(Options(d)))
    BY TelnetLaw DEF IsPlan
  <2> QED
    BY <2>1, <2>2, <2>3, <1>0
<1>3. CASE d = "ssh"
  <2>1. Plan(d, g) = SshPlan(g) /\ Plan(d, Options(d)) = SshPlan(Options(d))
    BY <1>3 DEF Plan
  <2>2. Law(SshPlan(g))
    BY SshLaw DEF IsPlan
  <2>3. g \subseteq Options(d) => ProbesOf(SshPlan(g)) \subseteq ProbesOf(SshPlan(Options(d)))
    BY SshLaw DEF IsPlan
  <2> QED
    BY <2>1, <2>2, <2>3, <1>0
<1>4. CASE d = "web"
  <2>1. Plan(d, g) = WebPlan(g) /\ Plan(d, Options(d)) = WebPlan(Options(d))
    BY <1>4 DEF Plan
  <2>2. Law(WebPlan(g))
    BY WebLaw DEF IsPlan
  <2>3. g \subseteq Options(d) => ProbesOf(WebPlan(g)) \subseteq ProbesOf(WebPlan(Options(d)))
    BY WebLaw DEF IsPlan
  <2> QED
    BY <2>1, <2>2, <2>3, <1>0
<1>5. CASE d = "smb"
  <2>1. Plan(d, g) = SmbPlan(g) /\ Plan(d, Options(d)) = SmbPlan(Options(d))
    BY <1>5 DEF Plan
  <2>2. Law(SmbPlan(g))
    BY SmbLaw DEF IsPlan
  <2>3. g \subseteq Options(d) => ProbesOf(SmbPlan(g)) \subseteq ProbesOf(SmbPlan(Options(d)))
    <3>1. ProbesOf(SmbPlan(g)) = SmbAsked(g) /\ ProbesOf(SmbPlan(Options(d))) = SmbAsked(Options(d))
      BY SmbLaw DEF IsPlan
    <3>2. "creds" \in Options(d) /\ "words" \in Options(d)
      BY <1>5 DEF Options
    <3>3. SmbAsked(g) \subseteq SmbAsked(Options(d))
      BY <3>2 DEF SmbAsked
    <3> QED
      BY <3>1, <3>3
  <2> QED
    BY <2>1, <2>2, <2>3, <1>0
<1>6. CASE d \in {"cisco", "esxi", "postgres", "mysql", "mssql", "oracle", "winrm", "snmp",
                  "rpc", "net"}
  <2>1. Plan(d, g) = Plan(d, Options(d))
    BY <1>6 DEF Plan
  <2>2. Plan(d, g) \in {CiscoPlan, EsxiPlan, PgPlan, MysqlPlan, MssqlPlan, OraclePlan,
                        WinPlan, SnmpPlan, RpcPlan, NetPlan}
    BY <1>6 DEF Plan
  <2>3. Law(Plan(d, g))
    BY <2>2, WinLaw, FlatPlans DEF IsPlan
  <2> QED
    BY <2>1, <2>3, <1>0
<1> QED
  BY <1>1, <1>2, <1>3, <1>4, <1>5, <1>6 DEF Doors, Swept, Databases

\* What a device may leave open is a fact of its door.
LEMMA BlankLaw == ASSUME NEW d \in Doors PROVE Blank(d) \subseteq Facts(d)
<1>1. CASE d = "ldap"
  <2>1. ProbesOf(Plan(d, Options(d))) = {"rootdse", "starttls", "bind", "search", "ldaps"}
                                          \cup {"shortpw", "nolock"}
    BY <1>1, LdapLaw DEF Plan, Options, IsPlan
  <2> QED
    BY <2>1, <1>1 DEF Blank, Facts, Databases, Swept
<1>2. CASE d # "ldap"
  BY <1>2 DEF Blank
<1> QED
  BY <1>1, <1>2

\* What is known of every device an audit may meet.
LEMMA DeviceLaw ==
  ASSUME NEW d \in Doors, NEW n, NEW dev \in Devices(d, n)
  PROVE  /\ dev \in Device /\ dev # unseen
         /\ dev.door = d /\ dev.given \subseteq Options(d)
         /\ dev.void \subseteq Blank(d) /\ dev.holds \subseteq Facts(d)
         /\ dev.holds \cap dev.void = {}
         /\ d = "ldap" => "rootdse" \in dev.holds \cup dev.void
<1>1. PICK odd \in Few(n, Oddities(d)), T \in SUBSET (Facts(d) \cap Side), g \in SUBSET Options(d),
           l \in IF d \in Swept THEN BOOLEAN ELSE {d \in {"net", "rpc"}} :
        /\ dev = [door |-> d, given |-> g, listed |-> l,
                  void |-> {f \in Blank(d) : <<"void", f>> \in odd},
                  holds |-> T \cup {f \in Facts(d) : <<"holds", f>> \in odd}]
        /\ dev.holds \cap dev.void = {}
        /\ d = "ldap" => "rootdse" \in dev.holds \cup dev.void
  BY DEF Devices
<1> DEFINE V == {f \in Blank(d) : <<"void", f>> \in odd}
           H == T \cup {f \in Facts(d) : <<"holds", f>> \in odd}
<1>2. V \subseteq Blank(d) /\ H \subseteq Facts(d) /\ V \subseteq Facts(d)
  BY BlankLaw
<1>3. dev = [door |-> d, given |-> g, listed |-> l, void |-> V, holds |-> H]
  BY <1>1
<1>4. l \in BOOLEAN
  <2>1. (d \in {"net", "rpc"}) \in BOOLEAN
    OBVIOUS
  <2> QED
    BY <2>1, Zenon
<1>5. /\ g \in SUBSET UNION {Options(x) : x \in Doors}
      /\ V \in SUBSET UNION {Facts(x) : x \in Doors}
      /\ H \in SUBSET UNION {Facts(x) : x \in Doors}
  <2>1. Options(d) \subseteq UNION {Options(x) : x \in Doors}
    BY Zenon
  <2>2. Facts(d) \subseteq UNION {Facts(x) : x \in Doors}
    BY Zenon
  <2> QED
    BY <2>1, <2>2, <1>2
<1> HIDE DEF V, H
<1>6. dev \in Device
  BY <1>3, <1>4, <1>5, Zenon DEF Device
<1>7. /\ dev.door = d /\ dev.given = g /\ dev.void = V /\ dev.holds = H
  BY <1>3
<1>8. dev # unseen
  BY <1>6, UnseenAssumption
<1> QED
  BY <1>1, <1>2, <1>6, <1>7, <1>8

----------------------------------------------------------------------------
(* Host checks: what an audit has read of a device                         *)

\* A device an audit may meet.
Met(dev) ==
  /\ dev \in Device
  /\ dev.given \subseteq Options(dev.door) /\ dev.void \subseteq Blank(dev.door)
  /\ dev.holds \subseteq Facts(dev.door) /\ dev.holds \cap dev.void = {}
  /\ dev.door = "ldap" => "rootdse" \in dev.holds \cup dev.void

\* The probes made to a device, and the facts they and the login ask for.
DevicePlan(dev) == Plan(dev.door, dev.given)
Asked(dev) == ProbesOf(DevicePlan(dev)) \cup (IF dev.door = "telnet" THEN {"telnet"} ELSE {})

\* The next probe is the i-th, and only what was asked and can be known was read.
Within(dev, i, read) ==
  /\ i \in 1..Len(DevicePlan(dev)) + 1
  /\ read \subseteq Asked(dev) \ dev.void
  /\ dev.door = "web" /\ "dir" \in read => i > 4

\* What was read is what shows of the device.
Truly(dev, y, n) ==
  /\ \A f \in y : Shows(dev.door, dev.given, dev.holds, y, f)
  /\ \A f \in n : ~ Shows(dev.door, dev.given, dev.holds, y, f)

\* Facts of one answer are read together, or not at all.
Together(d, read) ==
  /\ d = "telnet" => "telnet" \in read
  /\ d = "ldap" => ("rootdse" \in read <=> "starttls" \in read)
  /\ d = "cisco" /\ "config" \in read => CiscoChecks \subseteq read
  /\ d = "web" => \A group \in {PageFacts, TlsFacts} : group \cap read \in {{}, group}

\* Where one connection carries every probe, each was answered in full, but
\* for the look-up of packages.
Complete(dev, i, read) ==
  dev.door \in Fragile =>
    \A k \in 1..i - 1 : DevicePlan(dev)[k] \ (dev.void \cup {"packages"}) \subseteq read

\* Of a closed Telnet port nothing else is read.
Closed(dev, y, n) == dev.door = "telnet" /\ "telnet" \notin y => y \cup n = {"telnet"}

\* What an audit may have read when its next probe is the i-th.
Known(dev, i, y, n) ==
  /\ Within(dev, i, y \cup n) /\ Truly(dev, y, n) /\ Closed(dev, y, n)
  /\ Together(dev.door, y \cup n) /\ Complete(dev, i, y \cup n)

\* An audit that asks nothing more.
Ended(dev, i, y) ==
  \/ i > Len(DevicePlan(dev))
  \/ dev.door = "telnet" /\ "telnet" \notin y
  \/ dev.door = "esxi" /\ i > 1 /\ "vmware" \notin y

\* A device that a connection may meet is one of its door, and a known one.
LEMMA MetLaw ==
  ASSUME NEW d \in Doors, NEW n, NEW dev \in Devices(d, n)
  PROVE  Met(dev) /\ dev.door = d /\ dev # unseen
BY DeviceLaw DEF Met

\* The plan run against a device is a plan of sets of its facts.
LEMMA DevicePlanLaw ==
  ASSUME NEW dev, Met(dev)
  PROVE  /\ dev.door \in Doors
         /\ IsPlan(DevicePlan(dev), ProbesOf(DevicePlan(dev)))
         /\ Len(DevicePlan(dev)) \in Nat /\ DOMAIN DevicePlan(dev) = 1..Len(DevicePlan(dev))
         /\ \A i \in 1..Len(DevicePlan(dev)) : DevicePlan(dev)[i] \subseteq ProbesOf(DevicePlan(dev))
         /\ Asked(dev) \subseteq Facts(dev.door)
<1>1. dev.door \in Doors
  BY DEF Met, Device
<1>2. /\ IsPlan(DevicePlan(dev), ProbesOf(DevicePlan(dev)))
      /\ ProbesOf(DevicePlan(dev)) \subseteq Facts(dev.door)
  BY <1>1, PlanLaw DEF Met, DevicePlan
<1>3. Len(DevicePlan(dev)) \in Nat /\ DOMAIN DevicePlan(dev) = 1..Len(DevicePlan(dev))
  BY <1>2 DEF IsPlan
<1>4. \A i \in 1..Len(DevicePlan(dev)) : DevicePlan(dev)[i] \subseteq ProbesOf(DevicePlan(dev))
  BY <1>3 DEF ProbesOf
<1>5. Asked(dev) \subseteq Facts(dev.door)
  BY <1>2 DEF Asked, Facts
<1> QED
  BY <1>1, <1>2, <1>3, <1>4, <1>5

\* Only a path shows more or less by what was read before.
LEMMA ShowsSame ==
  ASSUME NEW d, NEW g, NEW H, NEW y, NEW z, NEW f,
         d = "web" /\ f = "dir" => ("catchall" \in y <=> "catchall" \in z)
  PROVE  Shows(d, g, H, y, f) <=> Shows(d, g, H, z, f)
BY DEF Shows

\* What each door asks.
LEMMA DoorAsks ==
  ASSUME NEW g
  PROVE
  /\ ProbesOf(Plan("smb", g)) =
       SmbAsked(g)
  /\ ProbesOf(Plan("ldap", g)) =
       {"rootdse", "starttls", "bind", "search", "ldaps"}
           \cup IF "creds" \in g THEN {"shortpw", "nolock"} ELSE {}
  /\ ProbesOf(Plan("telnet", g)) =
       {"banner"} \cup IF "creds" \in g THEN {"config"} \cup ConfigChecks ELSE {}
  /\ ProbesOf(Plan("cisco", g)) =
       {"config"} \cup CiscoChecks
  /\ ProbesOf(Plan("esxi", g)) =
       {"vmware", "version", "mob", "weaktls"}
  /\ ProbesOf(Plan("postgres", g)) =
       {"nossl", "nolog", "md5"}
  /\ ProbesOf(Plan("mysql", g)) =
       {"notls", "infile", "native"}
  /\ ProbesOf(Plan("mssql", g)) =
       {"xpcmd", "ole", "clr", "mixed"}
  /\ ProbesOf(Plan("oracle", g)) =
       {"osauth", "dictionary", "sql92", "caseless"}
  /\ ProbesOf(Plan("ssh", g)) =
       {"kernel", "packages", "suid", "caps", "cron"} \cup SshControls \cup AuthControls
           \cup IF "attempt" \in g THEN {"isroot", "escalates"} ELSE {}
  /\ ProbesOf(Plan("winrm", g)) =
       WinControls \cup {"privileges", "elevated", "unquoted"}
  /\ ProbesOf(Plan("snmp", g)) =
       {"known2c", "known1", "own2c", "own1"}
  /\ ProbesOf(Plan("rpc", g)) =
       {"pipe", "mapper"}
  /\ ProbesOf(Plan("net", g)) =
       Exposed
  /\ ProbesOf(Plan("web", g)) =
       PageFacts \cup {"path"}
           \cup (IF "dirs" \in g THEN DirFacts ELSE {})
           \cup (IF "https" \in g THEN TlsFacts \cup {"tls10"} ELSE {})
           \cup (IF "aggressive" \in g THEN ActiveFacts ELSE {})
<1>1. ProbesOf(Plan("smb", g)) =
       SmbAsked(g)
  BY SmbLaw DEF Plan, IsPlan
<1>2. ProbesOf(Plan("ldap", g)) =
       {"rootdse", "starttls", "bind", "search", "ldaps"}
           \cup IF "creds" \in g THEN {"shortpw", "nolock"} ELSE {}
  BY LdapLaw DEF Plan, IsPlan
<1>3. ProbesOf(Plan("telnet", g)) =
       {"banner"} \cup IF "creds" \in g THEN {"config"} \cup ConfigChecks ELSE {}
  BY TelnetLaw DEF Plan, IsPlan
<1>4. ProbesOf(Plan("cisco", g)) =
       {"config"} \cup CiscoChecks
  BY FlatPlans DEF Plan, IsPlan
<1>5. ProbesOf(Plan("esxi", g)) =
       {"vmware", "version", "mob", "weaktls"}
  BY FlatPlans DEF Plan, IsPlan
<1>6. ProbesOf(Plan("postgres", g)) =
       {"nossl", "nolog", "md5"}
  BY FlatPlans DEF Plan, IsPlan
<1>7. ProbesOf(Plan("mysql", g)) =
       {"notls", "infile", "native"}
  BY FlatPlans DEF Plan, IsPlan
<1>8. ProbesOf(Plan("mssql", g)) =
       {"xpcmd", "ole", "clr", "mixed"}
  BY FlatPlans DEF Plan, IsPlan
<1>9. ProbesOf(Plan("oracle", g)) =
       {"osauth", "dictionary", "sql92", "caseless"}
  BY FlatPlans DEF Plan, IsPlan
<1>10. ProbesOf(Plan("ssh", g)) =
       {"kernel", "packages", "suid", "caps", "cron"} \cup SshControls \cup AuthControls
           \cup IF "attempt" \in g THEN {"isroot", "escalates"} ELSE {}
  BY SshLaw DEF Plan, IsPlan
<1>11. ProbesOf(Plan("winrm", g)) =
       WinControls \cup {"privileges", "elevated", "unquoted"}
  BY WinLaw DEF Plan, IsPlan
<1>12. ProbesOf(Plan("snmp", g)) =
       {"known2c", "known1", "own2c", "own1"}
  BY FlatPlans DEF Plan, IsPlan
<1>13. ProbesOf(Plan("rpc", g)) =
       {"pipe", "mapper"}
  BY FlatPlans DEF Plan, IsPlan
<1>14. ProbesOf(Plan("net", g)) =
       Exposed
  BY FlatPlans DEF Plan, IsPlan
<1>15. ProbesOf(Plan("web", g)) =
       PageFacts \cup {"path"}
           \cup (IF "dirs" \in g THEN DirFacts ELSE {})
           \cup (IF "https" \in g THEN TlsFacts \cup {"tls10"} ELSE {})
           \cup (IF "aggressive" \in g THEN ActiveFacts ELSE {})
  BY WebLaw DEF Plan, IsPlan
<1> QED
  BY <1>1, <1>2, <1>3, <1>4, <1>5, <1>6, <1>7, <1>8, <1>9, <1>10, <1>11, <1>12, <1>13, <1>14, <1>15

\* The facts of each door.
LEMMA DoorFacts ==
  /\ Facts("smb") = {"signing", "smb1", "null", "anonshares", "guest", "guestlist",
                    "login", "list", "share", "hidden"}
  /\ Facts("ldap") = {"rootdse", "starttls", "bind", "search", "ldaps", "shortpw", "nolock"}
  /\ Facts("telnet") = {"telnet", "banner", "config"} \cup ConfigChecks
  /\ Facts("cisco") = {"config"} \cup CiscoChecks
  /\ Facts("esxi") = {"vmware", "version", "mob", "weaktls"}
  /\ Facts("postgres") = {"nossl", "nolog", "md5"}
  /\ Facts("mysql") = {"notls", "infile", "native"}
  /\ Facts("mssql") = {"xpcmd", "ole", "clr", "mixed"}
  /\ Facts("oracle") = {"osauth", "dictionary", "sql92", "caseless"}
  /\ Facts("ssh") = {"kernel", "packages", "suid", "caps", "cron", "isroot", "escalates"}
                       \cup SshControls \cup AuthControls
  /\ Facts("winrm") = WinControls \cup {"privileges", "elevated", "unquoted"}
  /\ Facts("snmp") = {"known2c", "known1", "own2c", "own1"}
  /\ Facts("rpc") = {"pipe", "mapper"}
  /\ Facts("net") = Exposed
  /\ Facts("web") = PageFacts \cup {"path", "tls10"} \cup DirFacts \cup TlsFacts \cup ActiveFacts
<1>1. Facts("smb") = {"signing", "smb1", "null", "anonshares", "guest", "guestlist",
                    "login", "list", "share", "hidden"}
  BY DoorAsks DEF Facts, Options, SmbAsked
<1>2. Facts("ldap") = {"rootdse", "starttls", "bind", "search", "ldaps", "shortpw", "nolock"}
  BY DoorAsks DEF Facts, Options
<1>3. Facts("telnet") = {"telnet", "banner", "config"} \cup ConfigChecks
  BY DoorAsks DEF Facts, Options
<1>4. Facts("cisco") = {"config"} \cup CiscoChecks
  BY DoorAsks DEF Facts, Options
<1>5. Facts("esxi") = {"vmware", "version", "mob", "weaktls"}
  BY DoorAsks DEF Facts, Options
<1>6. Facts("postgres") = {"nossl", "nolog", "md5"}
  BY DoorAsks DEF Facts, Options
<1>7. Facts("mysql") = {"notls", "infile", "native"}
  BY DoorAsks DEF Facts, Options
<1>8. Facts("mssql") = {"xpcmd", "ole", "clr", "mixed"}
  BY DoorAsks DEF Facts, Options
<1>9. Facts("oracle") = {"osauth", "dictionary", "sql92", "caseless"}
  BY DoorAsks DEF Facts, Options
<1>10. Facts("ssh") = {"kernel", "packages", "suid", "caps", "cron", "isroot", "escalates"}
                       \cup SshControls \cup AuthControls
  BY DoorAsks DEF Facts, Options
<1>11. Facts("winrm") = WinControls \cup {"privileges", "elevated", "unquoted"}
  BY DoorAsks DEF Facts, Options
<1>12. Facts("snmp") = {"known2c", "known1", "own2c", "own1"}
  BY DoorAsks DEF Facts, Options
<1>13. Facts("rpc") = {"pipe", "mapper"}
  BY DoorAsks DEF Facts, Options
<1>14. Facts("net") = Exposed
  BY DoorAsks DEF Facts, Options
<1>15. Facts("web") = PageFacts \cup {"path", "tls10"} \cup DirFacts \cup TlsFacts \cup ActiveFacts
  BY DoorAsks DEF Facts, Options
<1> QED
  BY <1>1, <1>2, <1>3, <1>4, <1>5, <1>6, <1>7, <1>8, <1>9, <1>10, <1>11, <1>12, <1>13, <1>14, <1>15

\* Telnet is nobody else's fact.
LEMMA TelnetIsAlone ==
  ASSUME NEW d \in Doors, d # "telnet"
  PROVE  "telnet" \notin Facts(d)
BY DoorFacts DEF Doors, Swept, Databases, ConfigChecks, CiscoChecks, SshControls, AuthControls,
   WinControls, Exposed, PageFacts, TlsFacts, DirFacts, ActiveFacts

\* An audit that has connected knows whether Telnet is open.
LEMMA KnownAtStart ==
  ASSUME NEW dev, Met(dev)
  PROVE  Known(dev, 1, {"telnet"} \cap dev.holds,
                       IF dev.door = "telnet" THEN {"telnet"} \ dev.holds ELSE {})
<1> DEFINE y == {"telnet"} \cap dev.holds
           n == IF dev.door = "telnet" THEN {"telnet"} \ dev.holds ELSE {}
<1>1. y \cup n = IF dev.door = "telnet" THEN {"telnet"} ELSE {}
  BY TelnetIsAlone, DevicePlanLaw DEF Met
<1>2. dev.door = "telnet" => dev.void = {}
  BY DEF Met, Blank, Databases, Swept
<1>3. Within(dev, 1, y \cup n)
  BY <1>1, <1>2, DevicePlanLaw DEF Within, Asked
<1>4. Truly(dev, y, n)
  BY DEF Truly, Shows
<1>5. Together(dev.door, y \cup n)
  BY <1>1 DEF Together
<1>6. Complete(dev, 1, y \cup n)
  BY DEF Complete
<1>7. Closed(dev, y, n)
  BY <1>1 DEF Closed
<1> QED
  BY <1>3, <1>4, <1>5, <1>6, <1>7 DEF Known

\* A probe that is answered in full where it must be keeps what is known.
LEMMA KnownStep ==
  ASSUME NEW dev, Met(dev), NEW i, NEW y, NEW n, Known(dev, i, y, n), ~ Ended(dev, i, y),
         NEW got \in Answers(dev, y, DevicePlan(dev)[i]),
         \/ \A more \in Answers(dev, y, DevicePlan(dev)[i]) : got \subseteq more => more = got
         \/ MayLose(dev.door, DevicePlan(dev)[i]),
         NEW shown, shown = {f \in Kept(dev.door, got) : Shows(dev.door, dev.given, dev.holds, y, f)}
  PROVE  Known(dev, i + 1, y \cup shown, n \cup (Kept(dev.door, got) \ shown))
<1> DEFINE probe == DevicePlan(dev)[i]
           kept == Kept(dev.door, got)
           y2 == y \cup shown
           n2 == n \cup (kept \ shown)
<1>1. /\ i \in 1..Len(DevicePlan(dev)) /\ Len(DevicePlan(dev)) \in Nat
      /\ probe \subseteq ProbesOf(DevicePlan(dev))
  BY DevicePlanLaw DEF Known, Within, Ended
<1>2. /\ got \subseteq probe \ dev.void /\ Coherent(dev.door, dev.holds, y, got)
      /\ kept \subseteq got /\ shown \subseteq kept
  BY DEF Answers, Kept, CiscoRead
<1>3. y2 \cup n2 = y \cup n \cup kept
  BY <1>2
<1>4. dev.door = "web" => /\ "dir" \in probe => i = 4
                          /\ "catchall" \in probe => i = 3
  <2>1. SUFFICES ASSUME dev.door = "web"
                 PROVE  AskedAt(DevicePlan(dev), "catchall", 3) /\ AskedAt(DevicePlan(dev), "dir", 4)
    BY <1>1, DevicePlanLaw DEF AskedAt
  <2>2. DevicePlan(dev) = WebPlan(dev.given)
    BY <2>1 DEF DevicePlan, Plan
  <2> QED
    BY <2>2, WebLaw
<1> HIDE DEF kept, y2, n2, probe
<1>5. Within(dev, i + 1, y2 \cup n2)
  BY <1>1, <1>2, <1>3, <1>4 DEF Known, Within, Asked
<1>6. ASSUME NEW f, f \in y \cup n \cup kept
      PROVE  Shows(dev.door, dev.given, dev.holds, y, f) <=> Shows(dev.door, dev.given, dev.holds, y2, f)
  <2>1. CASE dev.door = "web" /\ f = "dir"
    <3>1. "catchall" \notin probe
      BY <2>1, <1>1, <1>2, <1>4, <1>6 DEF Known, Within
    <3> QED
      BY <3>1, <1>2, ShowsSame DEF y2
  <2>2. CASE ~ (dev.door = "web" /\ f = "dir")
    BY <2>2, ShowsSame
  <2> QED
    BY <2>1, <2>2
<1>7. Truly(dev, y2, n2)
  BY <1>6, <1>2 DEF Known, Truly, y2, n2, kept
<1>8. Together(dev.door, y2 \cup n2)
  <2>1. CASE dev.door = "telnet"
    BY <2>1, <1>3 DEF Known, Together
  <2>2. CASE dev.door = "ldap"
    <3>1. "starttls" \in kept <=> "rootdse" \in kept
      BY <2>2, <1>2 DEF kept, Kept, Coherent, LdapCoherent
    <3> QED
      BY <2>2, <3>1, <1>3 DEF Known, Together
  <2>3. CASE dev.door = "cisco"
    <3>1. "config" \in kept => CiscoChecks \subseteq kept
      BY <2>3 DEF kept, Kept, CiscoRead
    <3> QED
      BY <2>3, <3>1, <1>3 DEF Known, Together
  <2>4. CASE dev.door = "web"
    <3>1. \A group \in {PageFacts, TlsFacts} : group \cap kept \in {{}, group}
      BY <2>4, <1>2 DEF kept, Kept, Coherent, WebCoherent
    <3>2. \A group \in {PageFacts, TlsFacts} : group \cap (y \cup n) \in {{}, group}
      BY <2>4 DEF Known, Together
    <3>3. \A group : group \cap kept \in {{}, group} /\ group \cap (y \cup n) \in {{}, group}
                       => group \cap (y \cup n \cup kept) \in {{}, group}
      OBVIOUS
    <3>4. \A group \in {PageFacts, TlsFacts} : group \cap (y2 \cup n2) \in {{}, group}
      BY <3>1, <3>2, <3>3, <1>3
    <3> QED
      BY <2>4, <3>4 DEF Together
  <2>5. CASE dev.door \notin {"telnet", "ldap", "cisco", "web"}
    BY <2>5 DEF Together
  <2> QED
    BY <2>1, <2>2, <2>3, <2>4, <2>5
<1>9. Complete(dev, i + 1, y2 \cup n2)
  <2> SUFFICES ASSUME dev.door \in Fragile, NEW k \in 1..i,
                      DevicePlan(dev)[k] \ (dev.void \cup {"packages"}) # {}
               PROVE  DevicePlan(dev)[k] \ (dev.void \cup {"packages"}) \subseteq y2 \cup n2
    BY <1>1 DEF Complete
  <2>1. CASE k < i
    BY <2>1, <1>1, <1>3 DEF Known, Complete
  <2>2. CASE k = i
    <3>1. kept = got
      BY DEF kept, Kept, Fragile, Databases, Swept
    <3>2. probe \ dev.void \in Answers(dev, y, probe)
      BY DEF Answers, Coherent, Fragile, Databases, Swept
    <3>3. ~ MayLose(dev.door, probe)
      BY <2>2 DEF MayLose, probe
    <3>4. got = probe \ dev.void
      BY <3>2, <3>3, <1>2 DEF probe
    <3> QED
      BY <2>2, <3>1, <3>4, <1>3 DEF probe
  <2> QED
    BY <2>1, <2>2, <1>1
<1>10. Closed(dev, y2, n2)
  BY DEF Closed, Ended, y2
<1> QED
  BY <1>5, <1>7, <1>8, <1>9, <1>10 DEF Known, y2, n2, kept

----------------------------------------------------------------------------
(* Host checks: verdicts of each door                                      *)

Missed(dev, i, read) == (UNION {DevicePlan(dev)[k] : k \in 1..i - 1}) \ read

Told(dev, y, n)  == Flags(dev.door, dev.given, y, n)
Wrong(dev)       == Weak(dev.door, dev.given, dev.holds, dev.void)

\* The three rules of verdicts, for one audit.
Exact(dev, i, y, n) == Missed(dev, i, y \cup n) \subseteq dev.void => Told(dev, y, n) = Wrong(dev)

Alarm(dev, i, y, n) ==
  \A c \in Told(dev, y, n) \ Wrong(dev) :
    c \in DOMAIN Presumed(dev.door) /\ Presumed(dev.door)[c] \cap Missed(dev, i, y \cup n) # {}

Passes(dev, y, n) ==
  \A c \in Ran(dev.door, dev.given, y, n) :
    \/ Fails(Ports(dev.door, dev.given, y, n), Told(dev, y, n), c)
    \/ Evidence(c) \cap (IF c = "cleartext" THEN y ELSE n) # {}
    \/ c \in PassedUnread(dev)

Verdicts(dev, i, y, n) == Exact(dev, i, y, n) /\ Alarm(dev, i, y, n) /\ Passes(dev, y, n)

\* What was read of a device, once nothing more is asked.
LEMMA EndLaw ==
  ASSUME NEW dev, Met(dev), NEW i, NEW y, NEW n, Known(dev, i, y, n), Ended(dev, i, y)
  PROVE  /\ y \cup n \subseteq Asked(dev) \ dev.void
         /\ \/ Missed(dev, i, y \cup n) = ProbesOf(DevicePlan(dev)) \ (y \cup n)
            \/ dev.door = "telnet" /\ "telnet" \notin y
            \/ dev.door = "esxi" /\ i > 1 /\ "vmware" \notin y
         /\ dev.door \in Fragile =>
              ProbesOf(DevicePlan(dev)) \ (dev.void \cup {"packages"}) \subseteq y \cup n
<1>1. /\ i \in 1..Len(DevicePlan(dev)) + 1 /\ Len(DevicePlan(dev)) \in Nat
      /\ DOMAIN DevicePlan(dev) = 1..Len(DevicePlan(dev))
      /\ y \cup n \subseteq Asked(dev) \ dev.void
  BY DevicePlanLaw DEF Known, Within
<1>2. i > Len(DevicePlan(dev)) => 1..i - 1 = DOMAIN DevicePlan(dev)
  BY <1>1
<1>3. ASSUME i > Len(DevicePlan(dev))
      PROVE  Missed(dev, i, y \cup n) = ProbesOf(DevicePlan(dev)) \ (y \cup n)
  <2>1. 1..i - 1 = DOMAIN DevicePlan(dev)
    BY <1>2, <1>3
  <2>2. {DevicePlan(dev)[k] : k \in 1..i - 1} = {DevicePlan(dev)[k] : k \in DOMAIN DevicePlan(dev)}
    BY <2>1, Zenon
  <2> QED
    BY <2>2, Zenon DEF Missed, ProbesOf
<1>4. dev.door \in Fragile => i > Len(DevicePlan(dev))
  BY DEF Ended, Fragile, Databases, Swept
<1>5. dev.door \in Fragile =>
        ProbesOf(DevicePlan(dev)) \ (dev.void \cup {"packages"}) \subseteq y \cup n
  BY <1>2, <1>4 DEF Known, Complete, ProbesOf
<1> QED
  BY <1>1, <1>3, <1>5 DEF Ended

\* File servers: what is told is what the device shows.
LEMMA SmbVerdicts ==
  ASSUME NEW dev, Met(dev), NEW i, NEW y, NEW n, Known(dev, i, y, n), Ended(dev, i, y),
         dev.door = "smb"
  PROVE  Verdicts(dev, i, y, n)
<1> DEFINE H == dev.holds
           g == dev.given
           M == Missed(dev, i, y \cup n)
           open == H \cap {"null", "guest"} # {}
           bare == {"signing", "smb1", "null"}
<1>1. /\ y \cup n \subseteq SmbAsked(g) /\ M = SmbAsked(g) \ (y \cup n) /\ dev.void = {}
  <2>1. ProbesOf(DevicePlan(dev)) = SmbAsked(g) /\ Asked(dev) = SmbAsked(g)
    BY DoorAsks DEF DevicePlan, Asked
  <2>2. dev.void = {}
    BY DEF Met, Blank, Databases, Swept
  <2>3. y \cup n \subseteq Asked(dev) \ dev.void /\ M = ProbesOf(DevicePlan(dev)) \ (y \cup n)
    BY EndLaw
  <2> QED
    BY <2>1, <2>2, <2>3
<1>2. \A f \in SmbAsked(g) :
        Shows("smb", g, H, y, f) <=>
          CASE f = "anonshares"           -> {"null", "anonshares"} \subseteq H
            [] f = "guest"                -> open
            [] f = "guestlist"            -> "guestlist" \in H /\ open
            [] f = "list"                 -> {"login", "list"} \subseteq H
            [] f \in {"share", "hidden"}  -> f \in H /\ SmbEnters(g, H)
            [] OTHER                      -> f \in H
  BY DEF Shows
<1>3. \A f \in y : Shows("smb", g, H, y, f)
  BY DEF Known, Truly
<1>4. \A f \in n : ~ Shows("smb", g, H, y, f)
  BY DEF Known, Truly
<1> DEFINE hid == "hidden" \in y \/ ("share" \in y /\ y \cap Listings = {})
           bad == /\ "words" \in g /\ SmbEnters(g, H)
                  /\ "hidden" \in H \/ ("share" \in H /\ ~ SmbLists(g, H))
<1>5. /\ Told(dev, y, n) = (y \cap {"signing", "smb1", "null", "anonshares"})
           \cup (IF "null" \in y THEN {} ELSE y \cap {"guest"})
           \cup (IF hid THEN {"hidden"} ELSE {})
      /\ Wrong(dev) = (H \cap {"signing", "smb1", "null"})
           \cup (H \cap {IF "null" \in H THEN "anonshares" ELSE "guest"})
           \cup (IF bad THEN {"hidden"} ELSE {})
  BY DEF Told, Wrong, Flags, Weak, SmbFlags, SmbHidden
<1>6. /\ hid <=> "hidden" \in y \/ ("share" \in y /\ "list" \notin y /\ "anonshares" \notin y
                                           /\ "guestlist" \notin y)
      /\ Listings \cap M # {} <=> "list" \in M \/ "anonshares" \in M \/ "guestlist" \in M
  BY DEF Listings
<1>7. /\ {"null", "anonshares"} \subseteq H <=> "null" \in H /\ "anonshares" \in H
      /\ {"login", "list"} \subseteq H <=> "login" \in H /\ "list" \in H
      /\ open <=> "null" \in H \/ "guest" \in H
      /\ SmbLists(g, H) <=> \/ "creds" \in g /\ "login" \in H /\ "list" \in H
                            \/ "null" \in H /\ "anonshares" \in H
                            \/ "guestlist" \in H /\ ("null" \in H \/ "guest" \in H)
  BY DEF SmbLists
<1>8. /\ \A f \in {"signing", "smb1", "null", "anonshares", "guest", "guestlist"} : f \in SmbAsked(g)
      /\ "login" \in SmbAsked(g) <=> "creds" \in g
      /\ "list" \in SmbAsked(g) <=> "creds" \in g
      /\ "share" \in SmbAsked(g) <=> "words" \in g
      /\ "hidden" \in SmbAsked(g) <=> "words" \in g
  BY DEF SmbAsked
<1>9. \A f : /\ f \in y \/ f \in n => f \in SmbAsked(g)
             /\ f \in M <=> f \in SmbAsked(g) /\ f \notin y /\ f \notin n
  BY <1>1
<1>10. \A f : /\ f \in y => Shows("smb", g, H, y, f)
              /\ f \in n => ~ Shows("smb", g, H, y, f)
  BY <1>3, <1>4
<1> HIDE DEF H, M, g, open, hid, bad
<1>11. /\ \A f \in bare : Shows("smb", g, H, y, f) <=> f \in H
       /\ Shows("smb", g, H, y, "anonshares") <=> "null" \in H /\ "anonshares" \in H
       /\ Shows("smb", g, H, y, "guest") <=> "null" \in H \/ "guest" \in H
       /\ Shows("smb", g, H, y, "guestlist") <=> "guestlist" \in H /\ ("null" \in H \/ "guest" \in H)
       /\ "creds" \in g => (Shows("smb", g, H, y, "list") <=> "login" \in H /\ "list" \in H)
       /\ "words" \in g => (Shows("smb", g, H, y, "share") <=> "share" \in H /\ SmbEnters(g, H))
       /\ "words" \in g => (Shows("smb", g, H, y, "hidden") <=> "hidden" \in H /\ SmbEnters(g, H))
  BY <1>2, <1>7, <1>8
<1>12. ASSUME M = {} PROVE Told(dev, y, n) = Wrong(dev)
  <2>1. \A f : f \in SmbAsked(g) => (f \in y <=> Shows("smb", g, H, y, f))
    BY <1>9, <1>10, <1>12
  <2>2. "words" \in g => ("share" \in y <=> "share" \in H /\ SmbEnters(g, H))
                      /\ ("hidden" \in y <=> "hidden" \in H /\ SmbEnters(g, H))
    BY <2>1, <1>8, <1>11
  <2>3. /\ "anonshares" \in y <=> "null" \in H /\ "anonshares" \in H
        /\ "guestlist" \in y <=> "guestlist" \in H /\ ("null" \in H \/ "guest" \in H)
        /\ "guest" \in y <=> "null" \in H \/ "guest" \in H
        /\ \A f \in bare : f \in y <=> f \in H
    BY <2>1, <1>8, <1>11
  <2>4. "list" \in y <=> "creds" \in g /\ "login" \in H /\ "list" \in H
    BY <2>1, <1>8, <1>9, <1>11
  <2>5. hid <=> bad
    <3>1. CASE "words" \in g
      BY <3>1, <2>2, <2>3, <2>4, <1>6, <1>7 DEF bad
    <3>2. CASE "words" \notin g
      BY <3>2, <1>6, <1>8, <1>9 DEF bad
    <3> QED
      BY <3>1, <3>2
  <2>6. "signing" \in bare /\ "smb1" \in bare /\ "null" \in bare
    OBVIOUS
  <2> HIDE DEF bare
  <2>7. \A c : c \in Told(dev, y, n) <=> c \in Wrong(dev)
    BY <2>3, <2>5, <2>6, <1>5
  <2> QED
    BY <2>7
<1>13. M \subseteq dev.void => Told(dev, y, n) = Wrong(dev)
  BY <1>12, <1>1
<1>14. ASSUME NEW c \in Told(dev, y, n) \ Wrong(dev)
       PROVE  (c = "guest" /\ "null" \in M) \/ (c = "hidden" /\ Listings \cap M # {})
  <2>1. CASE c = "hidden"
    <3>1. hid /\ ~ bad
      BY <2>1, <1>5, <1>14
    <3>2. "words" \in g
      BY <3>1, <1>6, <1>8, <1>9
    <3>3. /\ "share" \in y /\ "list" \notin y /\ "anonshares" \notin y /\ "guestlist" \notin y
          /\ SmbLists(g, H)
      BY <3>1, <3>2, <1>6, <1>10, <1>11 DEF bad
    <3>4. CASE "creds" \in g /\ "login" \in H /\ "list" \in H
      <4>1. "list" \in M
        BY <3>3, <3>4, <1>8, <1>9, <1>10, <1>11
      <4> QED
        BY <4>1, <2>1, <1>6
    <3>5. CASE "null" \in H /\ "anonshares" \in H
      <4>1. "anonshares" \in M
        BY <3>3, <3>5, <1>8, <1>9, <1>10, <1>11
      <4> QED
        BY <4>1, <2>1, <1>6
    <3>6. CASE "guestlist" \in H /\ ("null" \in H \/ "guest" \in H)
      <4>1. "guestlist" \in M
        BY <3>3, <3>6, <1>8, <1>9, <1>10, <1>11
      <4> QED
        BY <4>1, <2>1, <1>6
    <3> QED
      BY <3>3, <3>4, <3>5, <3>6, <1>7
  <2>2. CASE c = "guest"
    <3>1. "guest" \in y /\ "null" \notin y /\ ~ ("guest" \in H /\ "null" \notin H)
      BY <2>2, <1>5, <1>14
    <3>2. "null" \in H /\ "null" \in bare
      BY <3>1, <1>10, <1>11
    <3>3. "null" \in M
      BY <3>1, <3>2, <1>8, <1>9, <1>10, <1>11
    <3> QED
      BY <3>3, <2>2
  <2>3. CASE c \notin {"hidden", "guest"}
    <3>1. c \in y /\ c \in {"signing", "smb1", "null", "anonshares"}
      BY <2>3, <1>5, <1>14
    <3>2. CASE c \in bare
      BY <3>1, <3>2, <1>5, <1>10, <1>11, <1>14
    <3>3. CASE c = "anonshares"
      BY <3>1, <3>3, <1>5, <1>10, <1>11, <1>14
    <3> QED
      BY <3>1, <3>2, <3>3
  <2> QED
    BY <2>1, <2>2, <2>3
<1>15. /\ "guest" \in DOMAIN Presumed(dev.door) /\ Presumed(dev.door)["guest"] = {"null"}
       /\ "hidden" \in DOMAIN Presumed(dev.door) /\ Presumed(dev.door)["hidden"] = Listings
  <2>1. Presumed(dev.door) = [guest |-> {"null"}, hidden |-> Listings]
    BY DEF Presumed
  <2> QED
    BY <2>1
<1>16. Alarm(dev, i, y, n)
  BY <1>14, <1>15 DEF Alarm, M
<1>17. Ran(dev.door, dev.given, y, n) = SmbRan /\ PassedUnread(dev) = SmbRan
  BY DEF Ran, PassedUnread, Databases, Swept
<1>18. Passes(dev, y, n)
  BY <1>17 DEF Passes
<1> QED
  BY <1>13, <1>16, <1>18 DEF Verdicts, Exact, M

\* A control passes on what was read of it, and fails when it is told.
LEMMA PassLaw ==
  ASSUME NEW c, c \notin {"oldtls", "mgmt", "http", "cleartext"}, NEW ports, NEW told, NEW n,
         c \in told \cup n
  PROVE  Fails(ports, told, c) \/ Evidence(c) \cap n # {}
BY DEF Fails, Evidence

\* Doors whose facts show as they are.
LEMMA PlainShows ==
  ASSUME NEW dev, NEW y, NEW n, Truly(dev, y, n), dev.door \notin {"smb", "ldap", "web"}
  PROVE  y \subseteq dev.holds /\ n \cap dev.holds = {}
BY DEF Truly, Shows

\* Directories: what is told is what the device shows.
LEMMA LdapVerdicts ==
  ASSUME NEW dev, Met(dev), NEW i, NEW y, NEW n, Known(dev, i, y, n), Ended(dev, i, y),
         dev.door = "ldap"
  PROVE  Verdicts(dev, i, y, n)
<1> DEFINE H == dev.holds
           M == Missed(dev, i, y \cup n)
           P == {"rootdse", "starttls", "bind", "search", "ldaps"}
                  \cup IF "creds" \in dev.given THEN {"shortpw", "nolock"} ELSE {}
<1>1. /\ y \cup n \subseteq P \ dev.void /\ M = P \ (y \cup n)
      /\ dev.void \subseteq {"rootdse", "shortpw", "nolock"} /\ H \cap dev.void = {}
      /\ "rootdse" \in H \cup dev.void
  <2>1. ProbesOf(DevicePlan(dev)) = P /\ Asked(dev) = P
    BY DoorAsks DEF DevicePlan, Asked
  <2>2. /\ dev.void \subseteq {"rootdse", "shortpw", "nolock"} /\ H \cap dev.void = {}
        /\ "rootdse" \in H \cup dev.void
    BY DEF Met, Blank, Databases, Swept
  <2>3. y \cup n \subseteq Asked(dev) \ dev.void /\ M = ProbesOf(DevicePlan(dev)) \ (y \cup n)
    BY EndLaw
  <2> QED
    BY <2>1, <2>2, <2>3
<1>2. /\ \A f \in y : IF f = "search" THEN {"bind", "search"} \subseteq H ELSE f \in H
      /\ \A f \in n : ~ IF f = "search" THEN {"bind", "search"} \subseteq H ELSE f \in H
      /\ "rootdse" \in y \cup n <=> "starttls" \in y \cup n
  BY DEF Known, Truly, Shows, Together
<1>3. /\ Told(dev, y, n) = (y \cap {"bind", "search", "shortpw", "nolock"})
           \cup (IF "rootdse" \in y /\ y \cap {"ldaps", "starttls"} = {} THEN {"cleartext"} ELSE {})
      /\ Wrong(dev) = (H \cap {"bind"}) \cup (IF "bind" \in H THEN H \cap {"search"} ELSE {})
           \cup (IF "rootdse" \in H /\ H \cap {"starttls", "ldaps"} = {} THEN {"cleartext"} ELSE {})
           \cup (IF "creds" \in dev.given THEN H \cap {"shortpw", "nolock"} ELSE {})
  BY DEF Told, Wrong, Flags, Weak, LdapFlags
<1>4. /\ Ran(dev.door, dev.given, y, n) =
           {"bind", "search"} \cup (IF "rootdse" \in y THEN {"cleartext"} ELSE {})
             \cup ((y \cup n) \cap {"shortpw", "nolock"})
      /\ PassedUnread(dev) = {"bind", "search"}
  BY DEF Ran, LdapRan, PassedUnread, Databases, Swept
<1> HIDE DEF H, M
<1>5. M \subseteq dev.void => Told(dev, y, n) = Wrong(dev)
  BY <1>1, <1>2, <1>3
<1>6. ASSUME NEW c \in Told(dev, y, n) \ Wrong(dev)
      PROVE  c = "cleartext" /\ "ldaps" \in M
  BY <1>1, <1>2, <1>3, <1>6
<1>7. "cleartext" \in DOMAIN Presumed(dev.door) /\ Presumed(dev.door)["cleartext"] = {"ldaps"}
  BY DEF Presumed
<1>8. Alarm(dev, i, y, n)
  BY <1>6, <1>7 DEF Alarm, M
<1>9. Passes(dev, y, n)
  BY <1>3, <1>4 DEF Passes, Evidence, Fails
<1> QED
  BY <1>5, <1>8, <1>9 DEF Verdicts, Exact, M

\* Telnet: a login that is closed ends the audit and is told of itself.
LEMMA TelnetVerdicts ==
  ASSUME NEW dev, Met(dev), NEW i, NEW y, NEW n, Known(dev, i, y, n), Ended(dev, i, y),
         dev.door = "telnet"
  PROVE  Verdicts(dev, i, y, n)
<1> DEFINE H == dev.holds
           M == Missed(dev, i, y \cup n)
           P == {"banner"} \cup IF "creds" \in dev.given THEN {"config"} \cup ConfigChecks ELSE {}
<1>1. /\ y \cup n \subseteq P \cup {"telnet"} /\ "telnet" \in y \cup n
      /\ "telnet" \in y => M = P \ (y \cup n)
      /\ "config" \in y => "telnet" \in y
      /\ y \subseteq H /\ n \cap H = {}
      /\ dev.void = {}
  <2>1. ProbesOf(DevicePlan(dev)) = P /\ Asked(dev) = P \cup {"telnet"}
    BY DoorAsks DEF DevicePlan, Asked
  <2>2. dev.void = {}
    BY DEF Met, Blank, Databases, Swept
  <2>3. /\ "telnet" \in y \cup n /\ y \subseteq H /\ n \cap H = {}
        /\ "config" \in y => "telnet" \in y
    BY PlainShows DEF Known, Together, Closed
  <2>4. /\ y \cup n \subseteq Asked(dev) \ dev.void
        /\ "telnet" \in y => M = ProbesOf(DevicePlan(dev)) \ (y \cup n)
    BY EndLaw
  <2> QED
    BY <2>1, <2>2, <2>3, <2>4
<1>2. /\ Told(dev, y, n) =
           IF "telnet" \notin y THEN {}
           ELSE {"telnet"} \cup ({"banner"} \ n)
                  \cup (IF "config" \in y THEN (y \cap ConfigChecks) \cup ({"nocrypt"} \ n) ELSE {})
      /\ Wrong(dev) =
           IF "telnet" \notin H THEN {}
           ELSE (H \cap {"telnet", "banner"})
                  \cup (IF "creds" \in dev.given /\ "config" \in H THEN H \cap ConfigChecks ELSE {})
  BY DEF Told, Wrong, Flags, Weak, TelnetFlags
<1>3. /\ Ran(dev.door, dev.given, y, n) =
           {"telnet"} \cup (IF "telnet" \in y THEN {"banner"} ELSE {})
             \cup (IF "config" \in y THEN ConfigChecks ELSE {})
      /\ PassedUnread(dev) = ConfigChecks \ {"nocrypt"}
  BY DEF Ran, TelnetRan, PassedUnread, Databases, Swept
<1>4. ConfigChecks = {"nocrypt", "enablepw", "vtytelnet", "httpserver"}
  BY DEF ConfigChecks
<1> HIDE DEF H, M
<1>5. M \subseteq dev.void => Told(dev, y, n) = Wrong(dev)
  BY <1>1, <1>2, <1>4
<1>6. ASSUME NEW c \in Told(dev, y, n) \ Wrong(dev)
      PROVE  c \in {"banner", "nocrypt"} /\ c \in M
  BY <1>1, <1>2, <1>4, <1>6
<1>7. \A c \in {"banner", "nocrypt"} : c \in DOMAIN Presumed(dev.door) /\ Presumed(dev.door)[c] = {c}
  BY DEF Presumed
<1>8. Alarm(dev, i, y, n)
  BY <1>6, <1>7 DEF Alarm, M
<1>9. Passes(dev, y, n)
  <2> SUFFICES ASSUME NEW c \in Ran(dev.door, dev.given, y, n), c \notin PassedUnread(dev)
               PROVE  c \in Told(dev, y, n) \cup n /\ c \in {"telnet", "banner", "nocrypt"}
    BY PassLaw DEF Passes
  <2> QED
    BY <1>1, <1>2, <1>3, <1>4
<1> QED
  BY <1>5, <1>8, <1>9 DEF Verdicts, Exact, M

\* IOS devices: every weakness is a line of one configuration.
LEMMA CiscoVerdicts ==
  ASSUME NEW dev, Met(dev), NEW i, NEW y, NEW n, Known(dev, i, y, n), Ended(dev, i, y),
         dev.door = "cisco"
  PROVE  Verdicts(dev, i, y, n)
<1> DEFINE H == dev.holds
           M == Missed(dev, i, y \cup n)
           P == {"config"} \cup CiscoChecks
<1>1. /\ y \cup n \subseteq P /\ M = P \ (y \cup n) /\ y \subseteq H /\ n \cap H = {} /\ dev.void = {}
      /\ "config" \in y => CiscoChecks \subseteq y \cup n
  <2>1. ProbesOf(DevicePlan(dev)) = P /\ Asked(dev) = P
    BY DoorAsks DEF DevicePlan, Asked
  <2>2. dev.void = {}
    BY DEF Met, Blank, Databases, Swept
  <2>3. /\ "config" \in y => CiscoChecks \subseteq y \cup n
        /\ y \subseteq H /\ n \cap H = {}
    BY PlainShows DEF Known, Together
  <2>4. y \cup n \subseteq Asked(dev) \ dev.void /\ M = ProbesOf(DevicePlan(dev)) \ (y \cup n)
    BY EndLaw
  <2> QED
    BY <2>1, <2>2, <2>3, <2>4
<1>2. /\ Told(dev, y, n) = IF "config" \in y THEN y \cap CiscoChecks ELSE {}
      /\ Wrong(dev) = IF "config" \in H THEN H \cap CiscoChecks ELSE {}
      /\ Ran(dev.door, dev.given, y, n) = IF "config" \in y THEN CiscoChecks ELSE {}
  BY DEF Told, Wrong, Flags, Weak, CiscoFlags, Ran, CiscoRan, Databases
<1>3. "mgmt" \notin CiscoChecks /\ "http" \notin CiscoChecks /\ "oldtls" \notin CiscoChecks
      /\ "cleartext" \notin CiscoChecks
  BY DEF CiscoChecks, ConfigChecks
<1> HIDE DEF H, M
<1>4. M \subseteq dev.void => Told(dev, y, n) = Wrong(dev)
  BY <1>1, <1>2
<1>5. Told(dev, y, n) \subseteq Wrong(dev)
  BY <1>1, <1>2
<1>6. Passes(dev, y, n)
  BY <1>1, <1>2, <1>3 DEF Passes, Evidence, Fails
<1> QED
  BY <1>4, <1>5, <1>6 DEF Verdicts, Exact, Alarm, M

\* Hypervisors: what is told is what the host shows.
LEMMA EsxiVerdicts ==
  ASSUME NEW dev, Met(dev), NEW i, NEW y, NEW n, Known(dev, i, y, n), Ended(dev, i, y),
         dev.door = "esxi"
  PROVE  Verdicts(dev, i, y, n)
<1> DEFINE H == dev.holds
           M == Missed(dev, i, y \cup n)
           P == {"vmware", "version", "mob", "weaktls"}
<1>1. /\ y \cup n \subseteq P /\ y \subseteq H /\ n \cap H = {} /\ H \subseteq P /\ dev.void = {}
      /\ M = P \ (y \cup n) \/ ("vmware" \notin y /\ i > 1)
  <2>1. ProbesOf(DevicePlan(dev)) = P /\ Asked(dev) = P
    BY DoorAsks DEF DevicePlan, Asked
  <2>2. dev.void = {} /\ H \subseteq P
    BY DoorFacts DEF Met, Blank, Databases, Swept
  <2>3. y \subseteq H /\ n \cap H = {}
    BY PlainShows DEF Known
  <2>4. /\ y \cup n \subseteq Asked(dev) \ dev.void
        /\ M = ProbesOf(DevicePlan(dev)) \ (y \cup n) \/ ("vmware" \notin y /\ i > 1)
    BY EndLaw
  <2> QED
    BY <2>1, <2>2, <2>3, <2>4
<1>2. i > 1 /\ "vmware" \notin y \cup n => "vmware" \in M
  <2>1. "vmware" \in DevicePlan(dev)[1]
    BY DEF DevicePlan, Plan, EsxiPlan
  <2>2. i > 1 => 1 \in 1..i - 1
    BY DEF Known, Within
  <2> QED
    BY <2>1, <2>2 DEF Missed
<1>3. /\ Told(dev, y, n) = IF "vmware" \in y THEN y \cap {"version", "mob", "weaktls"} ELSE {}
      /\ Wrong(dev) = IF "vmware" \in H THEN H \ Side ELSE {}
      /\ Ran(dev.door, dev.given, y, n) =
           IF "vmware" \in y THEN {"weaktls"} \cup ((y \cup n) \cap {"mob"}) ELSE {}
      /\ PassedUnread(dev) = {"weaktls"}
  BY DEF Told, Wrong, Flags, Weak, EsxiFlags, Ran, EsxiRan, PassedUnread, Databases, Swept
<1> HIDE DEF H, M
<1>4. ASSUME M \subseteq dev.void PROVE Told(dev, y, n) = Wrong(dev)
  <2>1. CASE "vmware" \in y
    <3>1. y = H
      BY <2>1, <1>1, <1>4
    <3> QED
      BY <2>1, <3>1, <1>1, <1>3 DEF Side
  <2>2. CASE "vmware" \notin y
    <3>1. "vmware" \notin H
      BY <2>2, <1>1, <1>2, <1>4
    <3> QED
      BY <2>2, <3>1, <1>3
  <2> QED
    BY <2>1, <2>2
<1>5. Told(dev, y, n) \subseteq Wrong(dev)
  BY <1>1, <1>3 DEF Side
<1>6. Passes(dev, y, n)
  <2> SUFFICES ASSUME NEW c \in Ran(dev.door, dev.given, y, n), c \notin PassedUnread(dev)
               PROVE  c \in Told(dev, y, n) \cup n /\ c = "mob"
    BY PassLaw DEF Passes
  <2> QED
    BY <1>3
<1> QED
  BY <1>4, <1>5, <1>6 DEF Verdicts, Exact, Alarm, M

\* An audit over one connection has read all the device shows, but the
\* look-up of packages.
LEMMA FragileReads ==
  ASSUME NEW dev, Met(dev), NEW i, NEW y, NEW n, Known(dev, i, y, n), Ended(dev, i, y),
         dev.door \in Fragile
  PROVE  /\ y \subseteq dev.holds /\ n \cap dev.holds = {} /\ dev.holds \cap dev.void = {}
         /\ y \cup n \subseteq ProbesOf(DevicePlan(dev)) \ dev.void
         /\ ProbesOf(DevicePlan(dev)) \ (dev.void \cup {"packages"}) \subseteq y \cup n
         /\ Missed(dev, i, y \cup n) = ProbesOf(DevicePlan(dev)) \ (y \cup n)
         /\ dev.holds \subseteq Facts(dev.door)
<1>1. dev.door \notin {"smb", "ldap", "web", "telnet", "esxi"}
  BY DEF Fragile, Databases, Swept
<1>2. y \subseteq dev.holds /\ n \cap dev.holds = {} /\ dev.holds \cap dev.void = {}
  BY <1>1, PlainShows DEF Known, Met
<1>3. Asked(dev) = ProbesOf(DevicePlan(dev))
  BY <1>1 DEF Asked
<1> QED
  BY <1>1, <1>2, <1>3, EndLaw DEF Met

\* Databases: the three of them tell every setting that was read.
LEMMA DatabaseVerdicts ==
  ASSUME NEW dev, Met(dev), NEW i, NEW y, NEW n, Known(dev, i, y, n), Ended(dev, i, y),
         dev.door \in Databases
  PROVE  Verdicts(dev, i, y, n)
<1> DEFINE H == dev.holds
           P == ProbesOf(DevicePlan(dev))
<1>1. /\ y \subseteq H /\ n \cap H = {} /\ H \cap dev.void = {} /\ y \cup n \subseteq P \ dev.void
      /\ P \ (dev.void \cup {"packages"}) \subseteq y \cup n /\ H \subseteq Facts(dev.door)
  BY FragileReads DEF Fragile
<1>2. /\ Facts(dev.door) = P
      /\ P \cap {"packages", "oldtls", "mgmt", "http", "cleartext"} = {}
  <2>1. CASE dev.door = "postgres"
    <3>1. P = {"nossl", "nolog", "md5"}
      BY <2>1, DoorAsks DEF DevicePlan
    <3>2. Facts(dev.door) = {"nossl", "nolog", "md5"}
      BY <2>1, DoorFacts
    <3> QED
      BY <3>1, <3>2
  <2>2. CASE dev.door = "mysql"
    <3>1. P = {"notls", "infile", "native"}
      BY <2>2, DoorAsks DEF DevicePlan
    <3>2. Facts(dev.door) = {"notls", "infile", "native"}
      BY <2>2, DoorFacts
    <3> QED
      BY <3>1, <3>2
  <2>3. CASE dev.door = "mssql"
    <3>1. P = {"xpcmd", "ole", "clr", "mixed"}
      BY <2>3, DoorAsks DEF DevicePlan
    <3>2. Facts(dev.door) = {"xpcmd", "ole", "clr", "mixed"}
      BY <2>3, DoorFacts
    <3> QED
      BY <3>1, <3>2
  <2>4. CASE dev.door = "oracle"
    <3>1. P = {"osauth", "dictionary", "sql92", "caseless"}
      BY <2>4, DoorAsks DEF DevicePlan
    <3>2. Facts(dev.door) = {"osauth", "dictionary", "sql92", "caseless"}
      BY <2>4, DoorFacts
    <3> QED
      BY <3>1, <3>2
  <2> QED
    BY <2>1, <2>2, <2>3, <2>4 DEF Databases
<1>3. y = H /\ P = y \cup n \cup (dev.void \cap P)
  BY <1>1, <1>2
<1>4. Told(dev, y, n) = y
  <2>1. CASE dev.door = "postgres"
    <3>1. dev.void = {} /\ P = {"nossl", "nolog", "md5"}
      BY <2>1, DoorAsks DEF Met, Blank, DevicePlan, Databases, Swept
    <3>2. Told(dev, y, n) = {"nossl", "nolog", "md5"} \ n
      BY <2>1 DEF Told, Flags, PgFlags
    <3> QED
      BY <3>1, <3>2, <1>1, <1>3
  <2>2. CASE dev.door # "postgres"
    BY <2>2 DEF Told, Flags, MysqlFlags, MssqlFlags, OracleFlags, Databases
  <2> QED
    BY <2>1, <2>2
<1>5. /\ Wrong(dev) = H /\ Ran(dev.door, dev.given, y, n) = P /\ PassedUnread(dev) = dev.void
  BY DEF Wrong, Weak, Ran, PassedUnread, Databases, Swept, DevicePlan
<1> HIDE DEF H, P
<1>6. Passes(dev, y, n)
  <2> SUFFICES ASSUME NEW c \in P, c \notin dev.void
               PROVE  c \in Told(dev, y, n) \cup n /\ c \notin {"oldtls", "mgmt", "http", "cleartext"}
    BY <1>5, PassLaw DEF Passes
  <2> QED
    BY <1>2, <1>3, <1>4
<1> QED
  BY <1>3, <1>4, <1>5, <1>6 DEF Verdicts, Exact, Alarm

\* SSH: every control that was read is told as it is.
LEMMA SshVerdicts ==
  ASSUME NEW dev, Met(dev), NEW i, NEW y, NEW n, Known(dev, i, y, n), Ended(dev, i, y),
         dev.door = "ssh"
  PROVE  Verdicts(dev, i, y, n)
<1> DEFINE H == dev.holds
           M == Missed(dev, i, y \cup n)
           C == SshControls \cup AuthControls
           B == {"kernel", "packages", "suid", "caps", "cron"} \cup C
           P == B \cup IF "attempt" \in dev.given THEN {"isroot", "escalates"} ELSE {}
<1>1. /\ y \subseteq H /\ n \cap H = {} /\ H \cap dev.void = {} /\ y \cup n \subseteq P \ dev.void
      /\ P \ (dev.void \cup {"packages"}) \subseteq y \cup n
      /\ M = P \ (y \cup n) /\ H \subseteq B \cup {"isroot", "escalates"}
  <2>1. ProbesOf(DevicePlan(dev)) = P
    BY DoorAsks DEF DevicePlan
  <2>2. Facts(dev.door) = B \cup {"isroot", "escalates"}
    BY DoorFacts
  <2>3. dev.door \in Fragile
    BY DEF Fragile, Swept
  <2>4. /\ y \subseteq H /\ n \cap H = {} /\ H \cap dev.void = {}
        /\ y \cup n \subseteq ProbesOf(DevicePlan(dev)) \ dev.void
        /\ ProbesOf(DevicePlan(dev)) \ (dev.void \cup {"packages"}) \subseteq y \cup n
        /\ M = ProbesOf(DevicePlan(dev)) \ (y \cup n) /\ H \subseteq Facts(dev.door)
    BY <2>3, FragileReads
  <2> HIDE DEF P, B, M, H
  <2> QED
    BY <2>1, <2>2, <2>4
<1>2. /\ Told(dev, y, n) =
           (y \ {"escalates", "maxauth"}) \cup ({"maxauth"} \ n)
             \cup (IF "isroot" \in y THEN {} ELSE y \cap {"escalates"})
      /\ Wrong(dev) =
           (H \ {"isroot", "escalates"}) \cup ({"maxauth"} \cap dev.void)
             \cup (IF "attempt" \notin dev.given THEN {}
                   ELSE H \cap {IF "isroot" \in H THEN "isroot" ELSE "escalates"})
      /\ Ran(dev.door, dev.given, y, n) = C /\ PassedUnread(dev) = dev.void
  BY DEF Told, Wrong, Flags, SshFlags, Weak, Ran, PassedUnread, Databases, Swept
<1>3. /\ C \cap {"packages", "oldtls", "mgmt", "http", "cleartext", "isroot", "escalates"} = {}
      /\ "maxauth" \in C
  BY DEF SshControls, AuthControls
<1> HIDE DEF H, M, C
<1>4. ASSUME M \subseteq dev.void PROVE Told(dev, y, n) = Wrong(dev)
  <2>1. /\ \A f \in P : f \in y <=> f \in H
        /\ "maxauth" \notin n <=> "maxauth" \in H \cup dev.void
    BY <1>1, <1>3, <1>4
  <2>2. ASSUME NEW c PROVE c \in Told(dev, y, n) <=> c \in Wrong(dev)
    <3>1. CASE c = "maxauth"
      <4>1. c \in Told(dev, y, n) <=> "maxauth" \notin n
        BY <3>1, <1>2
      <4>2. c \in Wrong(dev) <=> "maxauth" \in H \cup dev.void
        BY <3>1, <1>2
      <4> QED
        BY <4>1, <4>2, <2>1
    <3>2. CASE c \in {"isroot", "escalates"}
      BY <3>2, <2>1, <1>1, <1>2, <1>3
    <3>3. CASE c \notin {"maxauth", "isroot", "escalates"}
      BY <3>3, <2>1, <1>1, <1>2
    <3> QED
      BY <3>1, <3>2, <3>3
  <2> QED
    BY <2>2
<1>5. Told(dev, y, n) \subseteq Wrong(dev)
  <2> SUFFICES ASSUME NEW c \in Told(dev, y, n) PROVE c \in Wrong(dev)
    OBVIOUS
  <2>1. CASE c = "maxauth"
    BY <2>1, <1>1, <1>2, <1>3
  <2>2. CASE c \in {"isroot", "escalates"}
    BY <2>2, <1>1, <1>2, <1>3
  <2>3. CASE c \notin {"maxauth", "isroot", "escalates"}
    BY <2>3, <1>1, <1>2
  <2> QED
    BY <2>1, <2>2, <2>3
<1>6. Passes(dev, y, n)
  <2> SUFFICES ASSUME NEW c \in C, c \notin dev.void
               PROVE  c \in Told(dev, y, n) \cup n /\ c \notin {"oldtls", "mgmt", "http", "cleartext"}
    BY <1>2, PassLaw DEF Passes
  <2> QED
    BY <1>1, <1>2, <1>3
<1> QED
  BY <1>4, <1>5, <1>6 DEF Verdicts, Exact, Alarm, M

\* WinRM: every control that was read is told as it is.
LEMMA WinrmVerdicts ==
  ASSUME NEW dev, Met(dev), NEW i, NEW y, NEW n, Known(dev, i, y, n), Ended(dev, i, y),
         dev.door = "winrm"
  PROVE  Verdicts(dev, i, y, n)
<1> DEFINE H == dev.holds
           P == WinControls \cup {"privileges", "elevated", "unquoted"}
<1>1. /\ y \subseteq H /\ n \cap H = {} /\ H \cap dev.void = {} /\ y \cup n \subseteq P \ dev.void
      /\ P \ (dev.void \cup {"packages"}) \subseteq y \cup n /\ H \subseteq P
  <2>1. ProbesOf(DevicePlan(dev)) = P /\ Facts(dev.door) = P
    BY DoorAsks, DoorFacts DEF DevicePlan
  <2>2. dev.door \in Fragile
    BY DEF Fragile, Swept
  <2> QED
    BY <2>1, <2>2, FragileReads
<1>2. /\ Told(dev, y, n) = y /\ Wrong(dev) = H
      /\ Ran(dev.door, dev.given, y, n) = WinControls /\ PassedUnread(dev) = dev.void
  BY DEF Told, Wrong, Flags, WinFlags, Weak, Ran, WinRan, PassedUnread, Databases, Swept
<1>3. P \cap {"packages", "oldtls", "mgmt", "http", "cleartext"} = {}
  BY DEF WinControls
<1> HIDE DEF H
<1>4. y = H
  BY <1>1, <1>3
<1>5. Passes(dev, y, n)
  <2> SUFFICES ASSUME NEW c \in WinControls, c \notin dev.void
               PROVE  c \in Told(dev, y, n) \cup n /\ c \notin {"oldtls", "mgmt", "http", "cleartext"}
    BY <1>2, PassLaw DEF Passes
  <2> QED
    BY <1>1, <1>2, <1>3
<1> QED
  BY <1>2, <1>4, <1>5 DEF Verdicts, Exact, Alarm

\* Doors without a login whose facts show as they are.
LEMMA OpenReads ==
  ASSUME NEW dev, Met(dev), NEW i, NEW y, NEW n, Known(dev, i, y, n), Ended(dev, i, y),
         dev.door \in {"snmp", "rpc", "net"}
  PROVE  /\ y \subseteq dev.holds /\ n \cap dev.holds = {} /\ dev.void = {}
         /\ dev.holds \subseteq ProbesOf(DevicePlan(dev))
         /\ Missed(dev, i, y \cup n) = ProbesOf(DevicePlan(dev)) \ (y \cup n)
<1>1. y \subseteq dev.holds /\ n \cap dev.holds = {}
  BY PlainShows DEF Known
<1>2. dev.void = {}
  BY DEF Met, Blank, Databases, Swept
<1>3. Facts(dev.door) = ProbesOf(DevicePlan(dev))
  <2>1. CASE dev.door = "snmp"
    BY <2>1, DoorAsks, DoorFacts DEF DevicePlan
  <2>2. CASE dev.door = "rpc"
    BY <2>2, DoorAsks, DoorFacts DEF DevicePlan
  <2>3. CASE dev.door = "net"
    BY <2>3, DoorAsks, DoorFacts DEF DevicePlan
  <2> QED
    BY <2>1, <2>2, <2>3
<1> QED
  BY <1>1, <1>2, <1>3, EndLaw DEF Met

\* SNMP: a community that answered is the finding.
LEMMA SnmpVerdicts ==
  ASSUME NEW dev, Met(dev), NEW i, NEW y, NEW n, Known(dev, i, y, n), Ended(dev, i, y),
         dev.door = "snmp"
  PROVE  Verdicts(dev, i, y, n)
<1> DEFINE H == dev.holds
           M == Missed(dev, i, y \cup n)
           P == {"known2c", "known1", "own2c", "own1"}
<1>1. y \subseteq H /\ n \cap H = {} /\ dev.void = {} /\ H \subseteq P /\ M = P \ (y \cup n)
  <2>1. ProbesOf(DevicePlan(dev)) = P
    BY DoorAsks DEF DevicePlan
  <2>2. /\ y \subseteq H /\ n \cap H = {} /\ dev.void = {} /\ H \subseteq ProbesOf(DevicePlan(dev))
        /\ M = ProbesOf(DevicePlan(dev)) \ (y \cup n)
    BY OpenReads
  <2> QED
    BY <2>1, <2>2
<1>2. Told(dev, y, n) = SnmpFlags(y) /\ Wrong(dev) = SnmpFlags(H) /\ Ran(dev.door, dev.given, y, n) = {}
  BY DEF Told, Wrong, Flags, Weak, Ran, Databases
<1>3. Presumed(dev.door) = [silent |-> P]
  BY DEF Presumed, SnmpPlan
<1> HIDE DEF H, M
<1>4. M \subseteq dev.void => y = H
  BY <1>1
<1>5. ASSUME NEW c \in SnmpFlags(y) \ SnmpFlags(H)
      PROVE  c = "silent" /\ P \cap M # {}
  BY <1>1, <1>5 DEF SnmpFlags
<1>6. "silent" \in DOMAIN Presumed(dev.door) /\ Presumed(dev.door)["silent"] = P
  BY <1>3
<1>7. Alarm(dev, i, y, n)
  BY <1>2, <1>5, <1>6 DEF Alarm, M
<1>8. Passes(dev, y, n)
  BY <1>2 DEF Passes
<1> QED
  BY <1>2, <1>4, <1>7, <1>8 DEF Verdicts, Exact, M

\* RPC: a mapper that answered is the finding.
LEMMA RpcVerdicts ==
  ASSUME NEW dev, Met(dev), NEW i, NEW y, NEW n, Known(dev, i, y, n), Ended(dev, i, y),
         dev.door = "rpc"
  PROVE  Verdicts(dev, i, y, n)
<1> DEFINE H == dev.holds
           M == Missed(dev, i, y \cup n)
           P == {"pipe", "mapper"}
<1>1. y \subseteq H /\ n \cap H = {} /\ dev.void = {} /\ H \subseteq P /\ M = P \ (y \cup n)
  <2>1. ProbesOf(DevicePlan(dev)) = P
    BY DoorAsks DEF DevicePlan
  <2>2. /\ y \subseteq H /\ n \cap H = {} /\ dev.void = {} /\ H \subseteq ProbesOf(DevicePlan(dev))
        /\ M = ProbesOf(DevicePlan(dev)) \ (y \cup n)
    BY OpenReads
  <2> QED
    BY <2>1, <2>2
<1>2. Told(dev, y, n) = RpcFlags(y) /\ Wrong(dev) = RpcFlags(H) /\ Ran(dev.door, dev.given, y, n) = {}
  BY DEF Told, Wrong, Flags, Weak, Ran, Databases
<1> HIDE DEF H, M
<1>3. M \subseteq dev.void => y = H
  BY <1>1
<1>4. RpcFlags(y) \subseteq RpcFlags(H)
  BY <1>1 DEF RpcFlags
<1>5. Passes(dev, y, n)
  BY <1>2 DEF Passes
<1> QED
  BY <1>2, <1>3, <1>4, <1>5 DEF Verdicts, Exact, Alarm, M

\* Ports: what is told is what was found open.
LEMMA NetVerdicts ==
  ASSUME NEW dev, Met(dev), NEW i, NEW y, NEW n, Known(dev, i, y, n), Ended(dev, i, y),
         dev.door = "net"
  PROVE  Verdicts(dev, i, y, n)
<1> DEFINE H == dev.holds
           M == Missed(dev, i, y \cup n)
<1>1. /\ y \subseteq H /\ n \cap H = {} /\ dev.void = {} /\ H \subseteq Exposed
      /\ M = Exposed \ (y \cup n)
  <2>1. ProbesOf(DevicePlan(dev)) = Exposed
    BY DoorAsks DEF DevicePlan
  <2> QED
    BY <2>1, OpenReads
<1>2. /\ Told(dev, y, n) = y /\ Wrong(dev) = H /\ PassedUnread(dev) = {"http"}
      /\ Ran(dev.door, dev.given, y, n) =
           NetworkRan(dev.door, Ports(dev.door, dev.given, y, n), Told(dev, y, n))
  BY DEF Told, Wrong, Flags, Weak, Ran, PassedUnread, Databases, Swept
<1> HIDE DEF H, M
<1>3. M \subseteq dev.void => y = H
  BY <1>1
<1>4. Passes(dev, y, n)
  <2> SUFFICES ASSUME NEW c, c \in Ran(dev.door, dev.given, y, n), c \notin PassedUnread(dev)
               PROVE  Fails(Ports(dev.door, dev.given, y, n), Told(dev, y, n), c)
    BY DEF Passes
  <2>1. c = "mgmt" \/ c \in Told(dev, y, n) \cap Exposed
    BY <1>2 DEF NetworkRan
  <2> QED
    BY <2>1 DEF Fails, Exposed
<1> QED
  BY <1>1, <1>2, <1>3, <1>4 DEF Verdicts, Exact, Alarm, M

\* Web scans: what is told is what the pages and the handshakes show.
LEMMA WebVerdicts ==
  ASSUME NEW dev, Met(dev), NEW i, NEW y, NEW n, Known(dev, i, y, n), Ended(dev, i, y),
         dev.door = "web"
  PROVE  Verdicts(dev, i, y, n)
<1> DEFINE H == dev.holds
           g == dev.given
           M == Missed(dev, i, y \cup n)
           P == ProbesOf(DevicePlan(dev))
           ports == Ports(dev.door, g, y, n)
<1>1. /\ y \cup n \subseteq P /\ M = P \ (y \cup n) /\ dev.void = {}
      /\ P = PageFacts \cup {"path"} \cup (IF "dirs" \in g THEN DirFacts ELSE {})
               \cup (IF "https" \in g THEN TlsFacts \cup {"tls10"} ELSE {})
               \cup (IF "aggressive" \in g THEN ActiveFacts ELSE {})
  <2>1. dev.void = {} /\ Asked(dev) = P
    BY DEF Met, Blank, Asked, Databases, Swept
  <2>2. y \cup n \subseteq Asked(dev) \ dev.void /\ M = P \ (y \cup n)
    BY EndLaw
  <2>3. P = PageFacts \cup {"path"} \cup (IF "dirs" \in g THEN DirFacts ELSE {})
               \cup (IF "https" \in g THEN TlsFacts \cup {"tls10"} ELSE {})
               \cup (IF "aggressive" \in g THEN ActiveFacts ELSE {})
    BY DoorAsks DEF DevicePlan
  <2> QED
    BY <2>1, <2>2, <2>3
<1>2. /\ \A f \in y : f \in H \/ (f = "dir" /\ "catchall" \in H /\ "catchall" \notin y)
      /\ \A f \in n : f \notin H
      /\ "dir" \in P => "catchall" \in P
  <2>1. "dir" \in P => "catchall" \in P
    BY <1>1 DEF DirFacts, PageFacts, TlsFacts, ActiveFacts
  <2> QED
    BY <2>1 DEF Known, Truly, Shows
<1>3. \A group \in {PageFacts, TlsFacts} : group \cap (y \cup n) \in {{}, group}
  BY DEF Known, Together
<1>4. /\ Told(dev, y, n) =
           y \cup (IF "https" \in g /\ TlsFacts \cap (y \cup n) = {} THEN {"tlserror"} ELSE {})
      /\ Wrong(dev) = H \cap P
      /\ PassedUnread(dev) = IF "https" \in g THEN {} ELSE TlsFacts
      /\ Ran(dev.door, g, y, n) = NetworkRan(dev.door, ports, Told(dev, y, n))
      /\ ports = IF PageFacts \cap (y \cup n) = {} THEN {} ELSE g
  BY DEF Told, Wrong, Flags, WebFlags, Weak, Ran, Ports, PassedUnread, Databases, Swept, DevicePlan
<1>5. Presumed(dev.door) = [dir |-> {"catchall"}, tlserror |-> TlsFacts]
  BY DEF Presumed
<1> HIDE DEF H, M, P, ports
<1>6. "oldtls" \in TlsFacts /\ ("https" \in g => TlsFacts \subseteq P)
  BY <1>1 DEF TlsFacts
<1>7. M \subseteq dev.void => Told(dev, y, n) = Wrong(dev)
  BY <1>1, <1>2, <1>4, <1>6
<1>8. ASSUME NEW c \in Told(dev, y, n) \ Wrong(dev)
      PROVE  (c = "dir" /\ "catchall" \in M) \/ (c = "tlserror" /\ TlsFacts \cap M # {})
  BY <1>1, <1>2, <1>4, <1>6, <1>8
<1>9. /\ "dir" \in DOMAIN Presumed(dev.door) /\ Presumed(dev.door)["dir"] = {"catchall"}
      /\ "tlserror" \in DOMAIN Presumed(dev.door) /\ Presumed(dev.door)["tlserror"] = TlsFacts
  BY <1>5
<1>10. Alarm(dev, i, y, n)
  BY <1>8, <1>9 DEF Alarm, M
<1>11. Passes(dev, y, n)
  <2> SUFFICES ASSUME NEW c \in Ran(dev.door, g, y, n), c \notin PassedUnread(dev),
                      ~ Fails(ports, Told(dev, y, n), c)
               PROVE  Evidence(c) \cap (IF c = "cleartext" THEN y ELSE n) # {}
    BY DEF Passes, ports
  <2>1. \/ c \in {"oldtls", "cipher", "selfsigned", "expired"} /\ "tlserror" \notin Told(dev, y, n)
        \/ c \in Told(dev, y, n) \cap Exposed
        \/ c = "mgmt"
        \/ c = "http" /\ ({"p80", "p443"} \cap ports # {} \/ "hsts" \in Told(dev, y, n))
    BY <1>4 DEF NetworkRan
  <2>2. CASE c \in {"oldtls", "cipher", "selfsigned", "expired"} /\ "tlserror" \notin Told(dev, y, n)
    <3>1. c \in TlsFacts /\ "https" \in g
      BY <2>2, <1>4 DEF TlsFacts
    <3>2. c \in y \cup n
      BY <2>2, <3>1, <1>3, <1>4
    <3>3. c \notin Told(dev, y, n)
      BY <2>2 DEF Fails
    <3>4. c \in n
      BY <3>2, <3>3, <1>4
    <3> QED
      BY <2>2, <3>4 DEF Evidence
  <2>3. CASE c \in Told(dev, y, n) \cap Exposed
    BY <2>3 DEF Fails, Exposed
  <2>4. CASE c = "mgmt"
    BY <2>4 DEF Fails
  <2>5. CASE c = "http" /\ ({"p80", "p443"} \cap ports # {} \/ "hsts" \in Told(dev, y, n))
    <3>1. "p80" \notin ports /\ "hsts" \notin Told(dev, y, n)
      BY <2>5 DEF Fails
    <3>2. ports # {}
      BY <2>5, <3>1
    <3>3. "hsts" \in y \cup n
      <4>1. "hsts" \in PageFacts
        BY DEF PageFacts
      <4> QED
        BY <4>1, <3>2, <1>3, <1>4
    <3>4. "hsts" \in n
      BY <3>1, <3>3, <1>4
    <3> QED
      BY <2>5, <3>4 DEF Evidence
  <2> QED
    BY <2>1, <2>2, <2>3, <2>4, <2>5
<1> QED
  BY <1>7, <1>10, <1>11 DEF Verdicts, Exact, M

\* Every door keeps the rules of verdicts.
LEMMA DoorVerdicts ==
  ASSUME NEW dev, Met(dev), NEW i, NEW y, NEW n, Known(dev, i, y, n), Ended(dev, i, y)
  PROVE  Verdicts(dev, i, y, n)
<1>1. dev.door \in Doors
  BY DevicePlanLaw
<1> QED
  BY <1>1, SmbVerdicts, LdapVerdicts, TelnetVerdicts, CiscoVerdicts, EsxiVerdicts, DatabaseVerdicts,
     SshVerdicts, WinrmVerdicts, SnmpVerdicts, RpcVerdicts, NetVerdicts, WebVerdicts
     DEF Doors, Swept

----------------------------------------------------------------------------
(* Host checks: the audits of a scan                                       *)

AnyFact == UNION {Facts(d) : d \in Doors}

CheckShape ==
  /\ device \in [Hosts -> Device \cup {unseen}]
  /\ phase \in [Hosts -> {"todo", "open", "stored", "failed"}]
  /\ at \in [Hosts -> Nat] /\ lost \in 0..MaxLost
  /\ yes \in [Hosts -> SUBSET AnyFact] /\ no \in [Hosts -> SUBSET AnyFact]
  /\ stored \in Seq(Hosts)

\* Of a host that is audited it is known what was read, and a stored audit
\* had nothing left to ask.
HostRead(h) ==
  /\ device[h] = unseen <=> phase[h] \in {"todo", "failed"}
  /\ device[h] = unseen => at[h] = 1 /\ yes[h] = {} /\ no[h] = {}
  /\ device[h] # unseen => Met(device[h]) /\ Known(device[h], at[h], yes[h], no[h])
  /\ phase[h] = "stored" => Ended(device[h], at[h], yes[h])
  /\ phase[h] = "stored" <=> \E i \in DOMAIN stored : stored[i] = h

ReadInv == CheckShape /\ \A h \in Hosts : HostRead(h)

\* The audit of a host stays as it was.
Untouched(h) ==
  device'[h] = device[h] /\ at'[h] = at[h] /\ yes'[h] = yes[h] /\ no'[h] = no[h]

\* The reading of a host that no step touches stays as it was.
LEMMA UntouchedRead ==
  ASSUME NEW h \in Hosts, HostRead(h), Untouched(h), phase'[h] = phase[h],
         \/ stored' = stored
         \/ \E g \in Hosts \ {h} : stored \in Seq(Hosts) /\ stored' = Append(stored, g)
  PROVE  HostRead(h)'
<1>1. (\E i \in DOMAIN stored : stored[i] = h) <=> (\E i \in DOMAIN stored' : stored'[i] = h)
  <2>1. CASE stored' = stored
    BY <2>1
  <2>2. ASSUME NEW g \in Hosts \ {h}, stored \in Seq(Hosts), stored' = Append(stored, g)
        PROVE  (\E i \in DOMAIN stored : stored[i] = h) <=> (\E i \in DOMAIN stored' : stored'[i] = h)
    <3>1. /\ DOMAIN stored = 1..Len(stored) /\ Len(stored) \in Nat
          /\ DOMAIN stored' = 1..Len(stored) + 1 /\ stored'[Len(stored) + 1] = g
          /\ \A i \in 1..Len(stored) : stored'[i] = stored[i]
      BY <2>2
    <3>2. \A i \in 1..Len(stored) + 1 : i = Len(stored) + 1 \/ i \in 1..Len(stored)
      BY <3>1
    <3> QED
      BY <3>1, <3>2
  <2> QED
    BY <2>1, <2>2
<1> QED
  BY <1>1 DEF HostRead, Untouched

\* A connection meets a device of which nothing has been read.
LEMMA ReadConnect ==
  ASSUME ReadInv, NEW h \in Hosts, Connect(h)
  PROVE  ReadInv'
<1>0. PICK d \in UsedDoors :
        \E dev \in Devices(d, OddLeft) :
          /\ device' = [device EXCEPT ![h] = dev]
          /\ yes' = [yes EXCEPT ![h] = {"telnet"} \cap dev.holds]
          /\ no' = [no EXCEPT ![h] = IF d = "telnet" THEN {"telnet"} \ dev.holds ELSE {}]
  BY DEF Connect
<1>1. PICK dev \in Devices(d, OddLeft) :
        /\ device' = [device EXCEPT ![h] = dev]
        /\ yes' = [yes EXCEPT ![h] = {"telnet"} \cap dev.holds]
        /\ no' = [no EXCEPT ![h] = IF d = "telnet" THEN {"telnet"} \ dev.holds ELSE {}]
  BY <1>0
<1>2. /\ phase' = [phase EXCEPT ![h] = "open"] /\ UNCHANGED <<at, lost, stored>> /\ phase[h] = "todo"
  BY DEF Connect, scan
<1>3. Met(dev) /\ dev.door = d /\ dev # unseen /\ dev \in Device /\ d \in Doors
  <2>1. d \in Doors
    BY HostChecksAssumption
  <2> QED
    BY <2>1, MetLaw DEF Met
<1> DEFINE y == {"telnet"} \cap dev.holds
           n == IF dev.door = "telnet" THEN {"telnet"} \ dev.holds ELSE {}
<1>4. Known(dev, 1, y, n)
  BY <1>3, KnownAtStart
<1>5. y \in SUBSET AnyFact /\ n \in SUBSET AnyFact
  <2>1. y \cup n \subseteq Facts(d)
    BY <1>3, <1>4, DevicePlanLaw DEF Known, Within
  <2> QED
    BY <2>1, <1>3 DEF AnyFact
<1>6. /\ device' = [device EXCEPT ![h] = dev] /\ yes' = [yes EXCEPT ![h] = y]
      /\ no' = [no EXCEPT ![h] = n]
  BY <1>1, <1>3
<1> HIDE DEF y, n
<1>7. CheckShape'
  BY <1>2, <1>3, <1>5, <1>6 DEF ReadInv, CheckShape
<1>8. HostRead(h)'
  BY <1>2, <1>3, <1>4, <1>6 DEF ReadInv, CheckShape, HostRead
<1>9. ASSUME NEW g \in Hosts \ {h} PROVE HostRead(g)'
  <2>1. Untouched(g) /\ phase'[g] = phase[g] /\ stored' = stored
    BY <1>2, <1>6 DEF ReadInv, CheckShape, Untouched
  <2> QED
    BY <2>1, UntouchedRead DEF ReadInv
<1> QED
  BY <1>7, <1>8, <1>9 DEF ReadInv

\* The audit is over exactly when its plan has ended.
LEMMA OverIsEnded ==
  ASSUME NEW h
  PROVE  Over(h) <=> Ended(device[h], at[h], yes[h])
BY DEF Over, Ended, PlanOf, DevicePlan

\* One answer is added to what was read: all of it is shown by the device.
LEMMA ReadProbe ==
  ASSUME ReadInv, NEW h \in Hosts, Probe(h)
  PROVE  ReadInv'
<1> DEFINE dev == device[h]
           answers == Answers(dev, yes[h], DevicePlan(dev)[at[h]])
<1>1. PICK got \in answers :
        LET whole == \A more \in answers : got \subseteq more => more = got
            kept == Kept(dev.door, got)
            shown == {f \in kept : Shows(dev.door, dev.given, dev.holds, yes[h], f)}
        IN /\ ~whole => lost < MaxLost /\ MayLose(dev.door, DevicePlan(dev)[at[h]])
           /\ lost' = IF whole THEN lost ELSE lost + 1
           /\ yes' = [yes EXCEPT ![h] = @ \cup shown]
           /\ no' = [no EXCEPT ![h] = @ \cup (kept \ shown)]
  BY DEF Probe, PlanOf, DevicePlan
<1> DEFINE kept == Kept(dev.door, got)
           shown == {f \in kept : Shows(dev.door, dev.given, dev.holds, yes[h], f)}
           y == yes[h] \cup shown
           n == no[h] \cup (kept \ shown)
<1>2. /\ phase[h] = "open" /\ ~ Ended(dev, at[h], yes[h])
      /\ at' = [at EXCEPT ![h] = @ + 1] /\ UNCHANGED <<device, phase, stored>>
  BY OverIsEnded DEF Probe, scan
<1>3. dev # unseen /\ Met(dev) /\ Known(dev, at[h], yes[h], no[h])
  BY <1>2 DEF ReadInv, HostRead
<1>4. Known(dev, at[h] + 1, y, n)
  <2>1. \/ \A more \in answers : got \subseteq more => more = got
        \/ MayLose(dev.door, DevicePlan(dev)[at[h]])
    BY <1>1
  <2> QED
    BY <1>2, <1>3, <2>1, KnownStep
<1>5. y \in SUBSET AnyFact /\ n \in SUBSET AnyFact
  <2>1. y \cup n \subseteq Facts(dev.door) /\ dev.door \in Doors
    BY <1>3, <1>4, DevicePlanLaw DEF Known, Within
  <2> QED
    BY <2>1 DEF AnyFact
<1>6. /\ yes' = [yes EXCEPT ![h] = y] /\ no' = [no EXCEPT ![h] = n] /\ lost' \in 0..MaxLost
  <2>1. lost' \in 0..MaxLost
    BY <1>1, HostChecksAssumption DEF ReadInv, CheckShape
  <2> QED
    BY <1>1, <2>1
<1> HIDE DEF y, n
<1>7. CheckShape'
  BY <1>2, <1>5, <1>6 DEF ReadInv, CheckShape
<1>8. HostRead(h)'
  BY <1>2, <1>3, <1>4, <1>6 DEF ReadInv, CheckShape, HostRead
<1>9. ASSUME NEW g \in Hosts \ {h} PROVE HostRead(g)'
  <2>1. Untouched(g) /\ phase'[g] = phase[g] /\ stored' = stored
    BY <1>2, <1>6 DEF ReadInv, CheckShape, Untouched
  <2> QED
    BY <2>1, UntouchedRead DEF ReadInv
<1> QED
  BY <1>7, <1>8, <1>9 DEF ReadInv

\* A connection that breaks forgets the device and what was read of it.
LEMMA ReadBreak ==
  ASSUME ReadInv, NEW h \in Hosts, Break(h)
  PROVE  ReadInv'
<1>1. /\ phase[h] \in {"todo", "open"} /\ phase' = [phase EXCEPT ![h] = "failed"]
      /\ device' = [device EXCEPT ![h] = unseen] /\ at' = [at EXCEPT ![h] = 1]
      /\ yes' = [yes EXCEPT ![h] = {}] /\ no' = [no EXCEPT ![h] = {}] /\ UNCHANGED <<lost, stored>>
  BY DEF Break, scan
<1>2. CheckShape'
  BY <1>1 DEF ReadInv, CheckShape
<1>3. HostRead(h)'
  BY <1>1 DEF ReadInv, CheckShape, HostRead
<1>4. ASSUME NEW g \in Hosts \ {h} PROVE HostRead(g)'
  <2>1. Untouched(g) /\ phase'[g] = phase[g] /\ stored' = stored
    BY <1>1 DEF ReadInv, CheckShape, Untouched
  <2> QED
    BY <2>1, UntouchedRead DEF ReadInv
<1> QED
  BY <1>2, <1>3, <1>4 DEF ReadInv

\* A host that is stored was read to the end of its plan.
LEMMA ReadStore ==
  ASSUME ReadInv, NEW h \in Hosts, Store(h)
  PROVE  ReadInv'
<1>1. /\ phase[h] = "open" /\ Ended(device[h], at[h], yes[h])
      /\ stored' = Append(stored, h) /\ phase' = [phase EXCEPT ![h] = "stored"]
      /\ UNCHANGED <<device, at, yes, no, lost>>
  BY OverIsEnded DEF Store
<1>2. CheckShape'
  BY <1>1 DEF ReadInv, CheckShape
<1>3. /\ Len(stored) \in Nat /\ DOMAIN stored' = 1..Len(stored) + 1 /\ stored'[Len(stored) + 1] = h
  BY <1>1 DEF ReadInv, CheckShape
<1>4. HostRead(h)'
  <2>1. Len(stored) + 1 \in DOMAIN stored' /\ stored'[Len(stored) + 1] = h
    BY <1>3
  <2>3. phase'[h] = "stored"
    BY <1>1 DEF ReadInv, CheckShape
  <2>2. HostRead(h)
    BY DEF ReadInv
  <2> QED
    BY <1>1, <2>1, <2>2, <2>3 DEF HostRead
<1>5. ASSUME NEW g \in Hosts \ {h} PROVE HostRead(g)'
  <2>1. Untouched(g) /\ phase'[g] = phase[g]
    BY <1>1 DEF ReadInv, CheckShape, Untouched
  <2> QED
    BY <1>1, <2>1, UntouchedRead DEF ReadInv, CheckShape
<1> QED
  BY <1>2, <1>4, <1>5 DEF ReadInv

\* No device has been met at the start.
LEMMA ReadAtStart == ChecksInit => ReadInv
<1> SUFFICES ASSUME ChecksInit PROVE ReadInv
  OBVIOUS
<1>1. CheckShape
  BY HostChecksAssumption DEF ChecksInit, CheckShape
<1>2. ASSUME NEW h \in Hosts PROVE HostRead(h)
  BY DEF ChecksInit, HostRead
<1> QED
  BY <1>1, <1>2 DEF ReadInv

\* What the audits of a scan have read, in every reachable state.
LEMMA ReadInvariant == ChecksSpec => []ReadInv
<1>1. ChecksInit => ReadInv
  BY ReadAtStart
<1>2. ReadInv /\ [ChecksNext]_checksVars => ReadInv'
  <2> SUFFICES ASSUME ReadInv, [ChecksNext]_checksVars PROVE ReadInv'
    OBVIOUS
  <2>1. CASE ChecksNext
    BY <2>1, ReadConnect, ReadProbe, ReadBreak, ReadStore DEF ChecksNext
  <2>2. CASE UNCHANGED checksVars
    BY <2>2 DEF checksVars, reading, scan, ReadInv, CheckShape, HostRead
  <2> QED
    BY <2>1, <2>2
<1> QED
  BY <1>1, <1>2, PTL DEF ChecksSpec

\* The verdicts of a stored audit.
LEMMA StoredVerdicts ==
  ASSUME ReadInv, NEW h \in Hosts, phase[h] = "stored"
  PROVE  Verdicts(device[h], at[h], yes[h], no[h])
BY DoorVerdicts DEF ReadInv, HostRead

\* The findings are those of the stored audits, and rows come and go by host.
FoundInv ==
  /\ \A f \in findings : \E h \in Stored : f \in {Owner(h)} \X Flagged(h)
  /\ \A h \in Stored : {Owner(h)} \X Flagged(h) \subseteq findings

RowInv ==
  \A r \in rows : r[4] \in Stored /\ r \in RowsOf(r[4]) /\ RowsOf(r[4]) \subseteq rows

StoreInv == ReadInv /\ FoundInv /\ RowInv /\ LastHostSpeaks

\* What is told of a host that no step touches stays as it was.
LEMMA UntouchedTells ==
  ASSUME NEW h, Untouched(h)
  PROVE  Flagged(h)' = Flagged(h) /\ Owner(h)' = Owner(h) /\ RowsOf(h)' = RowsOf(h)
BY DEF Untouched, Flagged, Owner, RowsOf, PortsOf, Reported

\* A compliance row is of its host, its framework and a control that ran.
LEMMA RowShape ==
  ASSUME NEW h, NEW r \in RowsOf(h)
  PROVE  /\ r[1] = Framework(device[h].door) /\ r[4] = h /\ r[2] \in Reported(h)
         /\ r[3] = IF Fails(PortsOf(h), Flagged(h), r[2]) THEN "fail" ELSE "pass"
BY DEF RowsOf

\* While nothing is stored, the tables and what they rest on stay.
LEMMA StoreStays ==
  ASSUME StoreInv, ReadInv', UNCHANGED scan,
         \A h \in Hosts : phase[h] = "stored" <=> phase'[h] = "stored",
         \A h \in Stored : Untouched(h)
  PROVE  StoreInv'
<1>1. Stored' = Stored /\ UNCHANGED <<findings, rows, stored>>
  BY DEF Stored, scan
<1>2. \A h \in Stored : Flagged(h)' = Flagged(h) /\ Owner(h)' = Owner(h) /\ RowsOf(h)' = RowsOf(h)
  BY UntouchedTells
<1>3. \A i \in DOMAIN stored : stored[i] \in Stored
  BY DEF StoreInv, ReadInv, CheckShape, HostRead, Stored
<1>4. FoundInv'
  BY <1>1, <1>2 DEF StoreInv, FoundInv
<1>5. RowInv'
  BY <1>1, <1>2 DEF StoreInv, RowInv
<1>6. LastHostSpeaks'
  BY <1>1, <1>2, <1>3 DEF StoreInv, LastHostSpeaks, Untouched
<1> QED
  BY <1>4, <1>5, <1>6 DEF StoreInv

\* A connection stores nothing.
LEMMA StoreConnect ==
  ASSUME StoreInv, NEW h \in Hosts, Connect(h)
  PROVE  StoreInv'
<1>1. /\ phase[h] = "todo" /\ phase' = [phase EXCEPT ![h] = "open"] /\ UNCHANGED <<at, scan>>
      /\ \A g \in Hosts \ {h} : device'[g] = device[g] /\ yes'[g] = yes[g] /\ no'[g] = no[g]
  BY DEF Connect, StoreInv, ReadInv, CheckShape
<1>2. /\ \A g \in Hosts : phase[g] = "stored" <=> phase'[g] = "stored"
      /\ \A g \in Stored : Untouched(g)
  BY <1>1 DEF StoreInv, ReadInv, CheckShape, Stored, Untouched
<1> QED
  BY <1>1, <1>2, StoreStays, ReadConnect DEF StoreInv

\* An answer stores nothing.
LEMMA StoreProbe ==
  ASSUME StoreInv, NEW h \in Hosts, Probe(h)
  PROVE  StoreInv'
<1>1. /\ phase[h] = "open" /\ UNCHANGED <<device, phase, scan>> /\ at' = [at EXCEPT ![h] = @ + 1]
      /\ \A g \in Hosts \ {h} : yes'[g] = yes[g] /\ no'[g] = no[g]
  BY DEF Probe, StoreInv, ReadInv, CheckShape
<1>2. /\ \A g \in Hosts : phase[g] = "stored" <=> phase'[g] = "stored"
      /\ \A g \in Stored : Untouched(g)
  BY <1>1 DEF StoreInv, ReadInv, CheckShape, Stored, Untouched
<1> QED
  BY <1>1, <1>2, StoreStays, ReadProbe DEF StoreInv

\* A connection that breaks stores nothing.
LEMMA StoreBreak ==
  ASSUME StoreInv, NEW h \in Hosts, Break(h)
  PROVE  StoreInv'
<1>1. /\ phase[h] \in {"todo", "open"} /\ phase' = [phase EXCEPT ![h] = "failed"] /\ UNCHANGED scan
      /\ device' = [device EXCEPT ![h] = unseen] /\ at' = [at EXCEPT ![h] = 1]
      /\ yes' = [yes EXCEPT ![h] = {}] /\ no' = [no EXCEPT ![h] = {}]
  BY DEF Break
<1>2. /\ \A g \in Hosts : phase[g] = "stored" <=> phase'[g] = "stored"
      /\ \A g \in Stored : Untouched(g)
  BY <1>1 DEF StoreInv, ReadInv, CheckShape, Stored, Untouched
<1> QED
  BY <1>1, <1>2, StoreStays, ReadBreak DEF StoreInv

\* Storing a host adds its findings and replaces the rows it overwrites.
LEMMA StoreStore ==
  ASSUME StoreInv, NEW h \in Hosts, Store(h)
  PROVE  StoreInv'
<1>1. /\ phase[h] = "open" /\ phase' = [phase EXCEPT ![h] = "stored"]
      /\ findings' = findings \cup ({Owner(h)} \X Flagged(h)) /\ rows' = Replaced(rows, RowsOf(h))
      /\ stored' = Append(stored, h) /\ UNCHANGED <<device, at, yes, no>>
  BY DEF Store
<1>2. /\ Stored' = Stored \cup {h} /\ h \notin Stored
      /\ \A g : Flagged(g)' = Flagged(g) /\ Owner(g)' = Owner(g) /\ RowsOf(g)' = RowsOf(g)
  BY <1>1, UntouchedTells DEF StoreInv, ReadInv, CheckShape, Stored, Untouched
<1>3. /\ Len(stored) \in Nat /\ DOMAIN stored = 1..Len(stored) /\ DOMAIN stored' = 1..Len(stored) + 1
      /\ Len(stored') = Len(stored) + 1 /\ stored'[Len(stored) + 1] = h
      /\ \A i \in 1..Len(stored) : stored'[i] = stored[i] /\ stored[i] \in Stored
  BY <1>1 DEF StoreInv, ReadInv, CheckShape, HostRead, Stored
<1> DEFINE mine == RowsOf(h)
           Fw(g) == Framework(device[g].door)
<1>4. /\ \A r \in rows' : r \in mine \/ (r \in rows /\ \A s \in mine : s[1] # r[1])
      /\ mine \subseteq rows'
      /\ \A r \in rows : (\A s \in mine : s[1] # r[1]) => r \in rows'
  BY <1>1 DEF Replaced
<1>5. FoundInv'
  BY <1>1, <1>2 DEF StoreInv, FoundInv
<1>6. ASSUME NEW r \in rows, \A s \in mine : s[1] # r[1]
      PROVE  RowsOf(r[4]) \subseteq rows'
  <2>1. RowsOf(r[4]) \subseteq rows /\ r \in RowsOf(r[4])
    BY DEF StoreInv, RowInv
  <2>2. \A q \in RowsOf(r[4]) : q[1] = r[1]
    BY <2>1, RowShape
  <2> QED
    BY <2>1, <2>2, <1>4, <1>6
<1>7. RowInv'
  <2> SUFFICES ASSUME NEW r \in rows'
               PROVE  r[4] \in Stored' /\ r \in RowsOf(r[4]) /\ RowsOf(r[4]) \subseteq rows'
    BY <1>2 DEF RowInv
  <2>1. CASE r \in mine
    BY <2>1, <1>2, <1>4, RowShape
  <2>2. CASE r \in rows /\ \A s \in mine : s[1] # r[1]
    BY <2>2, <1>2, <1>6 DEF StoreInv, RowInv
  <2> QED
    BY <2>1, <2>2, <1>4
<1>8. LastHostSpeaks'
  <2> SUFFICES ASSUME NEW i \in 1..Len(stored) + 1
               PROVE  \/ /\ RowsOf(stored'[i]) \subseteq rows'
                         /\ \A r \in rows', s \in RowsOf(stored'[i]) : r[1] = s[1] => r[4] = stored'[i]
                      \/ \E j \in i + 1..Len(stored') : Fw(stored'[j]) = Fw(stored'[i])
    BY <1>1, <1>2, <1>3 DEF LastHostSpeaks
  <2>1. CASE i = Len(stored) + 1
    BY <2>1, <1>3, <1>4, RowShape
  <2>2. CASE i \in 1..Len(stored)
    <3> DEFINE g == stored[i]
    <3>1. stored'[i] = g
      BY <2>2, <1>3
    <3>2. \/ RowsOf(g) \subseteq rows /\ \A r \in rows, s \in RowsOf(g) : r[1] = s[1] => r[4] = g
          \/ \E j \in i + 1..Len(stored) : Fw(stored[j]) = Fw(g)
      BY <2>2, <1>3 DEF StoreInv, LastHostSpeaks
    <3>3. CASE Fw(g) = Fw(h)
      <4>1. Len(stored) + 1 \in i + 1..Len(stored')
        BY <2>2, <1>3
      <4> QED
        BY <4>1, <3>1, <3>3, <1>3
    <3>4. CASE \E j \in i + 1..Len(stored) : Fw(stored[j]) = Fw(g)
      <4>1. PICK j \in i + 1..Len(stored) : Fw(stored[j]) = Fw(g)
        BY <3>4
      <4>2. j \in i + 1..Len(stored') /\ stored'[j] = stored[j]
        BY <2>2, <1>3
      <4> QED
        BY <4>1, <4>2, <3>1
    <3>5. CASE /\ Fw(g) # Fw(h) /\ RowsOf(g) \subseteq rows
               /\ \A r \in rows, s \in RowsOf(g) : r[1] = s[1] => r[4] = g
      <4>1. \A r \in RowsOf(g), s \in mine : s[1] # r[1]
        BY <3>5, RowShape
      <4>2. RowsOf(g) \subseteq rows'
        BY <3>5, <4>1, <1>4
      <4>3. \A r \in rows', s \in RowsOf(g) : r[1] = s[1] => r[4] = g
        BY <3>5, <4>1, <1>4
      <4> QED
        BY <4>2, <4>3, <3>1
    <3> QED
      BY <3>2, <3>3, <3>4, <3>5
  <2> QED
    BY <2>1, <2>2, <1>3
<1> QED
  BY <1>5, <1>7, <1>8, ReadStore DEF StoreInv

\* The findings and rows of a scan, in every reachable state.
LEMMA StoreInvariant == ChecksSpec => []StoreInv
<1>1. ChecksInit => StoreInv
  <2> SUFFICES ASSUME ChecksInit PROVE FoundInv /\ RowInv /\ LastHostSpeaks /\ ReadInv
    BY DEF StoreInv
  <2>1. Stored = {} /\ findings = {} /\ rows = {} /\ stored = <<>>
    BY DEF ChecksInit, Stored
  <2>2. FoundInv /\ RowInv /\ LastHostSpeaks
    BY <2>1 DEF FoundInv, RowInv, LastHostSpeaks
  <2>3. ReadInv
    BY ReadAtStart
  <2> QED
    BY <2>2, <2>3
<1>2. StoreInv /\ [ChecksNext]_checksVars => StoreInv'
  <2> SUFFICES ASSUME StoreInv, [ChecksNext]_checksVars PROVE StoreInv'
    OBVIOUS
  <2>1. CASE ChecksNext
    BY <2>1, StoreConnect, StoreProbe, StoreBreak, StoreStore DEF ChecksNext
  <2>2. CASE UNCHANGED checksVars
    <3>1. /\ UNCHANGED scan /\ \A h \in Hosts : phase[h] = "stored" <=> phase'[h] = "stored"
          /\ \A h \in Stored : Untouched(h)
      BY <2>2 DEF checksVars, reading, Untouched
    <3>2. ReadInv'
      BY <2>2 DEF StoreInv, checksVars, reading, scan, ReadInv, CheckShape, HostRead
    <3> QED
      BY <3>1, <3>2, StoreStays
  <2> QED
    BY <2>1, <2>2
<1> QED
  BY <1>1, <1>2, PTL DEF ChecksSpec

\* A weakness with a control has a verdict, at every door that has rows but
\* those of the network.
LEMMA WeaknessHasControl ==
  ASSUME NEW dev, Met(dev), NEW i, NEW y, NEW n, Known(dev, i, y, n),
         dev.door \notin {"net", "web", "snmp", "rpc"}
  PROVE  Told(dev, y, n) \cap Controlled \subseteq Ran(dev.door, dev.given, y, n)
<1>1. y \subseteq Facts(dev.door) /\ dev.door \in Doors
  BY DevicePlanLaw DEF Known, Within
<1>2. CASE dev.door = "smb"
  <2>1. Told(dev, y, n) \subseteq SmbRan \cup {"hidden"}
    BY <1>2 DEF Told, Flags, SmbFlags, SmbHidden, SmbRan
  <2>2. "hidden" \notin Controlled
    BY DEF Controlled, SmbRan, CiscoChecks, ConfigChecks, SshControls, AuthControls, WinControls
  <2>3. Ran(dev.door, dev.given, y, n) = SmbRan
    BY <1>2 DEF Ran, Databases
  <2> QED
    BY <2>1, <2>2, <2>3
<1>3. CASE dev.door = "ldap"
  BY <1>3 DEF Told, Flags, LdapFlags, Ran, LdapRan, Databases
<1>4. CASE dev.door = "telnet"
  BY <1>4 DEF Told, Flags, TelnetFlags, Ran, TelnetRan, Databases, ConfigChecks
<1>5. CASE dev.door = "cisco"
  BY <1>5 DEF Told, Flags, CiscoFlags, Ran, CiscoRan, Databases
<1>6. CASE dev.door = "esxi"
  <2>1. "version" \notin Controlled
    BY DEF Controlled, SmbRan, CiscoChecks, ConfigChecks, SshControls, AuthControls, WinControls
  <2> QED
    BY <1>6, <2>1 DEF Told, Flags, EsxiFlags, Ran, EsxiRan, Databases
<1>7. CASE dev.door = "postgres"
  BY <1>7, DoorAsks DEF Told, Flags, PgFlags, Ran, Databases
<1>8. CASE dev.door \in {"mysql", "mssql", "oracle"}
  <2>1. Told(dev, y, n) = y /\ Ran(dev.door, dev.given, y, n) = ProbesOf(Plan(dev.door, dev.given))
    BY <1>8 DEF Told, Flags, MysqlFlags, MssqlFlags, OracleFlags, Ran, Databases
  <2>2. y \subseteq ProbesOf(Plan(dev.door, dev.given))
    BY <1>8 DEF Known, Within, Asked, DevicePlan
  <2> QED
    BY <2>1, <2>2
<1>9. CASE dev.door = "ssh"
  <2> DEFINE C == SshControls \cup AuthControls
             D == {"kernel", "packages", "suid", "caps", "cron", "isroot", "escalates"}
  <2>1. y \subseteq D \cup C
    BY <1>1, <1>9, DoorFacts
  <2>2. D \cap Controlled = {} /\ "maxauth" \in C
    BY DEF Controlled, SmbRan, CiscoChecks, ConfigChecks, SshControls, AuthControls, WinControls
  <2>3. /\ Told(dev, y, n) \subseteq y \cup {"maxauth"}
        /\ Ran(dev.door, dev.given, y, n) = C
    BY <1>9 DEF Told, Flags, SshFlags, Ran, Databases
  <2> QED
    BY <2>1, <2>2, <2>3
<1>10. CASE dev.door = "winrm"
  <2>1. y \subseteq WinControls \cup {"privileges", "elevated", "unquoted"}
    BY <1>1, <1>10, DoorFacts
  <2>2. {"privileges", "elevated", "unquoted"} \cap Controlled = {}
    BY DEF Controlled, SmbRan, CiscoChecks, ConfigChecks, SshControls, AuthControls, WinControls
  <2>3. Told(dev, y, n) = y /\ Ran(dev.door, dev.given, y, n) = WinControls
    BY <1>10 DEF Told, Flags, WinFlags, Ran, WinRan, Databases
  <2> QED
    BY <2>1, <2>2, <2>3
<1> QED
  BY <1>1, <1>2, <1>3, <1>4, <1>5, <1>6, <1>7, <1>8, <1>9, <1>10 DEF Doors, Swept, Databases

\* A check that is told fails its control, and no control of a device is one
\* of the network's.
LEMMA ToldFails ==
  ASSUME NEW ports, NEW told
  PROVE  /\ \A c : Fails(ports, told, c) => Speaks(c) \cap told # {} \/ c \in {"mgmt", "http"}
         /\ \A c : Speaks(c) \cap told # {} => Fails(ports, told, c)
         /\ \A c \in Controlled : c \in told => Fails(ports, told, c)
<1>1. /\ \A c : Fails(ports, told, c) => Speaks(c) \cap told # {} \/ c \in {"mgmt", "http"}
      /\ \A c : Speaks(c) \cap told # {} => Fails(ports, told, c)
  BY DEF Fails, Speaks
<1>2. "http" \notin Controlled
  BY DEF Controlled, SmbRan, CiscoChecks, ConfigChecks, SshControls, AuthControls, WinControls
<1>3. \A c : c # "http" => c \in Speaks(c)
  BY DEF Speaks
<1> QED
  BY <1>1, <1>2, <1>3

\* A row fails where a finding says so, whichever host was stored last.
LEMMA RowsMatchFindings == StoreInv => VerdictsMatchFindings
<1> SUFFICES ASSUME StoreInv, NEW r \in rows
             PROVE  LET said == ({Owner(r[4])} \X Speaks(r[2])) \cap findings
                    IN /\ r[3] = "fail" => said # {} \/ r[2] \in {"mgmt", "http"}
                       /\ r[3] = "pass" /\ said # {} =>
                            \E h \in Stored \ {r[4]} : Owner(h) = nobody /\ Owner(r[4]) = nobody
                       /\ \A c \in Flagged(r[4]) \cap Controlled :
                            r[1] # "network" => <<r[1], c, "fail", r[4]>> \in rows
  BY DEF VerdictsMatchFindings
<1> DEFINE h == r[4]
           said == ({Owner(h)} \X Speaks(r[2])) \cap findings
<1>1. h \in Stored /\ r \in RowsOf(h) /\ RowsOf(h) \subseteq rows /\ h \in Hosts
  BY DEF StoreInv, RowInv, Stored
<1>2. /\ r[1] = Framework(device[h].door) /\ r[2] \in Reported(h)
      /\ r[3] = IF Fails(PortsOf(h), Flagged(h), r[2]) THEN "fail" ELSE "pass"
  BY <1>1, RowShape
<1>3. r[3] = "fail" => said # {} \/ r[2] \in {"mgmt", "http"}
  <2>1. {Owner(h)} \X Flagged(h) \subseteq findings
    BY <1>1 DEF StoreInv, FoundInv
  <2> SUFFICES ASSUME r[3] = "fail", r[2] \notin {"mgmt", "http"}
               PROVE  said # {}
    OBVIOUS
  <2>2. Fails(PortsOf(h), Flagged(h), r[2])
    BY <1>2
  <2>3. PICK s \in Speaks(r[2]) : s \in Flagged(h)
    <3>1. Speaks(r[2]) \cap Flagged(h) # {}
      BY <2>2, ToldFails
    <3> QED
      BY <3>1
  <2>4. <<Owner(h), s>> \in ({Owner(h)} \X Speaks(r[2])) \cap findings
    BY <2>1, <2>3
  <2> QED
    BY <2>4
<1>4. ASSUME r[3] = "pass", said # {}
      PROVE  \E g \in Stored \ {h} : Owner(g) = nobody /\ Owner(h) = nobody
  <2>1. PICK f \in said : TRUE
    BY <1>4
  <2>2. PICK g \in Stored : f \in {Owner(g)} \X Flagged(g)
    BY <2>1 DEF StoreInv, FoundInv
  <2>3. f[1] = Owner(h) /\ f[2] \in Speaks(r[2]) /\ f[1] = Owner(g) /\ f[2] \in Flagged(g)
    BY <2>1, <2>2
  <2>4. g # h
    <3>1. g = h => Fails(PortsOf(h), Flagged(h), r[2])
      BY <2>3, ToldFails
    <3> QED
      BY <3>1, <1>2, <1>4
  <2>5. Owner(g) = nobody /\ Owner(h) = nobody
    BY <2>3, <2>4, <1>1, HostChecksAssumption DEF Owner, Stored
  <2> QED
    BY <2>4, <2>5
<1>5. ASSUME NEW c \in Flagged(h) \cap Controlled, r[1] # "network"
      PROVE  <<r[1], c, "fail", h>> \in rows
  <2> DEFINE d == device[h].door
  <2>1. phase[h] = "stored" /\ Met(device[h]) /\ Known(device[h], at[h], yes[h], no[h])
    BY <1>1 DEF StoreInv, ReadInv, HostRead, Stored
  <2>2. d \notin {"net", "web"}
    BY <1>2, <1>5 DEF Framework
  <2>3. d \notin {"snmp", "rpc"}
    <3>1. d \in {"snmp", "rpc"} => Ran(d, device[h].given, yes[h], no[h]) = {}
      BY DEF Ran, Databases
    <3> QED
      BY <1>2, <3>1 DEF Reported
  <2>4. c \in Ran(d, device[h].given, yes[h], no[h])
    BY <2>1, <2>2, <2>3, WeaknessHasControl DEF Told, Flagged
  <2>5. c \in Reported(h)
    BY <2>4, <1>2, <1>5 DEF Reported
  <2>6. Fails(PortsOf(h), Flagged(h), c)
    BY ToldFails
  <2> QED
    BY <1>1, <1>2, <2>5, <2>6 DEF RowsOf
<1> QED
  BY <1>3, <1>4, <1>5

\* CheckInv is an invariant: findings, rows and audits of a scan agree.
THEOREM ChecksInvariant == ChecksSpec => []CheckInv
<1>1. StoreInv => ChecksTypeOK
  <2> SUFFICES ASSUME StoreInv PROVE ChecksTypeOK
    OBVIOUS
  <2>1. phase \in [Hosts -> {"todo", "open", "stored", "failed"}] /\ lost \in 0..MaxLost
    BY DEF StoreInv, ReadInv, CheckShape
  <2>2. ASSUME NEW h \in Hosts
        PROVE  /\ device[h] = unseen <=> phase[h] \in {"todo", "failed"}
               /\ device[h] = unseen => at[h] = 1 /\ yes[h] = {} /\ no[h] = {}
               /\ device[h] # unseen => /\ at[h] \in 1..Len(PlanOf(h)) + 1
                                       /\ yes[h] \cup no[h] \subseteq Facts(device[h].door)
               /\ yes[h] \cap no[h] = {}
               /\ phase[h] = "stored" <=> \E i \in DOMAIN stored : stored[i] = h
    <3>1. HostRead(h)
      BY DEF StoreInv, ReadInv
    <3>2. CASE device[h] = unseen
      BY <3>1, <3>2 DEF HostRead
    <3>3. CASE device[h] # unseen
      <4>1. Met(device[h]) /\ Known(device[h], at[h], yes[h], no[h])
        BY <3>1, <3>3 DEF HostRead
      <4>2. yes[h] \cap no[h] = {}
        BY <4>1 DEF Known, Truly
      <4>3. /\ at[h] \in 1..Len(PlanOf(h)) + 1
            /\ yes[h] \cup no[h] \subseteq Facts(device[h].door)
        BY <4>1, DevicePlanLaw DEF Known, Within, PlanOf, DevicePlan
      <4> QED
        BY <3>1, <3>3, <4>2, <4>3 DEF HostRead
    <3> QED
      BY <3>2, <3>3
  <2>3. \A f \in findings : f[1] \in Hosts \cup {nobody}
    <3>1. ASSUME NEW f \in findings PROVE f[1] \in Hosts \cup {nobody}
      <4>1. PICK h \in Stored : f \in {Owner(h)} \X Flagged(h)
        BY <3>1 DEF StoreInv, FoundInv
      <4> QED
        BY <4>1 DEF Owner, Stored
    <3> QED
      BY <3>1
  <2>4. \A r \in rows : r[3] \in {"pass", "fail"} /\ phase[r[4]] = "stored"
    BY RowShape DEF StoreInv, RowInv, Stored
  <2> QED
    BY <2>1, <2>2, <2>3, <2>4 DEF ChecksTypeOK
<1>2. StoreInv => CheckInv
  BY <1>1, RowsMatchFindings DEF CheckInv, StoreInv
<1> QED
  BY <1>2, StoreInvariant, PTL

\* What is told of a stored host, in the terms of the lemmas of its door.
LEMMA StoredFacts ==
  ASSUME StoreInv, NEW h \in Stored
  PROVE  /\ Verdicts(device[h], at[h], yes[h], no[h])
         /\ Unread(h) = Missed(device[h], at[h], yes[h] \cup no[h])
         /\ Flagged(h) = Told(device[h], yes[h], no[h])
         /\ Weak(device[h].door, device[h].given, device[h].holds, device[h].void) = Wrong(device[h])
<1>1. Verdicts(device[h], at[h], yes[h], no[h])
  BY StoredVerdicts DEF StoreInv, Stored
<1>2. Unread(h) = Missed(device[h], at[h], yes[h] \cup no[h])
  BY DEF Unread, Missed, PlanOf, DevicePlan
<1> QED
  BY <1>1, <1>2 DEF Flagged, Told, Wrong

\* An audit that was answered in full reports the weaknesses of the device,
\* all of them and no other.
THEOREM FullReadsAreExact == ChecksSpec => []FullReadIsExact
<1>1. StoreInv => FullReadIsExact
  BY StoredFacts DEF FullReadIsExact, Verdicts, Exact
<1> QED
  BY <1>1, StoreInvariant, PTL

\* No alarm and no pass comes from what was not read, but for the listed ones.
THEOREM VerdictsAreNotBlind == ChecksSpec => []NoBlindVerdict
<1>1. StoreInv => FalseAlarmExplained
  BY StoredFacts DEF FalseAlarmExplained, Verdicts, Alarm
<1>2. StoreInv => NoBlindPass
  <2> SUFFICES ASSUME StoreInv, NEW r \in rows, r[3] = "pass"
               PROVE  \/ Evidence(r[2]) \cap (IF r[2] = "cleartext" THEN yes[r[4]] ELSE no[r[4]]) # {}
                      \/ r[2] \in PassedUnread(device[r[4]])
    BY DEF NoBlindPass
  <2> DEFINE h == r[4]
  <2>1. h \in Stored /\ r[2] \in Reported(h) /\ ~ Fails(PortsOf(h), Flagged(h), r[2])
    BY RowShape DEF StoreInv, RowInv
  <2>2. r[2] \in Ran(device[h].door, device[h].given, yes[h], no[h])
    BY <2>1 DEF Reported
  <2>3. Passes(device[h], yes[h], no[h]) /\ Flagged(h) = Told(device[h], yes[h], no[h])
    BY <2>1, StoredFacts DEF Verdicts
  <2> QED
    BY <2>1, <2>2, <2>3 DEF Passes, PortsOf
<1>3. StoreInv => NoBlindVerdict
  BY <1>1, <1>2 DEF NoBlindVerdict
<1> QED
  BY <1>3, StoreInvariant, PTL

=============================================================================
