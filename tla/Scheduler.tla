------------------------------ MODULE Scheduler ------------------------------
(***************************************************************************)
(* Scheduled scans: beat sends a check every minute (tasks/celery_app.py), *)
(* a worker process runs it (tasks/scheduled.py) and the schedules that    *)
(* are due (core/schedules.py) become scans (dispatch.py).                 *)
(*                                                                         *)
(* A check loads every due schedule at once and handles them in id order.  *)
(* It sets last_run on the loaded object when a schedule has been handled, *)
(* but only commits at its very end; the commits its own calls make on the *)
(* way (create_scan, create_batch, log_action) also write the last_run set *)
(* so far.  Nothing keeps two checks apart, and a credentialed audit runs  *)
(* inside the check, before last_run is set.                               *)
(*                                                                         *)
(* Time is a tick per beat.  The model keeps ages instead of dates, capped *)
(* at MaxAge, which no period exceeds.                                     *)
(***************************************************************************)
EXTENDS Integers

CONSTANTS Schedules,   \* ids of the rows of scheduled_scans
          Plan,        \* what each of them asks for, fixed at its creation
          Faulty,      \* those whose audit may raise what it does not catch
          Workers,     \* processes a check may run in
          MaxAge,      \* ages are counted up to here
          MaxWait,     \* how far ahead start_at may lie
          MaxChecks,   \* bound: checks waiting in the broker that are counted
          MaxMishaps   \* bound: crashes, broker errors, rows deleted in use

Never == -1
Once  == 0    \* the period of a schedule that runs a single time

ASSUME SchedulerAssumption ==
  /\ Schedules \subseteq Nat
  /\ MaxAge \in Nat /\ MaxWait \in Nat /\ MaxChecks \in Nat /\ MaxMishaps \in Nat
  /\ Plan \in [Schedules -> [period : Once..MaxAge, template : BOOLEAN, creds : BOOLEAN]]
  /\ Faulty \subseteq {s \in Schedules : Plan[s].template /\ Plan[s].creds}

Age == 0..MaxAge
Older(a) == IF a \in 0..(MaxAge - 1) THEN a + 1 ELSE a

VARIABLES
  state,       \* schedule: "unborn", "live" or "gone" (deleted)
  active,      \* schedule: is_active
  wait,        \* schedule: ticks until start_at
  age,         \* schedule: ticks since last_run, Never when it is null
  queue,       \* checks in the broker
  pc,          \* worker: where its check is, "idle" without one
  todo,        \* worker: due schedules it has loaded and not finished
  stamped,     \* worker: schedules with last_run set and not committed
  elapsed,     \* worker: ticks since its check began (the "now" it stamps)
  batch,       \* worker: the batch of the template in hand
  mishaps,
  \* History, read by no action.
  since,       \* schedule: age of the check that dispatched it last; Never
               \* also if that check met another or has lost its last_run
  overlapped,  \* worker: its check has met another
  debris       \* a batch without scans or a row without a task was left

rows    == <<state, active, wait>>
checks  == <<pc, todo, stamped, elapsed, batch>>
history == <<since, overlapped, debris>>
vars    == <<rows, age, queue, checks, mishaps, history>>

Init ==
  /\ state = [s \in Schedules |-> "unborn"]
  /\ active = [s \in Schedules |-> FALSE]
  /\ wait = [s \in Schedules |-> 0]
  /\ age = [s \in Schedules |-> Never]
  /\ queue = 0
  /\ pc = [w \in Workers |-> "idle"]
  /\ todo = [w \in Workers |-> {}]
  /\ stamped = [w \in Workers |-> {}]
  /\ elapsed = [w \in Workers |-> 0]
  /\ batch = [w \in Workers |-> "none"]
  /\ mishaps = 0
  /\ since = [s \in Schedules |-> Never]
  /\ overlapped = [w \in Workers |-> FALSE]
  /\ debris = FALSE

-----------------------------------------------------------------------------
\* The users and the clock.

Create(s) ==
  /\ state[s] = "unborn"
  /\ state' = [state EXCEPT ![s] = "live"]
  /\ active' = [active EXCEPT ![s] = TRUE]
  /\ \E d \in 0..MaxWait : wait' = [wait EXCEPT ![s] = d]
  /\ UNCHANGED <<age, queue, checks, mishaps, history>>

Toggle(s) ==
  /\ state[s] = "live"
  /\ active' = [active EXCEPT ![s] = ~active[s]]
  /\ UNCHANGED <<state, wait, age, queue, checks, mishaps, history>>

Delete(s) ==
  /\ state[s] = "live"
  /\ state' = [state EXCEPT ![s] = "gone"]
  /\ active' = [active EXCEPT ![s] = FALSE]
  /\ wait' = [wait EXCEPT ![s] = 0]
  /\ age' = [age EXCEPT ![s] = Never]
  /\ since' = [since EXCEPT ![s] = Never]
  /\ UNCHANGED <<queue, checks, mishaps, overlapped, debris>>

\* A minute passes and beat sends the next check.
Tick ==
  /\ queue' = IF queue < MaxChecks THEN queue + 1 ELSE queue
  /\ wait' = [s \in Schedules |-> IF wait[s] > 0 THEN wait[s] - 1 ELSE 0]
  /\ age' = [s \in Schedules |-> Older(age[s])]
  /\ since' = [s \in Schedules |-> Older(since[s])]
  /\ elapsed' = [w \in Workers |-> IF pc[w] = "idle" THEN 0 ELSE Older(elapsed[w])]
  /\ UNCHANGED <<state, active, pc, todo, stamped, batch, mishaps, overlapped, debris>>

-----------------------------------------------------------------------------
\* The check.

IsDue(s) ==
  /\ state[s] = "live" /\ active[s] /\ wait[s] = 0
  /\ \/ age[s] = Never
     \/ Plan[s].period # Once /\ age[s] >= Plan[s].period

Running(w) == pc[w] # "idle"

InHandLast(w, s) == s \in todo[w] /\ \A t \in todo[w] : s >= t

\* The schedule in hand: list_schedules orders by id.
InHand(w, s) == s \in todo[w] /\ \A t \in todo[w] : s <= t

Take(w) ==
  /\ ~Running(w) /\ queue > 0
  /\ queue' = queue - 1
  /\ pc' = [pc EXCEPT ![w] = "pick"]
  /\ todo' = [todo EXCEPT ![w] = {s \in Schedules : IsDue(s)}]
  /\ overlapped' = [v \in Workers |->
       IF v = w THEN \E u \in Workers \ {w} : Running(u) ELSE overlapped[v] \/ Running(v)]
  /\ UNCHANGED <<rows, age, stamped, elapsed, batch, mishaps, since, debris>>

\* A commit writes the pending last_run values; it raises when a schedule
\* among them has been deleted.
CanCommit(w) == \A s \in stamped[w] : state[s] = "live"

Commit(w) ==
  /\ CanCommit(w)
  /\ age' = [s \in Schedules |-> IF s \in stamped[w] THEN elapsed[w] ELSE age[s]]
  /\ stamped' = [stamped EXCEPT ![w] = {}]

\* schedule.last_run = now, then the next schedule.
Stamp(w, s) ==
  /\ pc' = [pc EXCEPT ![w] = "pick"]
  /\ stamped' = [stamped EXCEPT ![w] = stamped[w] \cup {s}]
  /\ todo' = [todo EXCEPT ![w] = todo[w] \ {s}]

Dispatched(w) ==
  \/ pc[w] \in {"send", "audit"}
  \/ pc[w] = "sweep" /\ batch[w] # "empty"

\* The dispatch of s is not in the database yet, but w will carry it there.
Holds(w, s) ==
  \/ s \in stamped[w]
  \/ Dispatched(w) /\ InHand(w, s)

\* An exception or a lost process ends the check: the session is rolled back,
\* and with it the last_run of every schedule dispatched since the last commit.
Abort(w) ==
  /\ pc' = [pc EXCEPT ![w] = "idle"]
  /\ todo' = [todo EXCEPT ![w] = {}]
  /\ stamped' = [stamped EXCEPT ![w] = {}]
  /\ elapsed' = [elapsed EXCEPT ![w] = 0]
  /\ batch' = [batch EXCEPT ![w] = "none"]
  /\ since' = [s \in Schedules |-> IF Holds(w, s) THEN Never ELSE since[s]]
  /\ overlapped' = [overlapped EXCEPT ![w] = FALSE]
  /\ UNCHANGED <<rows, age, queue>>

\* The row of a scan is created: from here on the schedule has been dispatched.
Dispatch(w, s) ==
  /\ pc' = [pc EXCEPT ![w] = "send"]
  /\ since' = [since EXCEPT ![s] = IF overlapped[w] THEN Never ELSE elapsed[w]]

FinishForgets(w) ==
  /\ pc[w] = "pick" /\ todo[w] = {}
  /\ pc' = [pc EXCEPT ![w] = "idle"]
  /\ stamped' = [stamped EXCEPT ![w] = {}]
  /\ elapsed' = [elapsed EXCEPT ![w] = 0]
  /\ overlapped' = [overlapped EXCEPT ![w] = FALSE]
  /\ UNCHANGED <<rows, age, queue, todo, batch, mishaps, since, debris>>

Finish(w) ==
  /\ pc[w] = "pick" /\ todo[w] = {}
  /\ Commit(w)
  /\ pc' = [pc EXCEPT ![w] = "idle"]
  /\ elapsed' = [elapsed EXCEPT ![w] = 0]
  /\ overlapped' = [overlapped EXCEPT ![w] = FALSE]
  /\ UNCHANGED <<rows, queue, todo, batch, mishaps, since, debris>>

\* Any commit from "pick" on, for a check that has stamped a deleted schedule.
Stale(w) ==
  /\ pc[w] = "pick" /\ ~CanCommit(w)
  /\ Abort(w)
  /\ UNCHANGED <<mishaps, debris>>

\* A schedule with a target of its own.
CreateSingle(w, s) ==
  /\ pc[w] = "pick" /\ InHand(w, s) /\ ~Plan[s].template
  /\ Commit(w)
  /\ Dispatch(w, s)
  /\ UNCHANGED <<rows, queue, todo, elapsed, batch, mishaps, overlapped, debris>>

\* A template whose zones and assets have left nothing to scan.
NoTargets(w, s) ==
  /\ pc[w] = "pick" /\ InHand(w, s) /\ Plan[s].template
  /\ Stamp(w, s)
  /\ UNCHANGED <<rows, age, queue, elapsed, batch, mishaps, history>>

CreateBatch(w, s) ==
  /\ pc[w] = "pick" /\ InHand(w, s) /\ Plan[s].template
  /\ Commit(w)
  /\ pc' = [pc EXCEPT ![w] = "batch"]
  /\ batch' = [batch EXCEPT ![w] = "empty"]
  /\ UNCHANGED <<rows, queue, todo, elapsed, mishaps, history>>

\* The scope guard has refused every target.
AllDenied(w) ==
  /\ pc[w] = "batch"
  /\ pc' = [pc EXCEPT ![w] = "sweep"]
  /\ UNCHANGED <<rows, age, queue, todo, stamped, elapsed, batch, mishaps, history>>

CreateMember(w, s) ==
  /\ pc[w] = "batch" /\ InHand(w, s) /\ batch[w] = "empty"
  /\ Dispatch(w, s)
  /\ batch' = [batch EXCEPT ![w] = "filled"]
  /\ UNCHANGED <<rows, age, queue, todo, stamped, elapsed, mishaps, overlapped, debris>>

\* Celery's delay(); a template then stores the task id in the scan's row.
Send(w, s) ==
  /\ pc[w] = "send" /\ InHand(w, s)
  /\ \/ /\ Plan[s].template /\ batch[w] = "filled"
        /\ pc' = [pc EXCEPT ![w] = IF Plan[s].creds THEN "audit" ELSE "sweep"]
        /\ UNCHANGED <<todo, stamped>>
     \/ ~Plan[s].template /\ Stamp(w, s)
  /\ UNCHANGED <<rows, age, queue, elapsed, batch, mishaps, history>>

\* audit_credentialed_to_scan logs in to the hosts one after the other.
Audit(w) ==
  /\ pc[w] = "audit"
  /\ pc' = [pc EXCEPT ![w] = "sweep"]
  /\ UNCHANGED <<rows, age, queue, todo, stamped, elapsed, batch, mishaps, history>>

AuditRaises(w) ==
  /\ pc[w] = "audit" /\ \E s \in Faulty : InHand(w, s)
  /\ Abort(w)
  /\ UNCHANGED <<mishaps, debris>>

\* The rows a check is working on have been deleted: the insert of a member,
\* the update of its task id or the insert of its findings raises.
RowsGone(w) ==
  /\ \/ pc[w] = "batch" /\ batch[w] = "gone"
     \/ pc[w] \in {"send", "audit"} /\ batch[w] \in {"emptied", "gone"}
  /\ Abort(w)
  /\ debris' = (debris \/ batch[w] = "emptied")
  /\ UNCHANGED mishaps

SweepLeaves(w, s) ==
  /\ pc[w] = "sweep" /\ InHand(w, s)
  /\ Stamp(w, s)
  /\ batch' = [batch EXCEPT ![w] = "none"]
  /\ debris' = (debris \/ batch[w] = "empty")
  /\ UNCHANGED <<rows, age, queue, elapsed, mishaps, since, overlapped>>

\* A batch without scans is deleted again.
Sweep(w, s) ==
  /\ pc[w] = "sweep" /\ InHand(w, s)
  /\ Stamp(w, s)
  /\ batch' = [batch EXCEPT ![w] = "none"]
  /\ UNCHANGED <<rows, age, queue, elapsed, mishaps, history>>

Step(w) ==
  \/ Take(w) \/ Finish(w) \/ Stale(w) \/ AllDenied(w) \/ Audit(w) \/ AuditRaises(w) \/ RowsGone(w)
  \/ \E s \in Schedules :
       \/ CreateSingle(w, s) \/ NoTargets(w, s) \/ CreateBatch(w, s)
       \/ CreateMember(w, s) \/ Send(w, s) \/ Sweep(w, s)

-----------------------------------------------------------------------------
\* Mishaps: the process is lost, the broker or the database refuses a call,
\* or a user deletes the batch or the scan that a check is working on.

Lose(w) ==
  /\ Running(w) /\ mishaps < MaxMishaps
  /\ mishaps' = mishaps + 1
  /\ Abort(w)
  /\ debris' = (debris \/ batch[w] \in {"empty", "emptied"} \/ pc[w] = "send")

DeleteInUse(w) ==
  /\ mishaps < MaxMishaps
  /\ mishaps' = mishaps + 1
  /\ \/ batch[w] = "filled" /\ batch' = [batch EXCEPT ![w] = "emptied"]
     \/ batch[w] \in {"empty", "filled"} /\ batch' = [batch EXCEPT ![w] = "gone"]
  /\ UNCHANGED <<rows, age, queue, pc, todo, stamped, elapsed, history>>

Next ==
  \/ Tick
  \/ \E s \in Schedules : Create(s) \/ Toggle(s) \/ Delete(s)
  \/ \E w \in Workers : Step(w) \/ Lose(w) \/ DeleteInUse(w)

\* Beat keeps sending and every worker process keeps executing what it holds.
\* (Every step of a worker changes its pc or its todo.)
Fairness == WF_vars(Tick) /\ \A w \in Workers : WF_<<pc[w], todo[w]>>(Step(w))

Spec == Init /\ [][Next]_vars /\ Fairness

-----------------------------------------------------------------------------
Stage == {"idle", "pick", "batch", "send", "audit", "sweep"}

TypeOK ==
  /\ state \in [Schedules -> {"unborn", "live", "gone"}]
  /\ active \in [Schedules -> BOOLEAN]
  /\ wait \in [Schedules -> 0..MaxWait]
  /\ age \in [Schedules -> Age \cup {Never}]
  /\ queue \in 0..MaxChecks
  /\ pc \in [Workers -> Stage]
  /\ todo \in [Workers -> SUBSET Schedules]
  /\ stamped \in [Workers -> SUBSET Schedules]
  /\ elapsed \in [Workers -> Age]
  /\ batch \in [Workers -> {"none", "empty", "filled", "emptied", "gone"}]
  /\ mishaps \in 0..MaxMishaps
  /\ since \in [Schedules -> Age \cup {Never}]
  /\ overlapped \in [Workers -> BOOLEAN]
  /\ debris \in BOOLEAN

\* Has s been dispatched, by a check that met no other and kept its last_run,
\* less than a period ago (for a single run: at all)?
TooSoon(s) == since[s] # Never /\ (Plan[s].period = Once \/ since[s] < Plan[s].period)

\* What a check holds at each stage.
StageInv ==
  \A w \in Workers :
    /\ pc[w] = "idle" => todo[w] = {} /\ elapsed[w] = 0
    /\ pc[w] # "pick" => stamped[w] = {}
    /\ pc[w] \in {"idle", "pick"} => batch[w] = "none"
    /\ pc[w] \in {"send", "audit"} => batch[w] # "empty"
    /\ pc[w] \notin {"idle", "pick"} => todo[w] # {}
    /\ todo[w] \cap stamped[w] = {}
    /\ batch[w] = "emptied" => mishaps > 0
    /\ \A s \in Schedules : InHand(w, s) /\ ~Plan[s].template =>
         pc[w] \in {"pick", "send"} /\ batch[w] = "none"
    /\ \A v \in Workers \ {w} : Running(v) /\ Running(w) => overlapped[w]

\* The database, or a check that will commit, remembers the last dispatch ...
Remembered ==
  \A s \in Schedules : since[s] # Never =>
    \/ age[s] # Never /\ age[s] <= since[s]
    \/ \E w \in Workers : Holds(w, s)

\* ... no running check would date it further back than it was ...
NotAhead == \A s \in Schedules, w \in Workers : since[s] # Never => elapsed[w] <= since[s]

\* ... and what a check found due stays due while it runs alone.
StillDue ==
  \A w \in Workers : \A s \in todo[w] : ~overlapped[w] /\ ~Holds(w, s) => ~TooSoon(s)

\* The inductive invariant behind RepeatNeedsCause.
SchedInv == TypeOK /\ StageInv /\ Remembered /\ NotAhead /\ StillDue

\* A schedule is dispatched again before its period is over only after two
\* checks overlapped, or after a check was cut short between the dispatch
\* and the next commit (is_due, dispatch_due: "once" runs a single time).
\* In particular a later schedule's failure never repeats an earlier one
\* whose last_run a commit has already carried.
RepeatNeedsCause ==
  [][\A w \in Workers, s \in Schedules :
       pc'[w] = "send" /\ pc[w] # "send" /\ InHand(w, s) /\ ~overlapped[w] => ~TooSoon(s)]_vars

\* A batch without scans, or a scan row no task was sent for, is left behind
\* only by a mishap: neither refused targets, nor a failing audit, nor the
\* deletion of a schedule leaves one (_dispatch_template's last lines).
DebrisNeedsMishap == debris => mishaps > 0

\* What a check, its commits and the rows it leaves owe each other.
ScheduleInv == SchedInv /\ DebrisNeedsMishap

\* No schedule stays due without being handled, unless one whose audit
\* may raise stands before it: checks go by id and an exception ends the check.
NoneStarves ==
  \A s \in {r \in Schedules : \A f \in Faulty : r < f} :
    []<>(~IsDue(s) \/ \E w \in Workers : s \in stamped[w])
=============================================================================
