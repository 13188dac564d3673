----------------------------- MODULE BatchNotify -----------------------------
(***************************************************************************)
(* The completion mail of a batch (core/notify.notify_assigned_user).      *)
(*                                                                         *)
(* A wizard request creates the member scans of one batch; each member's   *)
(* worker calls the hook just before it writes its own "completed".  The   *)
(* hook reads the batch row, then the members, and decides on what it has  *)
(* read; notified_at is committed before the mail is sent.  Nothing locks  *)
(* the batch row, so hooks of several members interleave.  (A ping batch   *)
(* is not modelled: its task has no hook at all.)                          *)
(***************************************************************************)
EXTENDS Naturals, FiniteSets

CONSTANTS Members,    \* the scans of the batch
          Watchful,   \* network members: they look for a Stop before the hook
          MaxStops,   \* bound: Stops by the user
          MaxLosses   \* bound: members that fail or lose their worker

ASSUME BatchAssumption ==
  /\ Members # {} /\ Watchful \subseteq Members
  /\ MaxStops \in Nat /\ MaxLosses \in Nat

Terminal == {"completed", "failed", "cancelled"}
MemberStatus   == Terminal \cup {"absent", "pending", "running"}
Hook     == {"batch", "members", "claim", "send"}
Stage    == Hook \cup {"absent", "queued", "scanning", "finish", "done", "dead"}

VARIABLES
  status,     \* status column of each member
  worker,     \* where the worker of each member is
  seen,       \* notified_at as the hook of each member has loaded it
  notified,   \* notified_at of the batch row is set
  mails,      \* history: members whose hook sent the mail
  early,      \* history: a mail was claimed while another member was at work
  joined,     \* history: a member was created after another had started
  met,        \* history: a hook read the members while another one was at work
  stops, losses

batchVars == <<status, worker, seen, notified, mails, early, joined, met, stops, losses>>

Goto(m, s) == worker' = [worker EXCEPT ![m] = s]

BatchInit ==
  /\ status = [m \in Members |-> "absent"]
  /\ worker = [m \in Members |-> "absent"]
  /\ seen = [m \in Members |-> FALSE]
  /\ notified = FALSE
  /\ mails = {}
  /\ early = FALSE
  /\ joined = FALSE
  /\ met = FALSE
  /\ stops = 0 /\ losses = 0

\* create_scan and the dispatch of one more member.
Create(m) ==
  /\ worker[m] = "absent"
  /\ joined' = (joined \/ \E n \in Members : worker[n] \notin {"absent", "queued"})
  /\ Goto(m, "queued")
  /\ status' = [status EXCEPT ![m] = "pending"]
  /\ UNCHANGED <<seen, notified, mails, early, met, stops, losses>>

StartMember(m) ==
  /\ worker[m] = "queued"
  /\ Goto(m, "scanning")
  /\ status' = [status EXCEPT ![m] = "running"]
  /\ UNCHANGED <<seen, notified, mails, early, joined, met, stops, losses>>

\* The work is over.  A network scan that sees a Stop returns before the hook,
\* a web or SCA scan never looks.
EnterHook(m) ==
  /\ worker[m] = "scanning"
  /\ Goto(m, IF m \in Watchful /\ status[m] = "cancelled" THEN "done" ELSE "batch")
  /\ UNCHANGED <<status, seen, notified, mails, early, joined, met, stops, losses>>

ReadBatch(m) ==
  /\ worker[m] = "batch"
  /\ Goto(m, "members")
  /\ seen' = [seen EXCEPT ![m] = notified]
  /\ UNCHANGED <<status, notified, mails, early, joined, met, stops, losses>>

\* Mutant: the member counts itself, which is "running" until after the hook.
AllTerminal(m) == \A n \in Members : status[n] \in Terminal \cup {"absent"}

\* The member that runs the hook takes itself for finished.
OthersTerminal(m) ==
  \A n \in Members \ {m} : status[n] \in Terminal \cup {"absent"}

\* Mutant: the members are not looked at.
ReadMembersSkipped(m) ==
  /\ worker[m] = "members"
  /\ Goto(m, IF ~seen[m] THEN "claim" ELSE "finish")
  /\ UNCHANGED <<status, seen, notified, mails, early, joined, met, stops, losses>>

ReadMembers(m) ==
  /\ worker[m] = "members"
  /\ Goto(m, IF OthersTerminal(m) /\ ~seen[m] THEN "claim" ELSE "finish")
  /\ met' = (met \/ \E n \in Members \ {m} : worker[n] \in Hook \cup {"finish"})
  /\ UNCHANGED <<status, seen, notified, mails, early, joined, stops, losses>>

Claim(m) ==
  /\ worker[m] = "claim"
  /\ notified' = TRUE
  /\ early' = (early \/ \E n \in Members \ {m} : worker[n] \notin {"absent", "done", "dead"})
  /\ Goto(m, "send")
  /\ UNCHANGED <<status, seen, mails, joined, met, stops, losses>>

\* Mail errors are suppressed.
Send(m) ==
  /\ worker[m] = "send"
  /\ mails' = mails \cup {m}
  /\ Goto(m, "finish")
  /\ UNCHANGED <<status, seen, notified, early, joined, met, stops, losses>>

Finish(m) ==
  /\ worker[m] = "finish"
  /\ Goto(m, "done")
  /\ status' = [status EXCEPT ![m] = "completed"]
  /\ UNCHANGED <<seen, notified, mails, early, joined, met, stops, losses>>

\* The task's own except branch: "failed", without a call of the hook.  An
\* error inside the hook is suppressed and the scan completes.
Fail(m) ==
  /\ worker[m] \in {"scanning", "finish"}
  /\ losses < MaxLosses /\ losses' = losses + 1
  /\ Goto(m, "done")
  /\ status' = [status EXCEPT ![m] = "failed"]
  /\ UNCHANGED <<seen, notified, mails, early, joined, met, stops>>

HookError(m) ==
  /\ worker[m] \in Hook
  /\ losses < MaxLosses /\ losses' = losses + 1
  /\ Goto(m, "finish")
  /\ UNCHANGED <<status, seen, notified, mails, early, joined, met, stops>>

Crash(m) ==
  /\ worker[m] \notin {"absent", "queued", "done", "dead"}
  /\ losses < MaxLosses /\ losses' = losses + 1
  /\ Goto(m, "dead")
  /\ UNCHANGED <<status, seen, notified, mails, early, joined, met, stops>>

\* stop_scan_web on a member; a member without a task id works on.
Stop(m) ==
  /\ status[m] \in {"pending", "running"}
  /\ stops < MaxStops /\ stops' = stops + 1
  /\ status' = [status EXCEPT ![m] = "cancelled"]
  /\ UNCHANGED <<worker, seen, notified, mails, early, joined, met, losses>>

Step(m) ==
  \/ Create(m) \/ StartMember(m) \/ EnterHook(m) \/ ReadBatch(m) \/ ReadMembers(m)
  \/ Claim(m) \/ Send(m) \/ Finish(m) \/ Fail(m) \/ HookError(m) \/ Crash(m)
  \/ Stop(m)

BatchNext == \E m \in Members : Step(m)

BatchSpec == BatchInit /\ [][BatchNext]_batchVars

-----------------------------------------------------------------------------

BatchTypeOK ==
  /\ status \in [Members -> MemberStatus]
  /\ worker \in [Members -> Stage]
  /\ seen \in [Members -> BOOLEAN]
  /\ notified \in BOOLEAN
  /\ mails \in SUBSET Members
  /\ early \in BOOLEAN /\ joined \in BOOLEAN /\ met \in BOOLEAN
  /\ stops \in 0..MaxStops
  /\ losses \in 0..MaxLosses

\* Nobody stopped a member, and the batch was complete before it started.
Undisturbed == stops = 0 /\ ~joined

\* The batch mail goes out once at most: the notified_at guard of the hook.
AtMostOneMail == Undisturbed => \A m, n \in mails : m = n

\* The mail is about a finished batch: when notified_at is written every other
\* member has returned.
MailMeansAllAtRest == Undisturbed => ~early

\* Both promises of the hook: one mail at most, and only about a finished batch.
OneTimelyMail == AtMostOneMail /\ MailMeansAllAtRest

\* A batch all of whose members came to their end goes without its mail only if
\* a Stop or a loss hit it or two hooks met: each then found the other
\* "running", both returned, and no later hook comes.
SilenceNeedsCause ==
  (\A m \in Members : worker[m] = "done") /\ stops = 0 /\ losses = 0 /\ ~notified =>
    met

\* Why there is one mail in an undisturbed batch: a hook that has decided to
\* send meets only members that have returned, and whoever has not yet read the
\* batch row will see its mark.
Claims ==
  /\ \A m \in Members : status[m] \in Terminal <=> worker[m] = "done"
  /\ \A m \in Members : worker[m] = "absent" <=> status[m] = "absent"
  /\ \A m \in Members : worker[m] \in {"claim", "send"} =>
       \A n \in Members \ {m} : worker[n] \in {"absent", "done"}
  /\ \A m \in Members : worker[m] \in {"members", "claim"} /\ ~seen[m] => ~notified
  /\ \A m \in Members : worker[m] = "claim" => ~seen[m]
  /\ (mails # {} => notified) /\ ~early
  /\ \A m, n \in mails : m = n
  /\ \A m \in Members : worker[m] = "send" => notified /\ mails = {}
  /\ \A m \in Members : m \in mails => worker[m] \in {"finish", "done", "dead"}

\* Why an unharmed batch whose hooks never met gets its mail: a member still
\* on its way will be the last one in the hook.
OnTheWay == {"absent", "queued", "scanning", "batch", "members", "claim"}

Delivery ==
  /\ \A m \in Members : status[m] \in Terminal <=> worker[m] = "done"
  /\ \A m \in Members : worker[m] = "absent" <=> status[m] = "absent"
  /\ \A m \in Members : status[m] # "cancelled" /\ worker[m] # "dead"
  /\ \A m \in Members : seen[m] => notified
  /\ ~met => notified \/ \E m \in Members : worker[m] \in OnTheWay

MailInv ==
  /\ BatchTypeOK
  /\ Undisturbed => Claims
  /\ stops = 0 /\ losses = 0 => Delivery

=============================================================================
