------------------------------- MODULE Access -------------------------------
(***************************************************************************)
(* Accounts, sign-in, and the gate in front of every scan.                 *)
(*                                                                         *)
(* A request is a process: the web server awaits the database, Redis, LDAP *)
(* or a mail server between its steps, and other requests run meanwhile.   *)
(* It works on the copy of the session it arrived with: the session lives  *)
(* in a signed cookie at the browser, and every response writes its copy   *)
(* back whole.  ORM rows are copies too; a commit writes the columns that  *)
(* the request changed and no others (Flush).                              *)
(***************************************************************************)
EXTENDS Naturals, FiniteSets, ScanDoors

CONSTANTS
  Users,        \* accounts, present and future; a name belongs to one of them
  Browsers,     \* cookie jars
  Reqs,         \* requests that can be under way at once
  Nobody,
  MaxTries,     \* ratelimit_max_attempts
  GuardOn,      \* ratelimit_enabled
  LdapOn,       \* LDAP_ENABLED: sign-in by LDAP bind
  LdapRole      \* the role of an account that LDAP brings

ASSUME AccessAssumption ==
  /\ MaxTries \in Nat \ {0} /\ GuardOn \in BOOLEAN /\ LdapOn \in BOOLEAN
  /\ LdapRole \in Roles /\ Nobody \notin Users /\ Nobody \notin Browsers

VARIABLES
  users,    \* the users table
  tokens,   \* accounts with a valid API token
  cookie,   \* what each browser holds
  guard,    \* Redis: failed tries and lock of each name
  otp,      \* Redis: accounts with a mailed code that waits
  req,      \* the requests
  rows,     \* the scans created through the doors
  allow     \* ALLOW_AGGRESSIVE_SCANS of this deployment

vars == <<users, tokens, cookie, guard, otp, req, rows, allow>>
login == <<guard, otp>>
tables == <<users, tokens, rows, allow>>

Account == [is : {"unborn", "here", "gone"}, role : Roles, active : BOOLEAN, local : BOOLEAN,
            method : {"none", "totp", "email"}, enabled : BOOLEAN, accepted : BOOLEAN]
Unborn == [is |-> "unborn", role |-> "viewer", active |-> TRUE, local |-> TRUE,
           method |-> "none", enabled |-> FALSE, accepted |-> FALSE]
Born(role, local, active) ==
  [Unborn EXCEPT !.is = "here", !.role = role, !.local = local, !.active = active]
Here(u) == users[u].is = "here"
Admins  == {u \in Users : Here(u) /\ users[u].active /\ users[u].role = "admin"}

\* The unit of work: of the row as it is now, only the changed columns are written.
Flush(now, seen, want) == [c \in DOMAIN now |-> IF want[c] = seen[c] THEN now[c] ELSE want[c]]

Session == [who : Users \cup {Nobody}, pending : Users \cup {Nobody}, ok : BOOLEAN]
Empty   == [who |-> Nobody, pending |-> Nobody, ok |-> FALSE]
SignedIn(s, u, accepted) == [s EXCEPT !.who = u, !.ok = accepted]
Popped(s) == [s EXCEPT !.pending = Nobody]

SignPages  == {"login", "api_login", "mfa", "resend", "logout", "accept", "view"}
AdminPages == {"create", "role", "toggle", "delete", "edit", "import", "group",
               "totp", "enable", "email", "mfa_off"}
SelfBarred == {"role", "toggle", "delete"}
Pages      == SignPages \cup AdminPages \cup {"sync", "token", "revoke"} \cup Doors

Stages == {"idle", "grade", "jit", "incr", "expire", "lock", "drop", "store", "code", "use", "clear",
           "look", "again", "act", "launch", "reply"}

\* What a door is about to start for a form.
Job(door, f) == [intensity |-> Intensity(door, f), creds |-> UsesCredentials(door, f), ack |-> f.ack]
Jobs  == [intensity : Intensities, creds : BOOLEAN, ack : BOOLEAN]
NoJob == [intensity |-> "safe", creds |-> FALSE, ack |-> FALSE]

\* early: under way when the lock of its name was set; blind: Redis did not answer when it was locked.
Idle == [at |-> "idle", page |-> "view", b |-> Nobody, sess |-> Empty, had |-> FALSE,
         me |-> Nobody, as |-> "viewer", u |-> Nobody, seen |-> Unborn, arg |-> "viewer",
         early |-> FALSE, blind |-> FALSE, job |-> NoJob]

Init ==
  /\ users \in [Users -> {Unborn} \cup {a \in Account : a.is = "here"}]
  /\ Admins # {}
  /\ tokens \in SUBSET Users
  /\ cookie = [b \in Browsers |-> Empty]
  /\ guard = [u \in Users |-> [fails |-> 0, ttl |-> FALSE, lock |-> FALSE, slip |-> FALSE]]
  /\ otp = {}
  /\ req = [r \in Reqs |-> Idle]
  /\ rows = {}
  /\ allow \in BOOLEAN

-----------------------------------------------------------------------------
(***************************************************************************)
(* Requests: arrival copies the cookie, the response writes the copy back. *)
(***************************************************************************)
Arrive(b, page, at) ==
  [Idle EXCEPT !.at = at, !.page = page, !.b = b, !.sess = cookie[b],
               !.had = cookie[b] # Empty]

\* All that is left of a request whose response is under way.
Answer(q, s) == [Idle EXCEPT !.at = "reply", !.b = q.b, !.sess = s, !.had = q.had]

Set(r, rec) == req' = [req EXCEPT ![r] = rec]
Goto(r, at) == Set(r, IF at = "reply" THEN Answer(req[r], req[r].sess) ELSE [req[r] EXCEPT !.at = at])

\* A wrong password or code is counted when the guard is on.
Missed(q) == IF GuardOn THEN [q EXCEPT !.at = "incr"] ELSE Answer(q, q.sess)

\* An empty session is only written when it was not empty on arrival: the cookie is deleted.
Reply(r) ==
  /\ req[r].at = "reply"
  /\ cookie' = IF req[r].b \in Browsers /\ (req[r].sess # Empty \/ req[r].had)
               THEN [cookie EXCEPT ![req[r].b] = req[r].sess] ELSE cookie
  /\ Set(r, Idle)
  /\ UNCHANGED <<tables, login>>

\* The EXPIRE of a new counter was not made: it stays without an end (slip).
Unset(u) == IF guard[u].fails > 0 /\ ~guard[u].ttl THEN [guard EXCEPT ![u].slip = TRUE] ELSE guard

\* The server restarts, or the client hangs up: no response.
Abort(r) ==
  /\ req[r].at # "idle"
  /\ Set(r, Idle)
  /\ guard' = IF req[r].at = "expire" THEN Unset(req[r].u) ELSE guard
  /\ UNCHANGED <<tables, cookie, otp>>

-----------------------------------------------------------------------------
(***************************************************************************)
(* Signing in.  heard: Redis answered; right: what the person typed is     *)
(* right (the password, at the second step the code).                      *)
(***************************************************************************)
\* Mutant: looks at the counter, which the lock deleted.
LockedByCount(u, heard) == GuardOn /\ heard /\ guard[u].fails >= MaxTries

Locked(u, heard) == GuardOn /\ heard /\ guard[u].lock

LoginArrives(r, b, page, u, heard) ==
  /\ req[r].at = "idle" /\ page \in {"login", "api_login"}
  /\ LET new == Arrive(b, page, "grade") IN
     Set(r, IF Locked(u, heard) THEN Answer(new, new.sess)
            ELSE [new EXCEPT !.u = u, !.blind = guard[u].lock /\ ~heard])
  /\ UNCHANGED <<tables, cookie, login>>

\* The password was right: the second step, a refusal of the JSON endpoint, or the session.
PasswordRight(q, a) ==
  LET half == [q.sess EXCEPT !.pending = q.u] IN
  IF ~a.enabled THEN [q EXCEPT !.at = "clear", !.seen = a]
  ELSE IF q.page = "api_login" THEN Answer(q, q.sess)
  ELSE IF a.method = "email" THEN [q EXCEPT !.at = "store", !.sess = half]
  ELSE Answer(q, half)

Grade(r, right) ==
  LET q == req[r]
      a == users[q.u]
      bound == LdapOn /\ right /\ (a.is = "unborn" \/ (Here(q.u) /\ ~a.local /\ a.active))
      known == Here(q.u) /\ a.active /\ right /\ a.local
  IN
  /\ q.at = "grade"
  /\ Set(r, IF bound THEN [q EXCEPT !.at = "jit"] ELSE IF known THEN PasswordRight(q, a) ELSE Missed(q))
  /\ UNCHANGED <<tables, cookie, login>>

\* The LDAP bind held: the row is read again, or created.  (A deleted name does not come back.)
Jit(r) ==
  LET q == req[r]
      now == IF users[q.u].is = "unborn" THEN Born(LdapRole, FALSE, TRUE) ELSE users[q.u]
  IN
  /\ q.at = "jit"
  /\ users' = [users EXCEPT ![q.u] = now]
  /\ Set(r, IF now.is = "here" /\ now.active THEN PasswordRight(q, now) ELSE Missed(q))
  /\ UNCHANGED <<tokens, rows, allow, cookie, login>>

MfaArrives(r, b, heard) ==
  LET u == cookie[b].pending
      new == Arrive(b, "mfa", "code")
  IN
  /\ req[r].at = "idle" /\ u # Nobody
  /\ Set(r, IF ~Here(u) \/ ~users[u].enabled \/ Locked(u, heard)
            THEN Answer(new, Popped(new.sess))
            ELSE [new EXCEPT !.u = u, !.seen = users[u], !.blind = guard[u].lock /\ ~heard])
  /\ UNCHANGED <<tables, cookie, login>>

\* verify_email_otp reads the stored code and deletes it in a second call; a TOTP code is computed.
Code(r, right) ==
  LET q == req[r] IN
  /\ q.at = "code"
  /\ Set(r, IF q.seen.method = "email" /\ right /\ q.u \in otp THEN [q EXCEPT !.at = "use"]
            ELSE IF q.seen.method = "totp" /\ right THEN [q EXCEPT !.at = "clear"]
            ELSE Missed(q))
  /\ UNCHANGED <<tables, cookie, login>>

Use(r) ==
  /\ req[r].at = "use"
  /\ otp' = otp \ {req[r].u}
  /\ Goto(r, "clear")
  /\ UNCHANGED <<tables, cookie, guard>>

\* Both Redis keys of the name go in one DEL; then the session is opened.
Opened(q) ==
  LET s == SignedIn(q.sess, q.u, q.seen.accepted) IN
  Answer(q, IF q.page = "mfa" THEN Popped(s) ELSE s)

NoTries == [fails |-> 0, ttl |-> FALSE, lock |-> FALSE, slip |-> FALSE]

Clear(r) ==
  /\ req[r].at = "clear"
  /\ guard' = [guard EXCEPT ![req[r].u] = NoTries]
  /\ Set(r, Opened(req[r]))
  /\ UNCHANGED <<tables, cookie, otp>>

(***************************************************************************)
(* record_login_failure: INCR, EXPIRE on the first, SET of the lock and    *)
(* DEL of the counter at the threshold.  Four calls, four steps.           *)
(***************************************************************************)
AfterCount(n) == IF n >= MaxTries THEN "lock" ELSE "reply"

\* Mutant: the window is opened by the second failure.
IncrLate(r) ==
  LET n == guard[req[r].u].fails + 1 IN
  /\ req[r].at = "incr"
  /\ guard' = [guard EXCEPT ![req[r].u].fails = n]
  /\ IF n = 2 THEN Goto(r, "expire") ELSE Goto(r, AfterCount(n))
  /\ UNCHANGED <<tables, cookie, otp>>

Incr(r) ==
  LET u == req[r].u
      n == guard[u].fails + 1
  IN
  /\ req[r].at = "incr"
  /\ guard' = [guard EXCEPT ![u].fails = n]
  /\ IF n = 1 THEN Goto(r, "expire") ELSE Goto(r, AfterCount(n))
  /\ UNCHANGED <<tables, cookie, otp>>

Expire(r) ==
  LET u == req[r].u IN
  /\ req[r].at = "expire"
  /\ guard' = IF guard[u].fails > 0 THEN [guard EXCEPT ![u].ttl = TRUE, ![u].slip = FALSE] ELSE guard
  /\ Goto(r, AfterCount(1))
  /\ UNCHANGED <<tables, cookie, otp>>

Checked(q, u) == q.u = u /\ q.at \in {"grade", "jit", "code", "use", "clear"}

SetLock(r) ==
  LET u == req[r].u IN
  /\ req[r].at = "lock"
  /\ guard' = [guard EXCEPT ![u].lock = TRUE]
  /\ req' = [q \in Reqs |-> IF q = r THEN [req[q] EXCEPT !.at = "drop"]
                            ELSE IF Checked(req[q], u) THEN [req[q] EXCEPT !.early = TRUE]
                            ELSE req[q]]
  /\ UNCHANGED <<tables, cookie, otp>>

Drop(r) ==
  LET u == req[r].u IN
  /\ req[r].at = "drop"
  /\ guard' = [guard EXCEPT ![u].fails = 0, ![u].ttl = FALSE, ![u].slip = FALSE]
  /\ Set(r, Answer(req[r], IF req[r].page = "mfa" THEN Popped(req[r].sess) ELSE req[r].sess))
  /\ UNCHANGED <<tables, cookie, otp>>

\* A mailed code: stored before the mail is sent; nothing happens without SMTP or an address.
Store(r, mails) ==
  /\ req[r].at = "store"
  /\ otp' = IF mails THEN otp \cup {req[r].u} ELSE otp
  /\ Goto(r, "reply")
  /\ UNCHANGED <<tables, cookie, guard>>

\* Every Redis call may raise; the handlers swallow it and go on as if it was not made.
RedisFails(r) ==
  /\ req[r].at \in {"incr", "expire", "lock", "drop", "store", "use", "clear"}
  /\ guard' = IF req[r].at = "expire" THEN Unset(req[r].u) ELSE guard
  /\ Set(r, CASE req[r].at = "use"   -> [req[r] EXCEPT !.at = "clear"]
              [] req[r].at = "clear" -> Opened(req[r])
              [] OTHER               -> Answer(req[r], req[r].sess))
  /\ UNCHANGED <<tables, cookie, otp>>

\* TTLs of Redis: the counter's window, the lock, the mailed code.
CountEnds(u) == guard[u].fails > 0 /\ guard[u].ttl
                /\ guard' = [guard EXCEPT ![u].fails = 0, ![u].ttl = FALSE, ![u].slip = FALSE]
                /\ UNCHANGED <<tables, cookie, otp, req>>
LockEnds(u)  == guard[u].lock /\ guard' = [guard EXCEPT ![u].lock = FALSE]
                /\ UNCHANGED <<tables, cookie, otp, req>>
OtpEnds(u)   == u \in otp /\ otp' = otp \ {u} /\ UNCHANGED <<tables, cookie, guard, req>>

-----------------------------------------------------------------------------
(***************************************************************************)
(* Other pages of a browser.                                               *)
(***************************************************************************)
Resend(r, b) ==
  LET u == cookie[b].pending IN
  /\ req[r].at = "idle" /\ u # Nobody
  /\ LET new == Arrive(b, "resend", "store") IN
     Set(r, IF Here(u) /\ users[u].enabled /\ users[u].method = "email"
            THEN [new EXCEPT !.u = u] ELSE Answer(new, new.sess))
  /\ UNCHANGED <<tables, cookie, login>>

Logout(r, b) ==
  /\ req[r].at = "idle" /\ cookie[b] # Empty
  /\ Set(r, Answer(Arrive(b, "logout", "reply"), Empty))
  /\ UNCHANGED <<tables, cookie, login>>

\* Any page: _current_user ends a session that was idle too long; the response writes the cookie.
View(r, b, timedOut) ==
  /\ req[r].at = "idle" /\ cookie[b].who # Nobody
  /\ Set(r, Answer(Arrive(b, "view", "reply"), IF timedOut THEN Empty ELSE cookie[b]))
  /\ UNCHANGED <<tables, cookie, login>>

\* The disclaimer page of somebody who had accepted takes the flag from the row.
Refresh(r, b) ==
  LET me == cookie[b].who IN
  /\ req[r].at = "idle" /\ me # Nobody /\ Here(me) /\ users[me].accepted
  /\ Set(r, Answer(Arrive(b, "view", "reply"), [cookie[b] EXCEPT !.ok = TRUE]))
  /\ UNCHANGED <<tables, cookie, login>>

AcceptArrives(r, b) ==
  LET me == cookie[b].who IN
  /\ req[r].at = "idle" /\ me # Nobody /\ Here(me)
  /\ Set(r, [Arrive(b, "accept", "act") EXCEPT !.me = me, !.u = me, !.seen = users[me]])
  /\ UNCHANGED <<tables, cookie, login>>

-----------------------------------------------------------------------------
(***************************************************************************)
(* The pages of an administrator, and the LDAP sync of the beat.  Three    *)
(* steps: the acting user is loaded and its role looked at; the target row *)
(* is read; the change is committed.  A request that was refused, or whose *)
(* target is missing, goes to its response.                                *)
(***************************************************************************)
MayAdminister(page, me, on) ==
  users[me].role = "admin" /\ ~(page \in SelfBarred /\ on = me)

AdminArrives(r, b, page, on, role) ==
  LET me == cookie[b].who IN
  /\ req[r].at = "idle" /\ me # Nobody /\ Here(me)
  /\ LET new == Arrive(b, page, "look") IN
     Set(r, IF MayAdminister(page, me, on)
            THEN [new EXCEPT !.me = me, !.as = users[me].role, !.u = on, !.seen = users[on], !.arg = role]
            ELSE Answer(new, new.sess))
  /\ UNCHANGED <<tables, cookie, login>>

SyncFires(r, on) ==
  /\ req[r].at = "idle"
  /\ Set(r, [Idle EXCEPT !.at = "look", !.page = "sync", !.u = on, !.arg = LdapRole])
  /\ UNCHANGED <<tables, cookie, login>>

Births  == {"create", "import", "group", "sync"}
Bulk    == {"group", "sync"}

\* The row of the acting user was loaded on arrival and is not read again (identity map).
Look(r) ==
  LET q == req[r]
      row == IF q.u = q.me THEN q.seen ELSE users[q.u]
      goes == CASE q.page \in Bulk    -> IF row.is = "here" THEN "reply" ELSE "again"
                [] q.page = "create" -> IF row.is = "unborn" THEN "act" ELSE "reply"
                [] q.page = "import" -> IF row.is = "gone" THEN "reply" ELSE "act"
                [] OTHER             -> IF row.is = "here" THEN "act" ELSE "reply"
  IN
  /\ q.at = "look"
  /\ Set(r, IF goes = "reply" THEN Answer(q, q.sess) ELSE [q EXCEPT !.at = goes, !.seen = row])
  /\ UNCHANGED <<tables, cookie, login>>

\* A bulk import found no row; import_ldap_user reads once more.
Again(r) ==
  LET row == users[req[r].u] IN
  /\ req[r].at = "again"
  /\ Set(r, IF row.is = "gone" THEN Answer(req[r], req[r].sess) ELSE [req[r] EXCEPT !.at = "act", !.seen = row])
  /\ UNCHANGED <<tables, cookie, login>>

\* Mutant: an import writes its role over an administrator too.
ImportedRoleAlways(seen, role) == role

ImportedRole(seen, role) == IF seen.role = "admin" THEN "admin" ELSE role

\* What the request makes of the row it read.
Want(q) ==
  CASE q.page = "role"    -> [q.seen EXCEPT !.role = q.arg]
    [] q.page = "edit"    -> IF q.u = q.me THEN q.seen ELSE [q.seen EXCEPT !.role = q.arg]
    [] q.page = "toggle"  -> [q.seen EXCEPT !.active = ~@]
    [] q.page \in {"import", "group", "sync"} -> [q.seen EXCEPT !.role = ImportedRole(q.seen, q.arg)]
    [] q.page = "totp"    -> [q.seen EXCEPT !.method = "totp", !.enabled = FALSE]
    [] q.page = "email"   -> [q.seen EXCEPT !.method = "email", !.enabled = FALSE]
    [] q.page = "enable"  -> [q.seen EXCEPT !.enabled = TRUE]
    [] q.page = "mfa_off" -> [q.seen EXCEPT !.method = "none", !.enabled = FALSE]
    [] q.page = "accept"  -> [q.seen EXCEPT !.accepted = TRUE]
    [] q.page = "delete"  -> [q.seen EXCEPT !.is = "gone"]

\* After the commit: the e-mail method is enabled by a second one; consent goes into the session.
Acted(q) ==
  CASE q.page = "email"  -> [q EXCEPT !.page = "enable", !.seen = Want(q)]
    [] q.page = "accept" -> Answer(q, [q.sess EXCEPT !.ok = TRUE])
    [] q.page = "sync"   -> Idle
    [] OTHER             -> Answer(q, q.sess)

\* The UPDATE of a row that is gone fails the commit, as does a name that was taken meanwhile: no
\* session is written.  Without a changed column there is no UPDATE.
Act(r) ==
  LET q == req[r] IN
  /\ q.at = "act"
  /\ IF q.seen.is = "here"
     THEN IF Here(q.u) \/ Want(q) = q.seen
          THEN users' = [users EXCEPT ![q.u] = Flush(@, q.seen, Want(q))] /\ Set(r, Acted(q))
          ELSE Set(r, Idle) /\ UNCHANGED users
     ELSE IF users[q.u].is = "unborn"
          THEN /\ users' = [users EXCEPT ![q.u] = Born(q.arg, q.page = "create", q.page \notin Bulk)]
               /\ Set(r, Acted(q))
          ELSE Set(r, Idle) /\ UNCHANGED users
  /\ tokens' = {u \in tokens : users'[u].is = "here"}
  /\ UNCHANGED <<rows, allow, cookie, login>>

-----------------------------------------------------------------------------
(***************************************************************************)
(* API tokens, and starting scans.                                         *)
(***************************************************************************)
\* get_current_user: unlike the web pages it wants an active account.
ApiUser(u) == u # Nobody /\ Here(u) /\ users[u].active

TokenMade(b) ==
  LET me == cookie[b].who IN
  /\ ApiUser(me) /\ tokens' = tokens \cup {me}
  /\ UNCHANGED <<users, rows, allow, cookie, login, req>>
TokenRevoked(b) ==
  LET me == cookie[b].who IN
  /\ ApiUser(me) /\ tokens' = tokens \ {me}
  /\ UNCHANGED <<users, rows, allow, cookie, login, req>>
TokenEnds(u) ==
  /\ u \in tokens /\ tokens' = tokens \ {u}
  /\ UNCHANGED <<users, rows, allow, cookie, login, req>>

\* _disclaimer_scan_gate: paths under /scans, cookie sessions only; it reads the cookie's flag.
UnderScans == WebDoors \cup {"api_scan"}
GatePasses(door, b) == door \in UnderScans => cookie[b].ok

\* require_disclaimer_accepted reads the row.
ConsentOf(u) == users[u].accepted

LaunchArrives(r, b, door, f) ==
  LET me == cookie[b].who
      opens == /\ GatePasses(door, b)
               /\ door \in ApiDoors => ApiUser(me) /\ ConsentOf(me)
               /\ Opens(door, users[me].role, f, allow)
  IN
  /\ req[r].at = "idle" /\ me # Nobody /\ Here(me)
  /\ LET new == Arrive(b, door, "launch") IN
     Set(r, IF opens THEN [new EXCEPT !.me = me, !.as = users[me].role, !.job = Job(door, f)]
            ELSE Answer(new, new.sess))
  /\ UNCHANGED <<tables, cookie, login>>

BearerLaunch(r, me, door, f) ==
  /\ req[r].at = "idle" /\ door \in ApiDoors
  /\ me \in tokens /\ ApiUser(me)
  /\ ConsentOf(me) /\ Opens(door, users[me].role, f, allow)
  /\ Set(r, [Idle EXCEPT !.at = "launch", !.page = door, !.me = me, !.as = users[me].role, !.job = Job(door, f)])
  /\ UNCHANGED <<tables, cookie, login>>

Row(q) == [door |-> q.page, by |-> q.me, as |-> q.as, job |-> q.job]

\* The scan row names its owner: an owner deleted meanwhile fails the insert.
Launch(r) ==
  /\ req[r].at = "launch"
  /\ IF Here(req[r].me)
     THEN rows' = rows \cup {Row(req[r])} /\ Goto(r, "reply")
     ELSE UNCHANGED rows /\ Set(r, Idle)
  /\ UNCHANGED <<users, tokens, allow, cookie, login>>

-----------------------------------------------------------------------------
SignIn(r, b) ==
  \/ \E page \in {"login", "api_login"}, u \in Users, heard \in BOOLEAN : LoginArrives(r, b, page, u, heard)
  \/ \E heard \in BOOLEAN : MfaArrives(r, b, heard)
  \/ Resend(r, b) \/ Logout(r, b) \/ Refresh(r, b) \/ AcceptArrives(r, b)
  \/ \E timedOut \in BOOLEAN : View(r, b, timedOut)

Administer(r, b) ==
  \E page \in AdminPages, on \in Users, role \in Roles : AdminArrives(r, b, page, on, role)

Order(r, b) == \E door \in Doors, f \in Forms : LaunchArrives(r, b, door, f)
Bearer(r)   == \E me \in Users, door \in ApiDoors, f \in Forms : BearerLaunch(r, me, door, f)

\* A request that is under way takes its next step.
Step(r) ==
  \/ \E right \in BOOLEAN : Grade(r, right) \/ Code(r, right) \/ Store(r, right)
  \/ Jit(r) \/ Use(r) \/ Clear(r) \/ Incr(r) \/ Expire(r) \/ SetLock(r) \/ Drop(r)
  \/ RedisFails(r) \/ Look(r) \/ Again(r) \/ Act(r) \/ Launch(r) \/ Reply(r) \/ Abort(r)

TokenStep == (\E b \in Browsers : TokenMade(b) \/ TokenRevoked(b)) \/ (\E u \in Users : TokenEnds(u))
Expiry    == \E u \in Users : CountEnds(u) \/ LockEnds(u) \/ OtpEnds(u)

Next ==
  \/ \E r \in Reqs, b \in Browsers : SignIn(r, b) \/ Administer(r, b) \/ Order(r, b)
  \/ \E r \in Reqs, on \in Users : SyncFires(r, on)
  \/ \E r \in Reqs : Bearer(r) \/ Step(r)
  \/ TokenStep \/ Expiry

Spec == Init /\ [][Next]_vars

-----------------------------------------------------------------------------
(***************************************************************************)
(* Properties.                                                             *)
(***************************************************************************)
Request == [at : Stages, page : Pages, b : Browsers \cup {Nobody}, sess : Session, had : BOOLEAN,
            me : Users \cup {Nobody}, as : Roles, u : Users \cup {Nobody}, seen : Account, arg : Roles,
            early : BOOLEAN, blind : BOOLEAN, job : Jobs]

\* Every variable keeps its shape.
TypeOK ==
  /\ users \in [Users -> Account] /\ tokens \in SUBSET Users
  /\ cookie \in [Browsers -> Session] /\ otp \in SUBSET Users /\ allow \in BOOLEAN
  /\ guard \in [Users -> [fails : Nat, ttl : BOOLEAN, lock : BOOLEAN, slip : BOOLEAN]]
  /\ req \in [Reqs -> Request]

\* record_login_failure counts with one Redis call and dates the counter with another: a counter
\* without an end is about to get one from the request that started it, or that call was lost.
WindowHasEnd ==
  \A u \in Users : guard[u].fails > 0 /\ ~guard[u].ttl =>
    guard[u].slip \/ \E r \in Reqs : req[r].at = "expire" /\ req[r].u = u

\* The two together: what the run checks as one invariant.
AccessInv == TypeOK /\ WindowHasEnd

\* A scan starts for somebody who accepted the disclaimer, and an intrusive one for an administrator
\* of a deployment that allows them, with the box ticked where there is one; the flag in a cookie,
\* which the web doors trust instead of the row, is never ahead of the row, whatever responses of
\* one browser overtake each other.
LaunchEarned ==
  /\ \A b \in Browsers : cookie[b].ok => cookie[b].who # Nobody /\ users[cookie[b].who].accepted
  /\ \A w \in rows :
       /\ users[w.by].accepted
       /\ IsAggressive(w.job.intensity) => w.as = "admin" /\ allow /\ (w.door = "start" => w.job.ack)
       /\ w.job.creds => w.as = "admin"

\* The commit of request r.
Commits(r) == req[r].at = "act" /\ req'[r] # req[r]

\* The last administrator is only taken away by a request whose own user was no longer one (loaded
\* before another request changed it, or signed in before it was made inactive, which the web pages do
\* not look at), and an import takes the role of an administrator only when it read the row before.
AdminsKept ==
  [][/\ Admins # {} /\ Admins' = {} => \E r \in Reqs : Commits(r) /\ req[r].me \notin Admins
     /\ \A u \in Users :
          users[u].role = "admin" /\ users'[u].role # "admin" =>
            \E r \in Reqs :
              /\ Commits(r) /\ req[r].u = u
              /\ \/ req[r].page \in {"role", "edit"} /\ req[r].me # u
                 \/ req[r].page \in {"import", "group", "sync"} /\ req[r].seen.role # "admin"
    ]_vars

\* A lock ends with its time, or by a sign-in that had passed the check before the lock was set or
\* whose check Redis did not answer.
LockHolds ==
  [][\A u \in Users : guard[u].lock /\ ~guard'[u].lock =>
       \/ req' = req
       \/ \E r \in Reqs : /\ req[r].at = "clear" /\ req'[r] # req[r]
                         /\ req[r].u = u /\ (req[r].early \/ req[r].blind)]_vars

=============================================================================
