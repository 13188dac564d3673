---------------------------- MODULE AccessProofs ----------------------------
(***************************************************************************)
(* Accounts and doors, for any number of accounts, browsers and requests.  *)
(* A request carries copies: of its session, of rows, of what it was       *)
(* allowed.  The inductive invariant says what each copy still guarantees  *)
(* when it is used, whatever other requests have done meanwhile.           *)
(***************************************************************************)
EXTENDS Access, TLAPS

\* Stages at which a request is about an account.
Keyed    == Stages \ {"idle", "launch", "reply"}
Counting == {"incr", "expire", "lock", "drop"}

\* The consent flag of a session is never ahead of the row.
Consented(s) == s.ok => s.who \in Users /\ users[s.who].accepted

\* A copy of a row is never ahead of the row in its consent.
SeenKept(q) == q.u \in Users /\ q.seen.accepted => users[q.u].accepted

\* What the pages of an administrator, and the disclaimer, have made sure of before they commit.
Acting(q) ==
  q.at \in {"look", "again", "act"} =>
    /\ \/ q.page \in AdminPages \cup {"sync"}
       \/ q.at = "act" /\ q.page = "accept" /\ q.u = q.me /\ q.sess.who = q.u /\ q.seen.is = "here"
    /\ q.page \in SelfBarred => q.u # q.me
    /\ q.u = q.me => q.seen.is = "here" /\ q.at # "again" /\ (q.page # "accept" => q.seen.role = "admin")
    /\ q.at = "again" => q.page \in Bulk
    /\ q.at = "act" => \/ q.seen.is = "here" /\ q.page # "create"
                       \/ q.seen.is = "unborn" /\ q.page \in Births

\* What a door asked of the user it loaded.
Earned(door, as, job) ==
  /\ IsAggressive(job.intensity) => as = "admin" /\ allow /\ (door = "start" => job.ack)
  /\ job.creds => as = "admin"

Ordered(q) ==
  q.at = "launch" => /\ q.page \in Doors /\ q.me \in Users /\ users[q.me].accepted
                     /\ Earned(q.page, q.as, q.job)

\* Who is past the check of a locked name was there before the lock, or was not answered.
Admitted(q) == \A u \in Users : Checked(q, u) /\ guard[u].lock => q.early \/ q.blind

Sound(q) ==
  /\ q \in Request
  /\ q.at \in Keyed => q.u \in Users
  /\ ~GuardOn => q.at \notin Counting
  /\ Consented(q.sess) /\ SeenKept(q) /\ Acting(q) /\ Ordered(q) /\ Admitted(q)

\* The name of nobody yet is an empty row.
UnbornEmpty == \A u \in Users : users[u].is = "unborn" => users[u] = Unborn

GuardOff == ~GuardOn => \A u \in Users : ~guard[u].lock

RowsEarned ==
  \A w \in rows : w.by \in Users /\ users[w.by].accepted /\ Earned(w.door, w.as, w.job)

SoundInv ==
  /\ TypeOK /\ UnbornEmpty /\ GuardOff /\ RowsEarned /\ WindowHasEnd
  /\ \A b \in Browsers : Consented(cookie[b])
  /\ \A r \in Reqs : Sound(req[r])

-----------------------------------------------------------------------------
(***************************************************************************)
(* Records: an empty request, an arrival, an answer.                       *)
(***************************************************************************)
\* The disclosed shape of the constants of the module.
LEMMA Shapes ==
  /\ Unborn \in Account /\ Empty \in Session /\ NoJob \in Jobs /\ Idle \in Request
  /\ "idle" \in Stages /\ "reply" \in Stages
<1>1. Unborn \in Account
  BY DEF Unborn, Account, Roles
<1>2. Empty \in Session
  BY DEF Empty, Session
<1>3. NoJob \in Jobs
  BY DEF NoJob, Jobs, Intensities
<1>4. "idle" \in Stages /\ "reply" \in Stages
  BY DEF Stages
<1>5. "view" \in Pages /\ "viewer" \in Roles
  BY DEF Pages, SignPages, Roles
<1>6. Idle \in Request
  BY <1>1, <1>2, <1>3, <1>4, <1>5 DEF Idle, Request
<1> QED
  BY <1>1, <1>2, <1>3, <1>4, <1>6

\* A request that is idle owes nothing.
LEMMA IdleSound == Sound(Idle)
<1> USE AccessAssumption
<1>1. Idle \in Request /\ Idle.at = "idle" /\ Idle.u = Nobody /\ Idle.sess = Empty /\ ~Idle.sess.ok
  BY Shapes DEF Idle, Empty
<1> QED
  BY <1>1 DEF Sound, Keyed, Counting, Consented, SeenKept, Acting, Ordered, Admitted, Checked

\* What a response keeps of its request.
LEMMA AnswerShape ==
  ASSUME NEW q \in Request, NEW s \in Session
  PROVE  /\ Answer(q, s) \in Request /\ Answer(q, s).at = "reply"
         /\ Answer(q, s).u = Nobody /\ Answer(q, s).sess = s
<1> USE Shapes
<1>1. q.b \in Browsers \cup {Nobody} /\ q.had \in BOOLEAN
  BY DEF Request
<1> QED
  BY <1>1 DEF Answer, Request, Idle

\* A response owes no more than its session.
LEMMA AnswerSound ==
  ASSUME NEW q \in Request, NEW s \in Session, Consented(s)
  PROVE  Sound(Answer(q, s))
<1> USE AccessAssumption
<1>1. /\ Answer(q, s) \in Request /\ Answer(q, s).at = "reply"
      /\ Answer(q, s).u = Nobody /\ Answer(q, s).sess = s
  BY AnswerShape
<1> QED
  BY <1>1 DEF Sound, Keyed, Counting, SeenKept, Acting, Ordered, Admitted, Checked

\* What a request brings along.
LEMMA ArriveShape ==
  ASSUME NEW b \in Browsers, NEW page \in Pages, NEW at \in Stages, cookie[b] \in Session
  PROVE  /\ Arrive(b, page, at) \in Request /\ Arrive(b, page, at).at = at
         /\ Arrive(b, page, at).page = page /\ Arrive(b, page, at).sess = cookie[b]
         /\ Arrive(b, page, at).u = Nobody /\ Arrive(b, page, at).me = Nobody
         /\ Arrive(b, page, at).seen = Unborn
<1> USE Shapes
<1>1. (cookie[b] # Empty) \in BOOLEAN
  OBVIOUS
<1> QED
  BY <1>1 DEF Arrive, Request, Idle

-----------------------------------------------------------------------------
(***************************************************************************)
(* What other requests can take away from a copy: nothing, as long as      *)
(* consent only grows and no lock is added.                                *)
(***************************************************************************)
Grown == \A u \in Users : users[u].accepted => users'[u].accepted
Unlocked == \A u \in Users : guard'[u].lock => guard[u].lock

\* A sound request stays sound while it waits.
LEMMA SoundKept ==
  ASSUME NEW q, Sound(q), Grown, Unlocked, allow' = allow
  PROVE  Sound(q)'
<1>1. Consented(q.sess)'
  BY DEF Sound, Consented, Grown
<1>2. SeenKept(q)'
  BY DEF Sound, SeenKept, Grown
<1>3. Ordered(q)'
  BY DEF Sound, Ordered, Earned, Grown
<1>4. Admitted(q)'
  BY DEF Sound, Admitted, Checked, Unlocked
<1>5. Acting(q)'
  BY DEF Sound, Acting
<1> QED
  BY <1>1, <1>2, <1>3, <1>4, <1>5 DEF Sound

\* One request moves, whatever else changes with it.
LEMMA Together ==
  ASSUME SoundInv, NEW r \in Reqs, NEW q, Sound(q)', req' = [req EXCEPT ![r] = q],
         Grown, Unlocked, allow' = allow,
         users' \in [Users -> Account], tokens' \in SUBSET Users, otp' \in SUBSET Users,
         guard' \in [Users -> [fails : Nat, ttl : BOOLEAN, lock : BOOLEAN, slip : BOOLEAN]],
         cookie' \in [Browsers -> Session], \A b \in Browsers : Consented(cookie[b])',
         UnbornEmpty', RowsEarned', WindowHasEnd'
  PROVE  SoundInv'
<1>1. \A p \in Reqs : Sound(req[p])'
  <2> SUFFICES ASSUME NEW p \in Reqs PROVE Sound(req[p])'
    OBVIOUS
  <2>1. req \in [Reqs -> Request]
    BY DEF SoundInv, TypeOK
  <2>2. req'[p] = q \/ req'[p] = req[p]
    BY <2>1
  <2>3. Sound(req[p])
    BY DEF SoundInv
  <2>4. CASE req'[p] = q
    BY <2>4 DEF Sound, Consented, SeenKept, Acting, Ordered, Earned, Admitted, Checked
  <2>5. CASE req'[p] = req[p]
    <3> DEFINE x == req[p]
    <3>1. Sound(x)
      BY <2>3
    <3> HIDE DEF x
    <3>2. ASSUME NEW y, y = x PROVE Sound(y)'
      BY <3>1, <3>2, SoundKept
    <3> QED
      BY <3>2, <2>5 DEF x, Sound, Consented, SeenKept, Acting, Ordered, Earned, Admitted, Checked
  <2> QED
    BY <2>2, <2>4, <2>5
<1>2. TypeOK'
  <2>1. q \in Request
    BY DEF Sound
  <2> QED
    BY <2>1 DEF SoundInv, TypeOK
<1>3. GuardOff'
  BY DEF SoundInv, GuardOff, Unlocked
<1> QED
  BY <1>1, <1>2, <1>3 DEF SoundInv

\* One request moves, and perhaps its name's counter, lock and code with it.
LEMMA Moves ==
  ASSUME SoundInv, NEW r \in Reqs, NEW q, Sound(q), req' = [req EXCEPT ![r] = q],
         UNCHANGED <<tables, cookie>>, otp' \in SUBSET Users, Unlocked, WindowHasEnd',
         guard' \in [Users -> [fails : Nat, ttl : BOOLEAN, lock : BOOLEAN, slip : BOOLEAN]]
  PROVE  SoundInv'
<1> USE DEF tables
<1>1. Grown
  BY DEF Grown
<1>2. Sound(q)'
  BY <1>1, SoundKept
<1>3. UnbornEmpty' /\ RowsEarned'
  BY DEF SoundInv, UnbornEmpty, RowsEarned, Earned
<1>4. \A b \in Browsers : Consented(cookie[b])'
  BY DEF SoundInv, Consented
<1>5. /\ users' \in [Users -> Account] /\ tokens' \in SUBSET Users /\ cookie' \in [Browsers -> Session]
      /\ allow' = allow
  BY DEF SoundInv, TypeOK
<1> QED
  BY <1>1, <1>2, <1>3, <1>4, <1>5, Together

\* A move that leaves the guard alone, of a request that owes no counter its end.
LEMMA PlainMove ==
  ASSUME SoundInv, NEW r \in Reqs, NEW q, Sound(q), req' = [req EXCEPT ![r] = q],
         req[r].at # "expire", UNCHANGED <<tables, cookie, guard>>, otp' \in SUBSET Users
  PROVE  SoundInv'
<1>1. req \in [Reqs -> Request]
  BY DEF SoundInv, TypeOK
<1>2. WindowHasEnd'
  BY <1>1 DEF SoundInv, WindowHasEnd
<1>3. guard' \in [Users -> [fails : Nat, ttl : BOOLEAN, lock : BOOLEAN, slip : BOOLEAN]]
  BY DEF SoundInv, TypeOK
<1> QED
  BY <1>2, <1>3, Moves DEF Unlocked

\* As PlainMove, with the answer a refused request gets.
LEMMA Answers ==
  ASSUME SoundInv, NEW r \in Reqs, NEW q \in Request, NEW s \in Session, Consented(s),
         Set(r, Answer(q, s)), req[r].at # "expire",
         UNCHANGED <<tables, cookie, guard>>, otp' \in SUBSET Users
  PROVE  SoundInv'
<1>1. Sound(Answer(q, s))
  BY AnswerSound
<1> QED
  BY <1>1, PlainMove DEF Set

\* What the invariant says of the request that takes the step.
LEMMA Own ==
  ASSUME SoundInv, NEW r \in Reqs
  PROVE  /\ req[r] \in Request /\ Sound(req[r]) /\ req[r].sess \in Session
         /\ Consented(req[r].sess) /\ req[r].b \in Browsers \cup {Nobody}
         /\ req[r].me \in Users \cup {Nobody} /\ req[r].u \in Users \cup {Nobody}
         /\ req[r].seen \in Account /\ req[r].at \in Stages /\ req[r].page \in Pages
         /\ req[r].at \in Keyed => req[r].u \in Users
         /\ req \in [Reqs -> Request] /\ users \in [Users -> Account] /\ otp \in SUBSET Users
         /\ guard \in [Users -> [fails : Nat, ttl : BOOLEAN, lock : BOOLEAN, slip : BOOLEAN]]
BY DEF SoundInv, TypeOK, Sound, Request

\* The cookie of a browser, and whoever it names.
LEMMA OfCookie ==
  ASSUME SoundInv, NEW b \in Browsers
  PROVE  /\ cookie[b] \in Session /\ Consented(cookie[b])
         /\ cookie[b].who \in Users \cup {Nobody} /\ cookie[b].pending \in Users \cup {Nobody}
         /\ cookie[b].ok \in BOOLEAN
BY DEF SoundInv, TypeOK, Session

\* A request that has just arrived with a cookie of this browser, answered at once.
LEMMA Turned ==
  ASSUME SoundInv, NEW r \in Reqs, NEW b \in Browsers, NEW page \in Pages, NEW at \in Stages,
         NEW s \in Session, Consented(s), Set(r, Answer(Arrive(b, page, at), s)),
         req[r].at # "expire", UNCHANGED <<tables, cookie, login>>
  PROVE  SoundInv'
<1>1. Arrive(b, page, at) \in Request
  BY OfCookie, ArriveShape
<1>2. otp \in SUBSET Users
  BY Own
<1> QED
  BY <1>1, <1>2, Answers DEF login

-----------------------------------------------------------------------------
(***************************************************************************)
(* Signing in.                                                             *)
(***************************************************************************)
\* A request at none of the stages that act or launch owes only this.
LEMMA Quiet ==
  ASSUME NEW q \in Request, q.at \notin {"look", "again", "act", "launch"},
         q.at \in Keyed => q.u \in Users, ~GuardOn => q.at \notin Counting,
         Consented(q.sess), SeenKept(q), Admitted(q)
  PROVE  Sound(q)
BY DEF Sound, Acting, Ordered

\* The check at the door: a locked name passes only unanswered.
LEMMA PastTheCheck ==
  ASSUME SoundInv, NEW u \in Users, NEW heard \in BOOLEAN, ~Locked(u, heard), guard[u].lock
  PROVE  ~heard
BY DEF SoundInv, GuardOff, Locked

LEMMA LoginArrivesSound ==
  ASSUME SoundInv, NEW r \in Reqs, NEW b \in Browsers, NEW page \in {"login", "api_login"},
         NEW u \in Users, NEW heard \in BOOLEAN, LoginArrives(r, b, page, u, heard)
  PROVE  SoundInv'
<1> DEFINE new == Arrive(b, page, "grade")
           q == [new EXCEPT !.u = u, !.blind = guard[u].lock /\ ~heard]
<1>0. page \in Pages /\ "grade" \in Stages /\ req[r].at # "expire"
  BY DEF Pages, SignPages, Stages, LoginArrives
<1>1. CASE Locked(u, heard)
  <2>1. Set(r, Answer(new, new.sess)) /\ UNCHANGED <<tables, cookie, login>>
    BY <1>1 DEF LoginArrives
  <2>2. new.sess = cookie[b] /\ cookie[b] \in Session /\ Consented(cookie[b])
    BY <1>0, OfCookie, ArriveShape
  <2> HIDE DEF new
  <2>3. new = Arrive(b, page, "grade")
    BY DEF new
  <2> QED
    BY <1>0, <2>1, <2>2, <2>3, Turned
<1>2. CASE ~Locked(u, heard)
  <2>1. req' = [req EXCEPT ![r] = q] /\ UNCHANGED <<tables, cookie, login>>
    BY <1>2 DEF LoginArrives, Set
  <2>2. /\ new \in Request /\ new.at = "grade" /\ new.sess = cookie[b] /\ new.seen = Unborn
        /\ Consented(cookie[b])
    BY <1>0, OfCookie, ArriveShape
  <2>3. (guard[u].lock /\ ~heard) \in BOOLEAN
    BY Own
  <2> HIDE DEF new
  <2>4. /\ q \in Request /\ q.at = "grade" /\ q.u = u /\ q.sess = cookie[b] /\ q.seen = Unborn
        /\ q.blind = (guard[u].lock /\ ~heard)
    BY <2>2, <2>3 DEF Request
  <2> HIDE DEF q
  <2>5. SeenKept(q)
    BY <2>4 DEF SeenKept, Unborn
  <2>6. Admitted(q)
    BY <1>2, <2>4, PastTheCheck DEF Admitted, Checked
  <2>7. Sound(q)
    BY <2>2, <2>4, <2>5, <2>6, Quiet DEF Counting
  <2>8. otp \in SUBSET Users
    BY Own
  <2> QED
    BY <1>0, <2>1, <2>7, <2>8, PlainMove DEF login
<1> QED
  BY <1>1, <1>2

\* A miss is counted only by a guard that is on.
LEMMA MissedSound ==
  ASSUME NEW q, Sound(q), q.u \in Users
  PROVE  Sound(Missed(q))
<1>0. q \in Request /\ q.sess \in Session /\ Consented(q.sess) /\ SeenKept(q)
  BY DEF Sound, Request
<1>1. CASE GuardOn
  <2> DEFINE m == [q EXCEPT !.at = "incr"]
  <2>1. m \in Request /\ m.at = "incr" /\ m.u = q.u /\ m.sess = q.sess /\ m.seen = q.seen
    BY <1>0 DEF Request, Stages
  <2> HIDE DEF m
  <2>2. Sound(m)
    BY <1>0, <1>1, <2>1, Quiet DEF SeenKept, Admitted, Checked
  <2> QED
    BY <1>1, <2>2 DEF Missed, m
<1>2. CASE ~GuardOn
  <2>1. Sound(Answer(q, q.sess))
    BY <1>0, AnswerSound
  <2> QED
    BY <1>2, <2>1 DEF Missed
<1> QED
  BY <1>1, <1>2

\* A password that was right leaves a request that knows no more than the row.
LEMMA PasswordRightSound ==
  ASSUME NEW q, Sound(q), q.u \in Users, q.at \in {"grade", "jit"}, NEW a \in Account,
         a.accepted => users[q.u].accepted
  PROVE  Sound(PasswordRight(q, a))
<1> DEFINE half == [q.sess EXCEPT !.pending = q.u]
           c == [q EXCEPT !.at = "clear", !.seen = a]
           m == [q EXCEPT !.at = "store", !.sess = half]
<1>0. /\ q \in Request /\ q.sess \in Session /\ Consented(q.sess) /\ SeenKept(q) /\ Admitted(q)
  BY DEF Sound, Request
<1>1. half \in Session /\ half.who = q.sess.who /\ half.ok = q.sess.ok
  BY <1>0 DEF Session
<1> HIDE DEF half
<1>2. Consented(half)
  BY <1>0, <1>1 DEF Consented
<1>3. Sound(c)
  <2>1. /\ c \in Request /\ c.at = "clear" /\ c.u = q.u /\ c.sess = q.sess /\ c.seen = a
        /\ c.early = q.early /\ c.blind = q.blind
    BY <1>0 DEF Request, Stages
  <2> HIDE DEF c
  <2>2. SeenKept(c) /\ Admitted(c)
    BY <1>0, <2>1 DEF SeenKept, Admitted, Checked
  <2> QED
    BY <1>0, <2>1, <2>2, Quiet DEF Counting
<1>4. Sound(m)
  <2>1. m \in Request /\ m.at = "store" /\ m.u = q.u /\ m.sess = half /\ m.seen = q.seen
    BY <1>0, <1>1 DEF Request, Stages
  <2> HIDE DEF m
  <2>2. SeenKept(m) /\ Admitted(m)
    BY <1>0, <2>1 DEF SeenKept, Admitted, Checked
  <2> QED
    BY <1>2, <2>1, <2>2, Quiet DEF Counting
<1>5. Sound(Answer(q, q.sess)) /\ Sound(Answer(q, half))
  BY <1>0, <1>1, <1>2, AnswerSound
<1> QED
  BY <1>3, <1>4, <1>5 DEF PasswordRight, half, c, m

LEMMA GradeSound ==
  ASSUME SoundInv, NEW r \in Reqs, NEW right \in BOOLEAN, Grade(r, right)
  PROVE  SoundInv'
<1> DEFINE q == req[r]
<1>1. q \in Request /\ Sound(q) /\ q.u \in Users /\ q.at = "grade" /\ users[q.u] \in Account
  BY Own DEF Grade, Keyed, Stages
<1>2. Sound(Missed(q)) /\ Sound(PasswordRight(q, users[q.u]))
  BY <1>1, MissedSound, PasswordRightSound
<1>3. Sound([q EXCEPT !.at = "jit"])
  <2> DEFINE j == [q EXCEPT !.at = "jit"]
  <2>1. /\ j \in Request /\ j.at = "jit" /\ j.u = q.u /\ j.sess = q.sess /\ j.seen = q.seen
        /\ j.early = q.early /\ j.blind = q.blind
    BY <1>1 DEF Request, Stages
  <2> HIDE DEF j
  <2>2. SeenKept(j) /\ Admitted(j) /\ Consented(j.sess)
    BY <1>1, <2>1 DEF Sound, SeenKept, Admitted, Checked
  <2>3. Sound(j)
    BY <1>1, <2>1, <2>2, Quiet DEF Counting
  <2> QED
    BY <2>3 DEF j
<1>4. PICK n : Sound(n) /\ req' = [req EXCEPT ![r] = n]
  BY <1>2, <1>3 DEF Grade, Set
<1> QED
  BY <1>1, <1>4, Own, PlainMove DEF Grade, login

LEMMA JitSound ==
  ASSUME SoundInv, NEW r \in Reqs, Jit(r)
  PROVE  SoundInv'
<1> DEFINE q == req[r]
           now == IF users[q.u].is = "unborn" THEN Born(LdapRole, FALSE, TRUE) ELSE users[q.u]
<1>1. q \in Request /\ Sound(q) /\ q.u \in Users /\ q.at = "jit" /\ users[q.u] \in Account
  BY Own DEF Jit, Keyed, Stages
<1>2. now \in Account /\ (now.accepted => users[q.u].accepted) /\ (now.is = "unborn" => FALSE)
      /\ (users[q.u].accepted => now.accepted)
  <2>1. Born(LdapRole, FALSE, TRUE) \in Account /\ ~Born(LdapRole, FALSE, TRUE).accepted
        /\ Born(LdapRole, FALSE, TRUE).is = "here"
    BY AccessAssumption, Shapes DEF Born, Account, Unborn
  <2>2. users[q.u].is = "unborn" => ~users[q.u].accepted
    BY <1>1 DEF SoundInv, UnbornEmpty, Unborn
  <2> QED
    BY <1>1, <2>1, <2>2
<1> HIDE DEF now
<1>3. Sound(Missed(q)) /\ Sound(PasswordRight(q, now))
  BY <1>1, <1>2, MissedSound, PasswordRightSound
<1>4. PICK n : Sound(n) /\ req' = [req EXCEPT ![r] = n]
  BY <1>3 DEF Jit, Set, now
<1>5. users' = [users EXCEPT ![q.u] = now] /\ UNCHANGED <<tokens, rows, allow, cookie, login>>
  BY DEF Jit, now
<1>6. users \in [Users -> Account] /\ users' \in [Users -> Account]
  BY <1>1, <1>2, <1>5, Own
<1>7. Grown
  BY <1>1, <1>2, <1>5, <1>6 DEF Grown
<1>8. UnbornEmpty'
  BY <1>1, <1>2, <1>5, <1>6 DEF SoundInv, UnbornEmpty
<1>9. RowsEarned'
  BY <1>5, <1>7 DEF SoundInv, RowsEarned, Earned, Grown
<1>10. \A b \in Browsers : Consented(cookie[b])'
  BY <1>5, <1>7 DEF SoundInv, Consented, Grown
<1>11. WindowHasEnd'
  BY <1>1, <1>4, <1>5, Own DEF SoundInv, WindowHasEnd, login
<1>12. Unlocked /\ Sound(n)'
  BY <1>4, <1>5, <1>7, SoundKept DEF Unlocked, login
<1> QED
  BY <1>4, <1>5, <1>6, <1>7, <1>8, <1>9, <1>10, <1>11, <1>12, Own, Together DEF login, SoundInv, TypeOK

LEMMA MfaArrivesSound ==
  ASSUME SoundInv, NEW r \in Reqs, NEW b \in Browsers, NEW heard \in BOOLEAN, MfaArrives(r, b, heard)
  PROVE  SoundInv'
<1> DEFINE u == cookie[b].pending
           new == Arrive(b, "mfa", "code")
           q == [new EXCEPT !.u = u, !.seen = users[u], !.blind = guard[u].lock /\ ~heard]
<1>0. /\ "mfa" \in Pages /\ "code" \in Stages /\ req[r].at # "expire" /\ u \in Users
      /\ UNCHANGED <<tables, cookie, login>>
  BY OfCookie DEF Pages, SignPages, Stages, MfaArrives
<1>1. /\ new \in Request /\ new.at = "code" /\ new.sess = cookie[b]
      /\ cookie[b] \in Session /\ Consented(cookie[b])
  BY <1>0, OfCookie, ArriveShape
<1>2. CASE Set(r, Answer(new, Popped(new.sess)))
  <2>1. Popped(new.sess) \in Session /\ Consented(Popped(new.sess))
    BY <1>1 DEF Popped, Session, Consented
  <2> HIDE DEF new
  <2>2. new = Arrive(b, "mfa", "code")
    BY DEF new
  <2> QED
    BY <1>0, <1>2, <2>1, <2>2, Turned
<1>3. CASE ~Locked(u, heard) /\ req' = [req EXCEPT ![r] = q]
  <2>1. (guard[u].lock /\ ~heard) \in BOOLEAN /\ users[u] \in Account
    BY <1>0, Own
  <2> HIDE DEF new, u
  <2>2. /\ q \in Request /\ q.at = "code" /\ q.u = u /\ q.sess = cookie[b] /\ q.seen = users[u]
        /\ q.blind = (guard[u].lock /\ ~heard)
    BY <1>0, <1>1, <2>1 DEF Request
  <2> HIDE DEF q
  <2>3. SeenKept(q)
    BY <2>2 DEF SeenKept
  <2>4. Admitted(q)
    BY <1>0, <1>3, <2>2, PastTheCheck DEF Admitted, Checked
  <2>5. Sound(q)
    BY <1>0, <1>1, <2>2, <2>3, <2>4, Quiet DEF Counting
  <2>6. otp \in SUBSET Users
    BY Own
  <2> QED
    BY <1>0, <1>3, <2>5, <2>6, PlainMove DEF login
<1> QED
  BY <1>2, <1>3 DEF MfaArrives, Set

\* Later stages of the same sign-in.
LEMMA LaterSound ==
  ASSUME NEW q, Sound(q), q.at \in {"code", "use"}, NEW at \in {"use", "clear"}
  PROVE  Sound([q EXCEPT !.at = at])
<1> DEFINE n == [q EXCEPT !.at = at]
<1>1. q \in Request /\ q.u \in Users /\ Consented(q.sess) /\ SeenKept(q) /\ Admitted(q)
  BY DEF Sound, Keyed, Stages
<1>2. /\ n \in Request /\ n.at = at /\ n.u = q.u /\ n.sess = q.sess /\ n.seen = q.seen
      /\ n.early = q.early /\ n.blind = q.blind
  BY <1>1 DEF Request, Stages
<1> HIDE DEF n
<1>3. SeenKept(n) /\ Admitted(n)
  BY <1>1, <1>2 DEF SeenKept, Admitted, Checked
<1>4. Sound(n)
  BY <1>1, <1>2, <1>3, Quiet DEF Counting
<1> QED
  BY <1>4 DEF n

LEMMA CodeSound ==
  ASSUME SoundInv, NEW r \in Reqs, NEW right \in BOOLEAN, Code(r, right)
  PROVE  SoundInv'
<1> DEFINE q == req[r]
<1>1. q \in Request /\ Sound(q) /\ q.u \in Users /\ q.at = "code"
  BY Own DEF Code, Keyed, Stages
<1>2. Sound(Missed(q)) /\ Sound([q EXCEPT !.at = "use"]) /\ Sound([q EXCEPT !.at = "clear"])
  BY <1>1, MissedSound, LaterSound
<1>3. PICK n : Sound(n) /\ req' = [req EXCEPT ![r] = n]
  BY <1>2 DEF Code, Set
<1> QED
  BY <1>1, <1>3, Own, PlainMove DEF Code, login

LEMMA UseSound ==
  ASSUME SoundInv, NEW r \in Reqs, Use(r)
  PROVE  SoundInv'
<1>1. Sound(req[r]) /\ req[r].at = "use"
  BY Own DEF Use
<1>2. Sound([req[r] EXCEPT !.at = "clear"])
  BY <1>1, LaterSound
<1>3. req' = [req EXCEPT ![r] = [req[r] EXCEPT !.at = "clear"]]
  BY DEF Use, Goto, Set
<1>4. otp' \in SUBSET Users
  BY Own DEF Use
<1> QED
  BY <1>1, <1>2, <1>3, <1>4, PlainMove DEF Use

\* The session of a sign-in that went through says what the row said.
LEMMA OpenedSound ==
  ASSUME NEW q, Sound(q), q.at = "clear"
  PROVE  Sound(Opened(q))
<1> DEFINE s == SignedIn(q.sess, q.u, q.seen.accepted)
<1>1. /\ q \in Request /\ q.u \in Users /\ q.sess \in Session /\ SeenKept(q)
      /\ q.seen.accepted \in BOOLEAN
  BY DEF Sound, Keyed, Stages, Request, Account
<1>2. s \in Session /\ s.who = q.u /\ s.ok = q.seen.accepted
  BY <1>1 DEF SignedIn, Session
<1> HIDE DEF s
<1>3. Popped(s) \in Session /\ Popped(s).who = s.who /\ Popped(s).ok = s.ok
  BY <1>2 DEF Popped, Session
<1>4. Consented(s) /\ Consented(Popped(s))
  BY <1>1, <1>2, <1>3 DEF Consented, SeenKept
<1>5. Sound(Answer(q, s)) /\ Sound(Answer(q, Popped(s)))
  BY <1>1, <1>2, <1>3, <1>4, AnswerSound
<1> QED
  BY <1>5 DEF Opened, s

\* The row of a name in Redis, changed.
Counter == [fails : Nat, ttl : BOOLEAN, lock : BOOLEAN, slip : BOOLEAN]

\* A step that changes the counter of one name, and leaves it with an end or with a cause.
LEMMA Recounted ==
  ASSUME SoundInv, NEW r \in Reqs, NEW q, Sound(q), NEW u \in Users, NEW c \in Counter,
         req' = [req EXCEPT ![r] = q], guard' = [guard EXCEPT ![u] = c],
         c.lock => guard[u].lock,
         c.fails > 0 /\ ~c.ttl => c.slip \/ (q.at = "expire" /\ q.u = u)
                                  \/ (guard[u].fails > 0 /\ ~guard[u].ttl /\ c.slip = guard[u].slip
                                      /\ req[r].at # "expire"),
         req[r].at = "expire" => req[r].u = u,
         UNCHANGED <<tables, cookie>>, otp' \in SUBSET Users
  PROVE  SoundInv'
<1>1. guard \in [Users -> Counter] /\ req \in [Reqs -> Request]
  BY Own DEF Counter
<1>2. guard' \in [Users -> Counter] /\ Unlocked
  BY <1>1 DEF Unlocked
<1>3. WindowHasEnd'
  <2> SUFFICES ASSUME NEW v \in Users, guard'[v].fails > 0, ~guard'[v].ttl, ~guard'[v].slip
               PROVE  \E p \in Reqs : req'[p].at = "expire" /\ req'[p].u = v
    BY DEF WindowHasEnd
  <2>1. CASE v = u /\ q.at = "expire" /\ q.u = u
    BY <1>1, <2>1
  <2>2. CASE v = u /\ ~(q.at = "expire" /\ q.u = u)
    <3>1. guard'[u] = c
      BY <1>1
    <3>2. guard[u].fails > 0 /\ ~guard[u].ttl /\ ~guard[u].slip /\ req[r].at # "expire"
      BY <2>2, <3>1
    <3>3. PICK p \in Reqs : req[p].at = "expire" /\ req[p].u = u
      BY <3>2 DEF SoundInv, WindowHasEnd
    <3> QED
      BY <1>1, <2>2, <3>2, <3>3
  <2>3. CASE v # u
    <3>1. guard'[v] = guard[v]
      BY <1>1, <2>3
    <3>2. PICK p \in Reqs : req[p].at = "expire" /\ req[p].u = v
      BY <3>1 DEF SoundInv, WindowHasEnd
    <3>3. p # r
      BY <2>3, <3>2
    <3> QED
      BY <1>1, <3>2, <3>3
  <2> QED
    BY <2>1, <2>2, <2>3
<1> QED
  BY <1>2, <1>3, Moves DEF Counter

\* The first failure opens the window and goes on to date it.
LEMMA IncrSound ==
  ASSUME SoundInv, NEW r \in Reqs, Incr(r)
  PROVE  SoundInv'
<1> DEFINE q == req[r]
           u == q.u
           n == guard[u].fails + 1
           c == [guard[u] EXCEPT !.fails = n]
<1>1. /\ q \in Request /\ Sound(q) /\ u \in Users /\ q.at = "incr" /\ q.sess \in Session
      /\ Consented(q.sess) /\ SeenKept(q) /\ GuardOn
  BY Own DEF Incr, Keyed, Stages, Sound, Counting
<1>2. guard \in [Users -> Counter] /\ guard[u] \in Counter
  BY <1>1, Own DEF Counter
<1>3. c \in Counter /\ c.fails = n /\ c.ttl = guard[u].ttl /\ c.lock = guard[u].lock /\ c.slip = guard[u].slip
  BY <1>2 DEF Counter
<1>4. guard' = [guard EXCEPT ![u] = c] /\ UNCHANGED <<tables, cookie, otp>>
  BY <1>2 DEF Incr
<1>5. ASSUME NEW at \in {"expire", "lock"}
      PROVE  /\ Sound([q EXCEPT !.at = at])
             /\ [q EXCEPT !.at = at].at = at /\ [q EXCEPT !.at = at].u = u
  <2> DEFINE m == [q EXCEPT !.at = at]
  <2>1. m \in Request /\ m.at = at /\ m.u = u /\ m.sess = q.sess /\ m.seen = q.seen
    BY <1>1 DEF Request, Stages
  <2> HIDE DEF m
  <2>2. SeenKept(m) /\ Admitted(m)
    BY <1>1, <2>1 DEF SeenKept, Admitted, Checked
  <2>3. Sound(m)
    BY <1>1, <2>1, <2>2, Quiet
  <2> QED
    BY <2>1, <2>3 DEF m
<1>6. Sound(Answer(q, q.sess))
  BY <1>1, AnswerSound
<1>7. CASE n = 1
  <2>1. req' = [req EXCEPT ![r] = [q EXCEPT !.at = "expire"]]
    BY <1>7 DEF Incr, Goto, Set
  <2>2. Sound([q EXCEPT !.at = "expire"]) /\ [q EXCEPT !.at = "expire"].at = "expire"
        /\ [q EXCEPT !.at = "expire"].u = u
    BY <1>5
  <2> HIDE DEF n, c, u, q
  <2>3. otp' \in SUBSET Users /\ req[r].at # "expire"
    BY <1>1, <1>4, Own DEF q
  <2> QED
    BY <1>1, <1>3, <1>4, <2>1, <2>2, <2>3, Recounted
<1>8. CASE n # 1
  <2>1. PICK m : Sound(m) /\ req' = [req EXCEPT ![r] = m]
    BY <1>5, <1>6, <1>8 DEF Incr, Goto, Set, AfterCount
  <2>2. guard[u].fails > 0
    BY <1>2, <1>8 DEF Counter
  <2> HIDE DEF n, c, u, q
  <2>3. otp' \in SUBSET Users /\ req[r].at # "expire"
    BY <1>1, <1>4, Own DEF q
  <2> QED
    BY <1>1, <1>3, <1>4, <2>1, <2>2, <2>3, Recounted
<1> QED
  BY <1>7, <1>8

LEMMA ExpireSound ==
  ASSUME SoundInv, NEW r \in Reqs, Expire(r)
  PROVE  SoundInv'
<1> DEFINE q == req[r]
           u == q.u
           c == IF guard[u].fails > 0 THEN [guard[u] EXCEPT !.ttl = TRUE, !.slip = FALSE] ELSE guard[u]
<1>1. /\ q \in Request /\ Sound(q) /\ u \in Users /\ q.at = "expire" /\ q.sess \in Session
      /\ Consented(q.sess) /\ SeenKept(q) /\ GuardOn
  BY Own DEF Expire, Keyed, Stages, Sound, Counting
<1>2. guard \in [Users -> Counter] /\ guard[u] \in Counter
  BY <1>1, Own DEF Counter
<1>3. c \in Counter /\ c.lock = guard[u].lock /\ (c.fails > 0 => c.ttl)
  BY <1>2 DEF Counter
<1>4. guard' = [guard EXCEPT ![u] = c] /\ UNCHANGED <<tables, cookie, otp>>
  BY <1>2 DEF Expire
<1>5. Sound([q EXCEPT !.at = "lock"])
  <2> DEFINE m == [q EXCEPT !.at = "lock"]
  <2>1. m \in Request /\ m.at = "lock" /\ m.u = u /\ m.sess = q.sess /\ m.seen = q.seen
    BY <1>1 DEF Request, Stages
  <2> HIDE DEF m
  <2>2. SeenKept(m) /\ Admitted(m)
    BY <1>1, <2>1 DEF SeenKept, Admitted, Checked
  <2>3. Sound(m)
    BY <1>1, <2>1, <2>2, Quiet
  <2> QED
    BY <2>3 DEF m
<1>6. Sound(Answer(q, q.sess))
  BY <1>1, AnswerSound
<1>7. PICK m : Sound(m) /\ req' = [req EXCEPT ![r] = m]
  BY <1>5, <1>6 DEF Expire, Goto, Set, AfterCount
<1> HIDE DEF c, u
<1>8. otp' \in SUBSET Users
  BY <1>4, Own
<1> QED
  BY <1>1, <1>3, <1>4, <1>7, <1>8, Recounted DEF u

\* The lock is the one step that makes copies of others worth less: it marks them.
LEMMA SetLockSound ==
  ASSUME SoundInv, NEW r \in Reqs, SetLock(r)
  PROVE  SoundInv'
<1> DEFINE u == req[r].u
<1>1. u \in Users /\ req[r].at = "lock" /\ GuardOn
  BY Own DEF SetLock, Keyed, Stages, Sound, Counting
<1>2. /\ guard' = [guard EXCEPT ![u].lock = TRUE] /\ UNCHANGED <<users, tokens, rows, allow, cookie, otp>>
      /\ req' = [q \in Reqs |-> IF q = r THEN [req[q] EXCEPT !.at = "drop"]
                                ELSE IF Checked(req[q], u) THEN [req[q] EXCEPT !.early = TRUE]
                                ELSE req[q]]
  BY DEF SetLock, tables
<1>3. guard \in [Users -> Counter] /\ guard' \in [Users -> Counter]
  <2>1. guard \in [Users -> Counter]
    BY Own DEF Counter
  <2> QED
    BY <1>1, <1>2, <2>1 DEF Counter
<1>4. \A v \in Users : guard'[v].fails = guard[v].fails /\ guard'[v].ttl = guard[v].ttl
                       /\ guard'[v].slip = guard[v].slip /\ (v # u => guard'[v].lock = guard[v].lock)
  BY <1>1, <1>2, <1>3 DEF Counter
<1>5. ASSUME NEW p \in Reqs
      PROVE  Sound(req[p])' /\ req'[p] \in Request /\ (req[p].at = "expire" => req'[p].at = "expire")
             /\ req'[p].u = req[p].u
  <2>1. Sound(req[p]) /\ req[p] \in Request
    BY Own
  <2>2. /\ req'[p] \in Request /\ req'[p].u = req[p].u /\ req'[p].seen = req[p].seen
        /\ req'[p].sess = req[p].sess /\ req'[p].page = req[p].page /\ req'[p].me = req[p].me
        /\ req'[p].as = req[p].as /\ req'[p].job = req[p].job /\ req'[p].blind = req[p].blind
        /\ req'[p].at = (IF p = r THEN "drop" ELSE req[p].at)
        /\ (p # r /\ Checked(req[p], u) => req'[p].early)
        /\ (p = r \/ ~Checked(req[p], u) => req'[p].early = req[p].early)
    BY <1>2, <2>1 DEF Request, Stages
  <2>3. Consented(req[p].sess)' /\ SeenKept(req[p])'
    BY <1>2, <2>1, <2>2 DEF Sound, Consented, SeenKept
  <2>4. Acting(req[p])'
    BY <2>1, <2>2 DEF Sound, Acting
  <2>5. Ordered(req[p])'
    BY <1>2, <2>1, <2>2 DEF Sound, Ordered, Earned
  <2>6. Admitted(req[p])'
    BY <1>1, <1>4, <2>1, <2>2 DEF Sound, Admitted, Checked
  <2>7. (req'[p].at \in Keyed => req'[p].u \in Users) /\ (~GuardOn => req'[p].at \notin Counting)
    BY <1>1, <2>1, <2>2 DEF Sound
  <2> QED
    BY <1>1, <2>2, <2>3, <2>4, <2>5, <2>6, <2>7 DEF Sound
<1>6. TypeOK'
  BY <1>2, <1>3, <1>5 DEF SoundInv, TypeOK, Counter
<1>7. WindowHasEnd'
  BY <1>4, <1>5 DEF SoundInv, WindowHasEnd
<1>8. UnbornEmpty' /\ RowsEarned' /\ GuardOff' /\ \A b \in Browsers : Consented(cookie[b])'
  BY <1>1, <1>2 DEF SoundInv, UnbornEmpty, RowsEarned, Earned, GuardOff, Consented
<1> QED
  BY <1>5, <1>6, <1>7, <1>8 DEF SoundInv

LEMMA DropSound ==
  ASSUME SoundInv, NEW r \in Reqs, Drop(r)
  PROVE  SoundInv'
<1> DEFINE q == req[r]
           u == q.u
           c == [guard[u] EXCEPT !.fails = 0, !.ttl = FALSE, !.slip = FALSE]
<1>1. /\ q \in Request /\ u \in Users /\ q.at = "drop" /\ q.sess \in Session /\ Consented(q.sess)
  BY Own DEF Drop, Keyed, Stages
<1>2. guard \in [Users -> Counter] /\ guard[u] \in Counter
  BY <1>1, Own DEF Counter
<1>3. c \in Counter /\ c.lock = guard[u].lock /\ c.fails = 0
  BY <1>2 DEF Counter
<1>4. guard' = [guard EXCEPT ![u] = c] /\ UNCHANGED <<tables, cookie, otp>>
  BY <1>2 DEF Drop
<1>5. Popped(q.sess) \in Session /\ Consented(Popped(q.sess))
  BY <1>1 DEF Popped, Session, Consented
<1>6. Sound(Answer(q, q.sess)) /\ Sound(Answer(q, Popped(q.sess)))
  BY <1>1, <1>5, AnswerSound
<1>7. PICK m : Sound(m) /\ req' = [req EXCEPT ![r] = m]
  BY <1>6 DEF Drop, Set
<1> HIDE DEF c, u
<1>8. otp' \in SUBSET Users /\ ~(c.fails > 0)
  BY <1>3, <1>4, Own
<1> QED
  BY <1>1, <1>3, <1>4, <1>7, <1>8, Recounted DEF u

LEMMA StoreSound ==
  ASSUME SoundInv, NEW r \in Reqs, NEW mails \in BOOLEAN, Store(r, mails)
  PROVE  SoundInv'
<1>1. /\ req[r] \in Request /\ req[r].u \in Users /\ req[r].at = "store" /\ req[r].sess \in Session
      /\ Consented(req[r].sess) /\ otp \in SUBSET Users
  BY Own DEF Store, Keyed, Stages
<1>2. Set(r, Answer(req[r], req[r].sess)) /\ UNCHANGED <<tables, cookie, guard>>
  BY DEF Store, Goto
<1>3. otp' \in SUBSET Users
  BY <1>1 DEF Store
<1> QED
  BY <1>1, <1>2, <1>3, Answers

LEMMA ClearSound ==
  ASSUME SoundInv, NEW r \in Reqs, Clear(r)
  PROVE  SoundInv'
<1>1. Sound(req[r]) /\ req[r].u \in Users /\ req[r].at = "clear" /\ otp' \in SUBSET Users
  BY Own DEF Clear, Keyed, Stages
<1>2. Sound(Opened(req[r]))
  BY <1>1, OpenedSound
<1>3. NoTries \in Counter /\ ~NoTries.lock /\ ~(NoTries.fails > 0)
  BY DEF NoTries, Counter
<1>4. /\ req' = [req EXCEPT ![r] = Opened(req[r])]
      /\ guard' = [guard EXCEPT ![req[r].u] = NoTries] /\ UNCHANGED <<tables, cookie>>
  BY DEF Clear, Set
<1> QED
  BY <1>1, <1>2, <1>3, <1>4, Recounted

\* A request that fails or is cut off where it owed a counter its end leaves the cause behind.
LEMMA LeftUndated ==
  ASSUME SoundInv, NEW r \in Reqs, NEW q, Sound(q), req' = [req EXCEPT ![r] = q],
         guard' = IF req[r].at = "expire" THEN Unset(req[r].u) ELSE guard,
         UNCHANGED <<tables, cookie, otp>>
  PROVE  SoundInv'
<1>1. otp' \in SUBSET Users
  BY Own
<1>2. CASE req[r].at # "expire"
  BY <1>1, <1>2, PlainMove
<1>3. CASE req[r].at = "expire"
  <2> DEFINE u == req[r].u
             c == IF guard[u].fails > 0 /\ ~guard[u].ttl THEN [guard[u] EXCEPT !.slip = TRUE] ELSE guard[u]
  <2>1. u \in Users
    BY <1>3, Own DEF Keyed, Stages
  <2>2. guard \in [Users -> Counter] /\ guard[u] \in Counter
    BY <2>1, Own DEF Counter
  <2>3. c \in Counter /\ c.lock = guard[u].lock /\ (c.fails > 0 /\ ~c.ttl => c.slip)
    BY <2>2 DEF Counter
  <2>4. guard' = [guard EXCEPT ![u] = c]
    BY <1>3, <2>2 DEF Unset
  <2> HIDE DEF c, u
  <2> QED
    BY <1>1, <2>1, <2>3, <2>4, Recounted DEF u
<1> QED
  BY <1>2, <1>3

LEMMA RedisFailsSound ==
  ASSUME SoundInv, NEW r \in Reqs, RedisFails(r)
  PROVE  SoundInv'
<1> DEFINE q == req[r]
<1>1. q \in Request /\ Sound(q) /\ q.sess \in Session /\ Consented(q.sess)
  BY Own
<1>2. q.at = "use" => Sound([q EXCEPT !.at = "clear"])
  BY <1>1, LaterSound
<1>3. q.at = "clear" => Sound(Opened(q))
  BY <1>1, OpenedSound
<1>4. Sound(Answer(q, q.sess))
  BY <1>1, AnswerSound
<1>5. PICK m : Sound(m) /\ req' = [req EXCEPT ![r] = m]
  BY <1>2, <1>3, <1>4 DEF RedisFails, Set
<1> QED
  BY <1>5, LeftUndated DEF RedisFails

LEMMA AbortSound ==
  ASSUME SoundInv, NEW r \in Reqs, Abort(r)
  PROVE  SoundInv'
BY IdleSound, LeftUndated DEF Abort, Set

\* No request moves: a token is made or ends, or time passes in Redis.
LEMMA Stands ==
  ASSUME SoundInv, UNCHANGED <<req, users, rows, allow, cookie>>, Unlocked, WindowHasEnd',
         tokens' \in SUBSET Users, otp' \in SUBSET Users, guard' \in [Users -> Counter]
  PROVE  SoundInv'
<1>1. ASSUME NEW r \in Reqs PROVE Sound(req[r])'
  BY Own DEF Sound, Consented, SeenKept, Acting, Ordered, Earned, Admitted, Checked, Unlocked
<1>2. TypeOK' /\ GuardOff' /\ UnbornEmpty' /\ RowsEarned' /\ \A b \in Browsers : Consented(cookie[b])'
  BY DEF SoundInv, TypeOK, GuardOff, UnbornEmpty, RowsEarned, Earned, Consented, Unlocked, Counter
<1> QED
  BY <1>1, <1>2 DEF SoundInv

LEMMA ExpirySound ==
  ASSUME SoundInv, Expiry
  PROVE  SoundInv'
<1>1. PICK u \in Users : CountEnds(u) \/ LockEnds(u) \/ OtpEnds(u)
  BY DEF Expiry
<1>2. guard \in [Users -> Counter] /\ tokens \in SUBSET Users /\ otp \in SUBSET Users
  BY DEF SoundInv, TypeOK, Counter
<1>3. CASE CountEnds(u)
  <2>1. guard' \in [Users -> Counter] /\ Unlocked
    BY <1>2, <1>3 DEF CountEnds, Counter, Unlocked
  <2>2. WindowHasEnd'
    BY <1>2, <1>3 DEF CountEnds, SoundInv, WindowHasEnd, Counter
  <2> QED
    BY <1>2, <1>3, <2>1, <2>2, Stands DEF CountEnds, tables
<1>4. CASE LockEnds(u)
  <2>1. guard' \in [Users -> Counter] /\ Unlocked
    BY <1>2, <1>4 DEF LockEnds, Counter, Unlocked
  <2>2. WindowHasEnd'
    BY <1>2, <1>4 DEF LockEnds, SoundInv, WindowHasEnd, Counter
  <2> QED
    BY <1>2, <1>4, <2>1, <2>2, Stands DEF LockEnds, tables
<1>5. CASE OtpEnds(u)
  <2>1. guard' \in [Users -> Counter] /\ Unlocked /\ WindowHasEnd' /\ otp' \in SUBSET Users
    BY <1>2, <1>5 DEF OtpEnds, Unlocked, SoundInv, WindowHasEnd
  <2> QED
    BY <1>2, <1>5, <2>1, Stands DEF OtpEnds, tables
<1> QED
  BY <1>1, <1>3, <1>4, <1>5

LEMMA TokenSound ==
  ASSUME SoundInv, TokenStep
  PROVE  SoundInv'
<1>1. UNCHANGED <<req, users, rows, allow, cookie, guard, otp>> /\ tokens' \in SUBSET Users
  <2>1. tokens \in SUBSET Users
    BY DEF SoundInv, TypeOK
  <2> QED
    BY <2>1, OfCookie DEF TokenStep, TokenMade, TokenRevoked, TokenEnds, ApiUser, login
<1>2. guard' \in [Users -> Counter] /\ otp' \in SUBSET Users /\ Unlocked /\ WindowHasEnd'
  BY <1>1 DEF SoundInv, TypeOK, Counter, Unlocked, WindowHasEnd
<1> QED
  BY <1>1, <1>2, Stands

-----------------------------------------------------------------------------
(***************************************************************************)
(* Pages of a browser.                                                     *)
(***************************************************************************)
LEMMA ResendSound ==
  ASSUME SoundInv, NEW r \in Reqs, NEW b \in Browsers, Resend(r, b)
  PROVE  SoundInv'
<1> DEFINE u == cookie[b].pending
           new == Arrive(b, "resend", "store")
           q == [new EXCEPT !.u = u]
<1>0. /\ "resend" \in Pages /\ "store" \in Stages /\ req[r].at # "expire" /\ u \in Users
      /\ UNCHANGED <<tables, cookie, login>>
  BY OfCookie DEF Pages, SignPages, Stages, Resend
<1>1. /\ new \in Request /\ new.at = "store" /\ new.sess = cookie[b] /\ new.seen = Unborn
      /\ cookie[b] \in Session /\ Consented(cookie[b])
  BY <1>0, OfCookie, ArriveShape
<1>2. CASE Set(r, Answer(new, new.sess))
  <2>1. Set(r, Answer(Arrive(b, "resend", "store"), cookie[b]))
    BY <1>1, <1>2
  <2> QED
    BY <1>0, <1>1, <2>1, Turned
<1>3. CASE req' = [req EXCEPT ![r] = q]
  <2> HIDE DEF new, u
  <2>1. /\ q \in Request /\ q.at = "store" /\ q.u = u /\ q.sess = cookie[b] /\ q.seen = Unborn
    BY <1>0, <1>1 DEF Request
  <2> HIDE DEF q
  <2>2. SeenKept(q) /\ Admitted(q)
    BY <2>1 DEF SeenKept, Admitted, Checked, Unborn
  <2>3. Sound(q)
    BY <1>0, <1>1, <2>1, <2>2, Quiet DEF Counting
  <2>4. otp \in SUBSET Users
    BY Own
  <2> QED
    BY <1>0, <1>3, <2>3, <2>4, PlainMove DEF login
<1> QED
  BY <1>2, <1>3 DEF Resend, Set

LEMMA LogoutSound ==
  ASSUME SoundInv, NEW r \in Reqs, NEW b \in Browsers, Logout(r, b)
  PROVE  SoundInv'
<1>1. "logout" \in Pages /\ "reply" \in Stages
  BY DEF Pages, SignPages, Stages
<1>2. Empty \in Session /\ Consented(Empty)
  BY Shapes DEF Empty, Consented
<1> QED
  BY <1>1, <1>2, Turned DEF Logout

LEMMA ViewSound ==
  ASSUME SoundInv, NEW r \in Reqs, NEW b \in Browsers, NEW timedOut \in BOOLEAN, View(r, b, timedOut)
  PROVE  SoundInv'
<1>1. "view" \in Pages /\ "reply" \in Stages
  BY DEF Pages, SignPages, Stages
<1>2. Empty \in Session /\ Consented(Empty) /\ cookie[b] \in Session /\ Consented(cookie[b])
  BY Shapes, OfCookie DEF Empty, Consented
<1>3. PICK s \in Session : Consented(s) /\ Set(r, Answer(Arrive(b, "view", "reply"), s))
  BY <1>2 DEF View
<1> QED
  BY <1>1, <1>3, Turned DEF View

LEMMA RefreshSound ==
  ASSUME SoundInv, NEW r \in Reqs, NEW b \in Browsers, Refresh(r, b)
  PROVE  SoundInv'
<1> DEFINE s == [cookie[b] EXCEPT !.ok = TRUE]
<1>1. "view" \in Pages /\ "reply" \in Stages
  BY DEF Pages, SignPages, Stages
<1>2. cookie[b] \in Session /\ cookie[b].who \in Users /\ users[cookie[b].who].accepted
  BY OfCookie DEF Refresh
<1>3. s \in Session /\ s.who = cookie[b].who
  BY <1>2 DEF Session
<1>4. Set(r, Answer(Arrive(b, "view", "reply"), s)) /\ UNCHANGED <<tables, cookie, login>>
      /\ req[r].at # "expire"
  BY DEF Refresh
<1> HIDE DEF s
<1>5. Consented(s)
  BY <1>2, <1>3 DEF Consented
<1> QED
  BY <1>1, <1>3, <1>4, <1>5, Turned

LEMMA AcceptArrivesSound ==
  ASSUME SoundInv, NEW r \in Reqs, NEW b \in Browsers, AcceptArrives(r, b)
  PROVE  SoundInv'
<1> DEFINE me == cookie[b].who
           new == Arrive(b, "accept", "act")
           q == [new EXCEPT !.me = me, !.u = me, !.seen = users[me]]
<1>0. /\ "accept" \in Pages /\ "act" \in Stages /\ req[r].at # "expire" /\ me \in Users /\ Here(me)
      /\ UNCHANGED <<tables, cookie, login>> /\ req' = [req EXCEPT ![r] = q]
      /\ users[me] \in Account
  BY OfCookie, Own DEF Pages, SignPages, Stages, AcceptArrives, Set
<1>1. /\ new \in Request /\ new.at = "act" /\ new.page = "accept" /\ new.sess = cookie[b]
      /\ cookie[b] \in Session /\ Consented(cookie[b])
  BY <1>0, OfCookie, ArriveShape
<1> HIDE DEF new
<1>2. /\ q \in Request /\ q.at = "act" /\ q.page = "accept" /\ q.u = me /\ q.me = me
      /\ q.sess = cookie[b] /\ q.seen = users[me]
  BY <1>0, <1>1 DEF Request
<1> HIDE DEF q
<1>3. Acting(q)
  BY <1>0, <1>2 DEF Acting, SelfBarred, Here
<1>4. Sound(q)
  BY <1>0, <1>1, <1>2, <1>3 DEF Sound, Counting, SeenKept, Ordered, Admitted, Checked
<1>5. otp \in SUBSET Users
  BY Own
<1> QED
  BY <1>0, <1>4, <1>5, PlainMove DEF login

-----------------------------------------------------------------------------
(***************************************************************************)
(* The pages of an administrator.                                          *)
(***************************************************************************)
LEMMA AdminArrivesSound ==
  ASSUME SoundInv, NEW r \in Reqs, NEW b \in Browsers, NEW page \in AdminPages,
         NEW on \in Users, NEW role \in Roles, AdminArrives(r, b, page, on, role)
  PROVE  SoundInv'
<1> DEFINE me == cookie[b].who
           new == Arrive(b, page, "look")
           q == [new EXCEPT !.me = me, !.as = users[me].role, !.u = on, !.seen = users[on], !.arg = role]
<1>0. /\ page \in Pages /\ "look" \in Stages /\ req[r].at # "expire" /\ me \in Users /\ Here(me)
      /\ UNCHANGED <<tables, cookie, login>> /\ users[me] \in Account /\ users[on] \in Account
  BY OfCookie, Own DEF Pages, Stages, AdminArrives
<1>1. /\ new \in Request /\ new.at = "look" /\ new.page = page /\ new.sess = cookie[b]
      /\ cookie[b] \in Session /\ Consented(cookie[b])
  BY <1>0, OfCookie, ArriveShape
<1>2. CASE Set(r, Answer(new, new.sess))
  <2>1. Set(r, Answer(Arrive(b, page, "look"), cookie[b]))
    BY <1>1, <1>2
  <2> QED
    BY <1>0, <1>1, <2>1, Turned
<1>3. CASE MayAdminister(page, me, on) /\ req' = [req EXCEPT ![r] = q]
  <2>1. users[me].role \in Roles
    BY <1>0 DEF Account
  <2> HIDE DEF new
  <2>2. /\ q \in Request /\ q.at = "look" /\ q.page = page /\ q.u = on /\ q.me = me
        /\ q.sess = cookie[b] /\ q.seen = users[on]
    BY <1>0, <1>1, <2>1 DEF Request
  <2> HIDE DEF q
  <2>3. Acting(q)
    BY <1>0, <1>3, <2>2 DEF Acting, MayAdminister, Here
  <2>4. Sound(q)
    BY <1>1, <2>2, <2>3 DEF Sound, Counting, SeenKept, Ordered, Admitted, Checked
  <2>5. otp \in SUBSET Users
    BY Own
  <2> QED
    BY <1>0, <1>3, <2>4, <2>5, PlainMove DEF login
<1> QED
  BY <1>2, <1>3 DEF AdminArrives, Set

LEMMA SyncFiresSound ==
  ASSUME SoundInv, NEW r \in Reqs, NEW on \in Users, SyncFires(r, on)
  PROVE  SoundInv'
<1> DEFINE q == [Idle EXCEPT !.at = "look", !.page = "sync", !.u = on, !.arg = LdapRole]
<1>1. /\ q \in Request /\ q.at = "look" /\ q.page = "sync" /\ q.u = on /\ q.me = Nobody
      /\ q.sess = Empty /\ q.seen = Unborn
  BY Shapes, AccessAssumption DEF Idle, Request, Stages, Pages
<1>2. req' = [req EXCEPT ![r] = q] /\ req[r].at # "expire" /\ UNCHANGED <<tables, cookie, login>>
  BY DEF SyncFires, Set
<1> HIDE DEF q
<1>3. Acting(q)
  BY <1>1, AccessAssumption DEF Acting, SelfBarred
<1>4. Sound(q)
  BY <1>1, <1>3
     DEF Sound, Counting, Consented, Empty, SeenKept, Unborn, Ordered, Admitted, Checked
<1>5. otp \in SUBSET Users
  BY Own
<1> QED
  BY <1>2, <1>4, <1>5, PlainMove DEF login

\* A row that is as read now, or the own row of the acting user, is not ahead of the table.
LEMMA LookSound ==
  ASSUME SoundInv, NEW r \in Reqs, Look(r)
  PROVE  SoundInv'
<1> DEFINE q == req[r]
           row == IF q.u = q.me THEN q.seen ELSE users[q.u]
<1>1. /\ q \in Request /\ Sound(q) /\ q.u \in Users /\ q.at = "look" /\ users[q.u] \in Account
      /\ q.seen \in Account /\ q.sess \in Session /\ Consented(q.sess) /\ otp \in SUBSET Users
      /\ UNCHANGED <<tables, cookie, login>>
  BY Own DEF Look, Keyed, Stages
<1>2. row \in Account /\ (row.accepted => users[q.u].accepted) /\ row.is \in {"unborn", "here", "gone"}
      /\ (q.u = q.me => row = q.seen)
  BY <1>1 DEF Sound, SeenKept, Account
<1>3. CASE Set(r, Answer(q, q.sess))
  BY <1>1, <1>3, Answers DEF login
<1>4. ASSUME NEW at \in {"again", "act"}, req' = [req EXCEPT ![r] = [q EXCEPT !.at = at, !.seen = row]],
             at = "again" => q.page \in Bulk /\ row.is # "here",
             at = "act" => \/ row.is = "here" /\ q.page # "create"
                           \/ row.is = "unborn" /\ q.page \in Births
      PROVE  SoundInv'
  <2> DEFINE n == [q EXCEPT !.at = at, !.seen = row]
  <2> HIDE DEF row
  <2>1. /\ n \in Request /\ n.at = at /\ n.seen = row /\ n.u = q.u /\ n.me = q.me /\ n.page = q.page
        /\ n.sess = q.sess
    BY <1>1, <1>2 DEF Request, Stages
  <2>2. req' = [req EXCEPT ![r] = n]
    BY <1>4
  <2> HIDE DEF n
  <2>3. Acting(n)
    BY <1>1, <1>2, <1>4, <2>1 DEF Sound, Acting
  <2>4. Sound(n)
    BY <1>1, <1>2, <2>1, <2>3 DEF Sound, Counting, SeenKept, Ordered, Admitted, Checked
  <2> QED
    BY <1>1, <2>2, <2>4, PlainMove DEF login
<1>5. CASE q.page \in Bulk
  <2>1. \/ Set(r, Answer(q, q.sess))
        \/ row.is # "here" /\ req' = [req EXCEPT ![r] = [q EXCEPT !.at = "again", !.seen = row]]
    BY <1>5 DEF Look, Set, Bulk
  <2> HIDE DEF row, q
  <2> QED
    BY <1>3, <1>4, <1>5, <2>1
<1>6. CASE q.page \notin Bulk
  <2>1. \/ Set(r, Answer(q, q.sess))
        \/ /\ req' = [req EXCEPT ![r] = [q EXCEPT !.at = "act", !.seen = row]]
           /\ \/ q.page = "create" /\ row.is = "unborn"
              \/ q.page = "import" /\ row.is # "gone"
              \/ q.page \notin {"create", "import"} /\ row.is = "here"
    BY <1>6 DEF Look, Set, Bulk
  <2>2. {"create", "import"} \subseteq Births
    BY DEF Births
  <2> HIDE DEF row, q
  <2> QED
    BY <1>2, <1>3, <1>4, <2>1, <2>2
<1> QED
  BY <1>5, <1>6

LEMMA AgainSound ==
  ASSUME SoundInv, NEW r \in Reqs, Again(r)
  PROVE  SoundInv'
<1> DEFINE q == req[r]
           row == users[q.u]
           n == [q EXCEPT !.at = "act", !.seen = row]
<1>1. /\ q \in Request /\ Sound(q) /\ q.u \in Users /\ q.at = "again" /\ row \in Account
      /\ q.sess \in Session /\ Consented(q.sess) /\ otp \in SUBSET Users
      /\ UNCHANGED <<tables, cookie, login>>
  BY Own DEF Again, Keyed, Stages
<1>2. CASE Set(r, Answer(q, q.sess))
  BY <1>1, <1>2, Answers DEF login
<1>3. CASE row.is # "gone" /\ req' = [req EXCEPT ![r] = n]
  <2>1. row.is \in {"unborn", "here", "gone"}
    BY <1>1 DEF Account
  <2>2. /\ n \in Request /\ n.at = "act" /\ n.seen = row /\ n.u = q.u /\ n.me = q.me /\ n.page = q.page
        /\ n.sess = q.sess
    BY <1>1 DEF Request, Stages
  <2>3. req' = [req EXCEPT ![r] = n]
    BY <1>3
  <2> HIDE DEF n
  <2>4. Acting(n)
    BY <1>1, <1>3, <2>1, <2>2 DEF Sound, Acting, Births, Bulk
  <2>5. Sound(n)
    BY <1>1, <2>2, <2>4 DEF Sound, Counting, SeenKept, Ordered, Admitted, Checked
  <2> QED
    BY <1>1, <2>3, <2>5, PlainMove DEF login
<1> QED
  BY <1>2, <1>3 DEF Again, Set

-----------------------------------------------------------------------------
(***************************************************************************)
(* The commit of a change.                                                 *)
(***************************************************************************)
\* The unit of work, column by column.
LEMMA FlushShape ==
  ASSUME NEW now \in Account, NEW seen \in Account, NEW want \in Account
  PROVE  /\ Flush(now, seen, want) \in Account
         /\ Flush(now, seen, want).is = IF want.is = seen.is THEN now.is ELSE want.is
         /\ Flush(now, seen, want).role = IF want.role = seen.role THEN now.role ELSE want.role
         /\ Flush(now, seen, want).active = IF want.active = seen.active THEN now.active ELSE want.active
         /\ Flush(now, seen, want).accepted =
              IF want.accepted = seen.accepted THEN now.accepted ELSE want.accepted
         /\ want = seen => Flush(now, seen, want) = now
BY DEF Flush, Account

\* What a commit may ask for: consent is never withdrawn, only a deletion takes the row away, only
\* three columns decide who is an administrator and each has its pages.
LEMMA WantShape ==
  ASSUME NEW q \in Request, q.seen.is = "here",
         q.page \in (AdminPages \cup {"sync", "accept"}) \ {"create"}
  PROVE  /\ Want(q) \in Account
         /\ Want(q).is = (IF q.page = "delete" THEN "gone" ELSE "here")
         /\ Want(q).accepted = (IF q.page = "accept" THEN TRUE ELSE q.seen.accepted)
         /\ q.page # "toggle" => Want(q).active = q.seen.active
         /\ Want(q).role # q.seen.role =>
              \/ q.page = "role"
              \/ q.page = "edit" /\ q.u # q.me
              \/ q.page \in {"import", "group", "sync"} /\ q.seen.role # "admin"
<1>1. q.seen \in Account /\ q.arg \in Roles
  BY DEF Request
<1>2. ImportedRole(q.seen, q.arg) \in Roles
      /\ (ImportedRole(q.seen, q.arg) # q.seen.role => q.seen.role # "admin")
  BY <1>1 DEF ImportedRole, Roles
<1>3. CASE q.page = "role"
  <2> DEFINE want == [q.seen EXCEPT !.role = q.arg]
  <2>1. Want(q) = want
    BY <1>3 DEF Want
  <2>2. /\ want \in Account /\ want.is = q.seen.is /\ want.accepted = q.seen.accepted
        /\ want.active = q.seen.active
    BY <1>1 DEF Account
  <2> HIDE DEF want
  <2> QED
    BY <1>3, <2>1, <2>2
<1>8. CASE q.page = "edit" /\ q.u = q.me
  <2>1. Want(q) = q.seen
    BY <1>8 DEF Want
  <2> QED
    BY <1>1, <1>8, <2>1
<1>9. CASE q.page = "edit" /\ q.u # q.me
  BY <1>1, <1>9 DEF Want, Account
<1>4. CASE q.page = "toggle"
  BY <1>1, <1>4 DEF Want, Account
<1>5. CASE q.page \in {"import", "group", "sync"}
  BY <1>1, <1>2, <1>5 DEF Want, Account
<1>6. CASE q.page \in {"totp", "email", "enable", "mfa_off"}
  BY <1>1, <1>6 DEF Want, Account
<1>7. CASE q.page \in {"accept", "delete"}
  BY <1>1, <1>7 DEF Want, Account
<1> QED
  BY <1>3, <1>4, <1>5, <1>6, <1>7, <1>8, <1>9 DEF AdminPages

\* A row that is born counts nobody as consenting.
LEMMA BornShape ==
  ASSUME NEW role \in Roles, NEW local \in BOOLEAN, NEW active \in BOOLEAN
  PROVE  /\ Born(role, local, active) \in Account /\ Born(role, local, active).is = "here"
         /\ Born(role, local, active).role = role /\ ~Born(role, local, active).accepted
BY Shapes DEF Born, Account, Unborn

\* The three ways a commit ends: it changes the row it read, it makes a row, or it fails.
LEMMA ActCases ==
  ASSUME SoundInv, NEW r \in Reqs, Act(r)
  PROVE  LET q == req[r] IN
         \/ /\ q.seen.is = "here" /\ (Here(q.u) \/ Want(q) = q.seen)
            /\ users' = [users EXCEPT ![q.u] = Flush(users[q.u], q.seen, Want(q))]
            /\ req' = [req EXCEPT ![r] = Acted(q)]
            /\ q.page \in (AdminPages \cup {"sync", "accept"}) \ {"create"}
         \/ /\ q.seen.is = "unborn" /\ users[q.u].is = "unborn" /\ q.page \in Births
            /\ users' = [users EXCEPT ![q.u] = Born(q.arg, q.page = "create", q.page \notin Bulk)]
            /\ req' = [req EXCEPT ![r] = Acted(q)]
         \/ users' = users /\ req' = [req EXCEPT ![r] = Idle]
<1> DEFINE q == req[r]
<1>1. Sound(q) /\ q.at = "act"
  BY Own DEF Act
<1>2. /\ q.page \in AdminPages \cup {"sync", "accept"}
      /\ \/ q.seen.is = "here" /\ q.page # "create"
         \/ q.seen.is = "unborn" /\ q.page \in Births
  BY <1>1 DEF Sound, Acting
<1>3. users \in [Users -> Account] /\ q.u \in Users
  BY <1>1, Own DEF Keyed, Stages
<1>4. CASE q.seen.is = "here"
  BY <1>2, <1>3, <1>4 DEF Act, Set
<1>5. CASE q.seen.is = "unborn"
  BY <1>2, <1>3, <1>5 DEF Act, Set
<1> QED
  BY <1>2, <1>4, <1>5

\* What a commit does to the row it is about.
LEMMA ActRow ==
  ASSUME SoundInv, NEW r \in Reqs, Act(r)
  PROVE  /\ users' \in [Users -> Account] /\ Grown /\ UnbornEmpty'
         /\ req[r].page = "accept" /\ req'[r] # Idle => users'[req[r].u].accepted
<1> DEFINE q == req[r]
           u == q.u
<1>1. /\ q \in Request /\ Sound(q) /\ u \in Users /\ users \in [Users -> Account]
      /\ q.seen \in Account /\ q.arg \in Roles /\ SeenKept(q) /\ req \in [Reqs -> Request]
  BY Own DEF Act, Keyed, Stages, Request, Sound
<1>2. CASE /\ q.seen.is = "here" /\ (Here(u) \/ Want(q) = q.seen)
           /\ users' = [users EXCEPT ![u] = Flush(users[u], q.seen, Want(q))]
           /\ q.page \in (AdminPages \cup {"sync", "accept"}) \ {"create"}
  <2> DEFINE new == Flush(users[u], q.seen, Want(q))
  <2>1. /\ Want(q) \in Account /\ Want(q).is \in {"here", "gone"}
        /\ Want(q).accepted = (IF q.page = "accept" THEN TRUE ELSE q.seen.accepted)
    BY <1>1, <1>2, WantShape
  <2>2. /\ new \in Account
        /\ new.is = IF Want(q).is = q.seen.is THEN users[u].is ELSE Want(q).is
        /\ new.accepted = IF Want(q).accepted = q.seen.accepted THEN users[u].accepted ELSE Want(q).accepted
        /\ Want(q) = q.seen => new = users[u]
    <3> DEFINE old == users[u]
               want == Want(q)
    <3>1. old \in Account /\ q.seen \in Account /\ want \in Account
      BY <1>1, <2>1
    <3> HIDE DEF old, want
    <3>2. /\ Flush(old, q.seen, want) \in Account
          /\ Flush(old, q.seen, want).is = IF want.is = q.seen.is THEN old.is ELSE want.is
          /\ Flush(old, q.seen, want).accepted =
               IF want.accepted = q.seen.accepted THEN old.accepted ELSE want.accepted
          /\ want = q.seen => Flush(old, q.seen, want) = old
      BY <3>1, FlushShape
    <3> QED
      BY <3>2 DEF old, want
  <2>3. users'[u] = new /\ \A v \in Users : v # u => users'[v] = users[v]
    BY <1>1, <1>2
  <2> HIDE DEF new, q
  <2>4. (users[u].accepted => new.accepted) /\ (q.page = "accept" => new.accepted)
    <3>1. q.seen.accepted \in BOOLEAN /\ users[u].accepted \in BOOLEAN
      BY <1>1 DEF Account
    <3> QED
      BY <1>1, <2>1, <2>2, <3>1 DEF SeenKept
  <2>5. new.is = "unborn" => new = users[u]
    BY <1>2, <2>1, <2>2 DEF Here
  <2>6. Grown
    BY <2>3, <2>4 DEF Grown
  <2>7. UnbornEmpty'
    BY <1>1, <2>3, <2>5 DEF SoundInv, UnbornEmpty
  <2>8. users' \in [Users -> Account]
    BY <1>1, <1>2, <2>2 DEF new
  <2> QED
    BY <2>3, <2>4, <2>6, <2>7, <2>8 DEF q
<1>3. CASE /\ users[u].is = "unborn" /\ q.page \in Births
           /\ users' = [users EXCEPT ![u] = Born(q.arg, q.page = "create", q.page \notin Bulk)]
  <2> DEFINE new == Born(q.arg, q.page = "create", q.page \notin Bulk)
  <2>1. new \in Account /\ new.is = "here"
    BY <1>1, BornShape
  <2>2. users'[u] = new /\ \A v \in Users : v # u => users'[v] = users[v]
    BY <1>1, <1>3
  <2>3. ~users[u].accepted
    BY <1>1, <1>3 DEF SoundInv, UnbornEmpty, Unborn
  <2>4. q.page # "accept"
    BY <1>3 DEF Births
  <2> HIDE DEF new
  <2>5. users' \in [Users -> Account]
    BY <1>1, <1>3, <2>1 DEF new
  <2> QED
    BY <1>1, <2>1, <2>2, <2>3, <2>4, <2>5 DEF SoundInv, UnbornEmpty, Grown
<1>4. CASE users' = users /\ req' = [req EXCEPT ![r] = Idle]
  <2>1. req'[r] = Idle
    BY <1>1, <1>4
  <2> QED
    BY <1>1, <1>4, <2>1 DEF SoundInv, UnbornEmpty, Grown
<1> QED
  BY <1>2, <1>3, <1>4, ActCases

\* An empty or an answered request is sound after any step that keeps Sound's sessions.
LEMMA AnswerSoundNext ==
  ASSUME NEW q \in Request, NEW s \in Session, Consented(s)'
  PROVE  Sound(Answer(q, s))'
<1>1. /\ Answer(q, s) \in Request /\ Answer(q, s).at = "reply"
      /\ Answer(q, s).u = Nobody /\ Answer(q, s).sess = s
  BY AnswerShape
<1> HIDE DEF Answer
<1> QED
  BY <1>1, AccessAssumption
     DEF Sound, Keyed, Counting, SeenKept, Acting, Ordered, Admitted, Checked, Consented

LEMMA ActSound ==
  ASSUME SoundInv, NEW r \in Reqs, Act(r)
  PROVE  SoundInv'
<1>0. PICK q : q = req[r]
  OBVIOUS
<1>1. /\ q \in Request /\ Sound(q) /\ q.u \in Users /\ q.at = "act" /\ q.sess \in Session
      /\ Consented(q.sess) /\ req \in [Reqs -> Request]
  BY <1>0, Own DEF Act, Keyed, Stages
<1>2. /\ users' \in [Users -> Account] /\ Grown /\ UnbornEmpty'
      /\ UNCHANGED <<rows, allow, cookie, guard, otp>> /\ Unlocked
      /\ q.page = "accept" /\ req'[r] # Idle => users'[q.u].accepted
  BY <1>0, ActRow DEF Act, login, Unlocked
<1>3. tokens' \in SUBSET Users
  BY DEF Act, SoundInv, TypeOK
<1>4. PICK n : Sound(n)' /\ req' = [req EXCEPT ![r] = n]
  <2>1. Sound(Idle)'
    BY <1>2, IdleSound, SoundKept
  <2>2. CASE req' = [req EXCEPT ![r] = Idle]
    BY <2>1, <2>2
  <2>3. CASE q.page = "accept" /\ req' = [req EXCEPT ![r] = Acted(q)] /\ req'[r] # Idle
    <3> DEFINE s == [q.sess EXCEPT !.ok = TRUE]
    <3>1. Acted(q) = Answer(q, s)
      BY <2>3 DEF Acted
    <3>2. q.sess.who = q.u
      BY <1>1, <2>3 DEF Sound, Acting, AdminPages
    <3>3. s \in Session /\ s.who = q.u
      BY <1>1, <3>2 DEF Session
    <3> HIDE DEF s
    <3>4. Consented(s)'
      BY <1>1, <1>2, <2>3, <3>3 DEF Consented
    <3>5. Sound(Answer(q, s))'
      BY <1>1, <3>3, <3>4, AnswerSoundNext
    <3> QED
      BY <2>3, <3>1, <3>5
  <2>4. CASE q.page # "accept" /\ req' = [req EXCEPT ![r] = Acted(q)]
    <3>1. Sound(Answer(q, q.sess))
      BY <1>1, AnswerSound
    <3>2. CASE q.page = "email"
      <4>1. q.seen.is = "here"
        BY <1>1, <3>2 DEF Sound, Acting, Births
      <4> DEFINE w == Want(q)
                 n == [q EXCEPT !.page = "enable", !.seen = w]
      <4>2. w = [q.seen EXCEPT !.method = "email", !.enabled = FALSE]
        BY <3>2 DEF Want
      <4>3. /\ w \in Account /\ w.is = "here" /\ w.role = q.seen.role /\ w.accepted = q.seen.accepted
        BY <1>1, <4>1, <4>2 DEF Request, Account
      <4>4. Acted(q) = n
        BY <3>2 DEF Acted
      <4> HIDE DEF w
      <4>5. /\ n \in Request /\ n.at = "act" /\ n.page = "enable" /\ n.u = q.u /\ n.me = q.me
            /\ n.seen = w /\ n.sess = q.sess
        BY <1>1, <4>3 DEF Request, Pages, AdminPages
      <4> HIDE DEF n
      <4>6. Acting(n)
        BY <1>1, <3>2, <4>3, <4>5 DEF Sound, Acting, AdminPages, SelfBarred
      <4>7. Sound(n)
        BY <1>1, <4>3, <4>5, <4>6 DEF Sound, Counting, SeenKept, Ordered, Admitted, Checked
      <4>8. Sound(n)'
        BY <1>2, <4>7, SoundKept
      <4> QED
        BY <2>4, <4>4, <4>8
    <3>3. CASE q.page = "sync"
      BY <2>1, <2>4, <3>3 DEF Acted
    <3>4. CASE q.page \notin {"email", "sync"}
      <4>1. Acted(q) = Answer(q, q.sess)
        BY <2>4, <3>4 DEF Acted
      <4>2. Sound(Answer(q, q.sess))'
        BY <1>2, <3>1, SoundKept
      <4> QED
        BY <2>4, <4>1, <4>2
    <3> QED
      BY <3>2, <3>3, <3>4
  <2> QED
    BY <1>0, <1>1, <2>2, <2>3, <2>4, ActCases
<1>5. RowsEarned'
  BY <1>2 DEF SoundInv, RowsEarned, Earned, Grown
<1>6. cookie' \in [Browsers -> Session] /\ \A b \in Browsers : Consented(cookie[b])'
  BY <1>2 DEF SoundInv, TypeOK, Consented, Grown
<1>7. WindowHasEnd'
  BY <1>0, <1>1, <1>2, <1>4 DEF SoundInv, WindowHasEnd
<1>8. guard' \in [Users -> Counter] /\ otp' \in SUBSET Users
  BY <1>2, Own DEF Counter
<1> QED
  BY <1>2, <1>3, <1>4, <1>5, <1>6, <1>7, <1>8, Together DEF Counter

-----------------------------------------------------------------------------
(***************************************************************************)
(* The doors, and the responses.                                           *)
(***************************************************************************)
\* What each door makes sure of: an intrusive scan, and one that uses credentials, is started by an
\* administrator; an intrusive one only where the deployment allows it and, in the form, with the box.
LEMMA DoorsAsk ==
  ASSUME NEW door \in Doors, NEW role \in Roles, NEW f \in Forms, Opens(door, role, f, allow)
  PROVE  Earned(door, role, Job(door, f))
<1> DEFINE j == Job(door, f)
<1>0. /\ j.intensity = Intensity(door, f) /\ j.creds = UsesCredentials(door, f) /\ j.ack = f.ack
  BY DEF Job
<1> HIDE DEF j
<1>1. CASE door = "start"
  <2>1. j.intensity = StartIntensity(f) /\ StartOpens(role, f, allow)
    BY <1>0, <1>1 DEF Intensity, Opens
  <2>2. CASE Effective(f) \in WebKeys
    <3>1. j.intensity = WebIntensity(f) /\ WebFormOpens(role, f, allow) /\ ~j.creds
      BY <1>0, <1>1, <2>1, <2>2 DEF StartIntensity, StartOpens, UsesCredentials
    <3> QED
      BY <1>0, <3>1 DEF Earned, WebFormOpens, AdminIfAggressive, j
  <2>3. CASE Effective(f) \notin WebKeys
    <3>1. j.intensity = Wizard(Effective(f)).intensity /\ IpFormOpens(role, f, allow) /\ (j.creds => f.creds)
      BY <1>0, <1>1, <2>1, <2>3 DEF StartIntensity, StartOpens, UsesCredentials
    <3>2. IsAggressive(Wizard(Effective(f)).intensity) => Wizard(Effective(f)).guarded
      BY DEF IsAggressive, Wizard
    <3> QED
      BY <1>0, <3>1, <3>2 DEF Earned, IpFormOpens, KillSwitchPassed, j
  <2> QED
    BY <2>2, <2>3
<1>2. CASE door = "zone"
  BY <1>0, <1>2
     DEF Earned, Opens, ZoneOpens, Intensity, ZoneIntensity, UsesCredentials, AdminIfAggressive,
         KillSwitchPassed, IsAggressive, j
<1>3. CASE door \in {"rescan", "api_zone"}
  <2>1. j.intensity = Parsed(f) /\ AdminIfAggressive(role, Parsed(f)) /\ KillSwitchPassed(Parsed(f), allow)
        /\ ~j.creds
    BY <1>0, <1>3 DEF Opens, RescanOpens, ApiZoneOpens, Intensity, UsesCredentials
  <2> QED
    BY <1>3, <2>1 DEF Earned, AdminIfAggressive, KillSwitchPassed, j
<1>4. CASE door = "api_scan"
  BY <1>0, <1>4
     DEF Earned, Opens, ApiScanOpens, Intensity, ApiScanIntensity, UsesCredentials, AdminIfAggressive,
         KillSwitchPassed, IsAggressive, j
<1>5. CASE door \in {"sca", "api_sca", "audit", "api_admin"}
  <2>1. j.intensity = "safe" /\ (j.creds => role = "admin")
    BY <1>0, <1>5 DEF Opens, AuditOpens, Intensity, UsesCredentials
  <2> QED
    BY <2>1 DEF Earned, IsAggressive, j
<1> QED
  BY <1>1, <1>2, <1>3, <1>4, <1>5 DEF Doors, WebDoors, ApiDoors

\* Every intensity a door can choose is one.
LEMMA JobShape ==
  ASSUME NEW door \in Doors, NEW f \in Forms
  PROVE  Job(door, f) \in Jobs
<1>1. Intensity(door, f) \in Intensities
  BY DEF Intensity, Intensities, StartIntensity, WebIntensity, Wizard, ZoneIntensity, Parsed, ApiScanIntensity
<1>2. UsesCredentials(door, f) \in BOOLEAN /\ f.ack \in BOOLEAN
  BY DEF UsesCredentials, Forms
<1> QED
  BY <1>1, <1>2 DEF Job, Jobs

LEMMA LaunchArrivesSound ==
  ASSUME SoundInv, NEW r \in Reqs, NEW b \in Browsers, NEW door \in Doors, NEW f \in Forms,
         LaunchArrives(r, b, door, f)
  PROVE  SoundInv'
<1> DEFINE me == cookie[b].who
           new == Arrive(b, door, "launch")
           q == [new EXCEPT !.me = me, !.as = users[me].role, !.job = Job(door, f)]
<1>0. /\ door \in Pages /\ "launch" \in Stages /\ req[r].at # "expire" /\ me \in Users
      /\ UNCHANGED <<tables, cookie, login>> /\ users[me] \in Account
  BY OfCookie, Own DEF Pages, Stages, LaunchArrives
<1>1. /\ new \in Request /\ new.at = "launch" /\ new.page = door /\ new.sess = cookie[b]
      /\ new.u = Nobody /\ cookie[b] \in Session /\ Consented(cookie[b])
  BY <1>0, OfCookie, ArriveShape
<1>2. CASE Set(r, Answer(new, new.sess))
  <2>1. Set(r, Answer(Arrive(b, door, "launch"), cookie[b]))
    BY <1>1, <1>2
  <2> QED
    BY <1>0, <1>1, <2>1, Turned
<1>3. CASE /\ GatePasses(door, b) /\ (door \in ApiDoors => ConsentOf(me))
           /\ Opens(door, users[me].role, f, allow) /\ req' = [req EXCEPT ![r] = q]
  <2>1. users[me].role \in Roles /\ Job(door, f) \in Jobs
    BY <1>0, JobShape DEF Account
  <2>2. Earned(door, users[me].role, Job(door, f))
    BY <1>3, <2>1, DoorsAsk
  <2>3. users[me].accepted
    BY <1>1, <1>3 DEF GatePasses, UnderScans, Doors, ConsentOf, Consented
  <2> HIDE DEF new
  <2>4. /\ q \in Request /\ q.at = "launch" /\ q.page = door /\ q.u = Nobody /\ q.me = me
        /\ q.as = users[me].role /\ q.job = Job(door, f) /\ q.sess = cookie[b]
    BY <1>0, <1>1, <2>1 DEF Request
  <2> HIDE DEF q
  <2>5. Sound(q)
    BY <1>0, <1>1, <2>2, <2>3, <2>4, AccessAssumption
       DEF Sound, Keyed, Counting, SeenKept, Acting, Ordered, Admitted, Checked
  <2>6. otp \in SUBSET Users
    BY Own
  <2> QED
    BY <1>0, <1>3, <2>5, <2>6, PlainMove DEF login
<1> QED
  BY <1>2, <1>3 DEF LaunchArrives, Set

LEMMA BearerLaunchSound ==
  ASSUME SoundInv, NEW r \in Reqs, NEW me \in Users, NEW door \in ApiDoors, NEW f \in Forms,
         BearerLaunch(r, me, door, f)
  PROVE  SoundInv'
<1> DEFINE q == [Idle EXCEPT !.at = "launch", !.page = door, !.me = me, !.as = users[me].role,
                             !.job = Job(door, f)]
<1>0. /\ door \in Doors /\ door \in Pages /\ "launch" \in Stages /\ req[r].at # "expire"
      /\ UNCHANGED <<tables, cookie, login>> /\ users[me] \in Account /\ otp \in SUBSET Users
      /\ users[me].accepted /\ Opens(door, users[me].role, f, allow) /\ req' = [req EXCEPT ![r] = q]
  BY Own DEF Pages, Doors, Stages, BearerLaunch, ConsentOf, Set
<1>1. users[me].role \in Roles /\ Job(door, f) \in Jobs
  BY <1>0, JobShape DEF Account
<1>2. Earned(door, users[me].role, Job(door, f))
  BY <1>0, <1>1, DoorsAsk
<1>3. /\ q \in Request /\ q.at = "launch" /\ q.page = door /\ q.u = Nobody /\ q.me = me
      /\ q.as = users[me].role /\ q.job = Job(door, f) /\ q.sess = Empty
  BY <1>0, <1>1, Shapes DEF Idle, Request
<1> HIDE DEF q
<1>4. Sound(q)
  BY <1>0, <1>2, <1>3, AccessAssumption
     DEF Sound, Keyed, Counting, Consented, Empty, SeenKept, Acting, Ordered, Admitted, Checked
<1> QED
  BY <1>0, <1>4, PlainMove DEF login

LEMMA LaunchSound ==
  ASSUME SoundInv, NEW r \in Reqs, Launch(r)
  PROVE  SoundInv'
<1>1. /\ req[r] \in Request /\ Sound(req[r]) /\ req[r].sess \in Session /\ Consented(req[r].sess)
      /\ req[r].at = "launch"
  BY Own DEF Launch
<1>2. Sound(Answer(req[r], req[r].sess)) /\ Sound(Idle)
  BY <1>1, AnswerSound, IdleSound
<1>3. PICK n : Sound(n) /\ req' = [req EXCEPT ![r] = n]
  BY <1>2 DEF Launch, Goto, Set
<1>4. Grown /\ Unlocked /\ UNCHANGED <<users, tokens, allow, cookie, guard, otp>>
  BY DEF Launch, Grown, Unlocked, login
<1>5. Sound(n)'
  BY <1>3, <1>4, SoundKept
<1>6. RowsEarned'
  <2>1. rows' \subseteq rows \cup {Row(req[r])}
    BY DEF Launch
  <2>2. Row(req[r]).by \in Users /\ users[Row(req[r]).by].accepted
        /\ Earned(Row(req[r]).door, Row(req[r]).as, Row(req[r]).job)
    BY <1>1 DEF Sound, Ordered, Row
  <2> QED
    BY <1>4, <2>1, <2>2 DEF SoundInv, RowsEarned, Earned
<1>7. UnbornEmpty' /\ \A b \in Browsers : Consented(cookie[b])'
  BY <1>4 DEF SoundInv, UnbornEmpty, Consented
<1>8. WindowHasEnd'
  BY <1>1, <1>3, <1>4, Own DEF SoundInv, WindowHasEnd
<1> QED
  BY <1>3, <1>4, <1>5, <1>6, <1>7, <1>8, Own, Together DEF SoundInv, TypeOK

LEMMA ReplySound ==
  ASSUME SoundInv, NEW r \in Reqs, Reply(r)
  PROVE  SoundInv'
<1>1. /\ req[r].sess \in Session /\ Consented(req[r].sess) /\ req[r].at = "reply"
      /\ req' = [req EXCEPT ![r] = Idle] /\ cookie \in [Browsers -> Session]
  BY Own DEF Reply, Set, SoundInv, TypeOK
<1>2. Grown /\ Unlocked /\ UNCHANGED <<users, tokens, rows, allow, guard, otp>>
  BY DEF Reply, Grown, Unlocked, login, tables
<1>3. Sound(Idle)'
  BY <1>2, IdleSound, SoundKept
<1>4. cookie' \in [Browsers -> Session]
  BY <1>1 DEF Reply
<1>5. \A b \in Browsers : Consented(cookie[b])'
  <2>1. \A b \in Browsers : cookie'[b] = cookie[b] \/ cookie'[b] = req[r].sess
    BY <1>1 DEF Reply
  <2> QED
    BY <1>1, <1>2, <2>1 DEF SoundInv, Consented
<1>6. UnbornEmpty' /\ RowsEarned'
  BY <1>2 DEF SoundInv, UnbornEmpty, RowsEarned, Earned
<1>7. WindowHasEnd'
  BY <1>1, <1>2, Own DEF SoundInv, WindowHasEnd
<1> QED
  BY <1>1, <1>2, <1>3, <1>4, <1>5, <1>6, <1>7, Own, Together DEF SoundInv, TypeOK

-----------------------------------------------------------------------------
(***************************************************************************)
(* The theorems.                                                           *)
(***************************************************************************)
LEMMA NextSound ==
  ASSUME SoundInv, [Next]_vars
  PROVE  SoundInv'
<1>1. ASSUME NEW r \in Reqs, NEW b \in Browsers, SignIn(r, b) PROVE SoundInv'
  BY <1>1, LoginArrivesSound, MfaArrivesSound, ResendSound, LogoutSound, RefreshSound,
     AcceptArrivesSound, ViewSound DEF SignIn
<1>2. ASSUME NEW r \in Reqs, NEW b \in Browsers, Administer(r, b) \/ Order(r, b) PROVE SoundInv'
  BY <1>2, AdminArrivesSound, LaunchArrivesSound DEF Administer, Order
<1>3. ASSUME NEW r \in Reqs, NEW on \in Users, SyncFires(r, on) PROVE SoundInv'
  BY <1>3, SyncFiresSound
<1>4. ASSUME NEW r \in Reqs, Bearer(r) PROVE SoundInv'
  BY <1>4, BearerLaunchSound DEF Bearer
<1>5. ASSUME NEW r \in Reqs, Step(r) PROVE SoundInv'
  BY <1>5, GradeSound, CodeSound, StoreSound, JitSound, UseSound, ClearSound, IncrSound, ExpireSound,
     SetLockSound, DropSound, RedisFailsSound, LookSound, AgainSound, ActSound, LaunchSound, ReplySound,
     AbortSound DEF Step
<1>6. CASE UNCHANGED vars
  <2>1. UNCHANGED <<req, users, rows, allow, cookie, tokens, otp, guard>>
    BY <1>6 DEF vars
  <2>2. Unlocked /\ WindowHasEnd' /\ guard' \in [Users -> Counter] /\ tokens' \in SUBSET Users
        /\ otp' \in SUBSET Users
    BY <2>1 DEF SoundInv, TypeOK, Unlocked, WindowHasEnd, Counter
  <2> QED
    BY <2>1, <2>2, Stands
<1> QED
  BY <1>1, <1>2, <1>3, <1>4, <1>5, <1>6, TokenSound, ExpirySound DEF Next

\* The inductive invariant, for any number of accounts, browsers and requests.
THEOREM CopiesAreSound == Spec => []SoundInv
<1>1. Init => SoundInv
  <2> SUFFICES ASSUME Init PROVE SoundInv
    OBVIOUS
  <2> USE AccessAssumption, Shapes
  <2>1. users \in [Users -> Account] /\ UnbornEmpty
    BY DEF Init, UnbornEmpty
  <2>2. guard \in [Users -> Counter] /\ \A u \in Users : ~guard[u].lock /\ guard[u].fails = 0
    BY DEF Init, Counter
  <2>3. TypeOK
    BY <2>1, <2>2 DEF Init, TypeOK, Counter
  <2>4. WindowHasEnd /\ GuardOff /\ RowsEarned
    BY <2>2 DEF Init, WindowHasEnd, GuardOff, RowsEarned
  <2>5. \A r \in Reqs : Sound(req[r])
    BY IdleSound DEF Init
  <2>6. \A b \in Browsers : Consented(cookie[b])
    BY DEF Init, Consented, Empty
  <2> QED
    BY <2>1, <2>3, <2>4, <2>5, <2>6 DEF SoundInv
<1>2. SoundInv /\ [Next]_vars => SoundInv'
  BY NextSound
<1> QED
  BY <1>1, <1>2, PTL DEF Spec

\* Types, and the end every counter of failures has unless the call that dates it was lost.
THEOREM AccessInvariant == Spec => []AccessInv
<1>1. SoundInv => AccessInv
  BY DEF SoundInv, AccessInv
<1> QED
  BY <1>1, CopiesAreSound, PTL

\* Whatever responses overtake each other, the flag of a cookie is not ahead of the row, and every
\* scan was started by somebody who might.
THEOREM EveryLaunchIsEarned == Spec => []LaunchEarned
<1>1. SoundInv => LaunchEarned
  BY AccessAssumption DEF SoundInv, LaunchEarned, Consented, RowsEarned, Earned
<1> QED
  BY <1>1, CopiesAreSound, PTL

\* Steps that leave every lock in place, or a request that may lift it.
LEMMA LockStep ==
  ASSUME SoundInv, NEW r \in Reqs, Step(r), NEW u \in Users, guard[u].lock, ~guard'[u].lock
  PROVE  /\ req[r].at = "clear" /\ req'[r] # req[r]
         /\ req[r].u = u /\ (req[r].early \/ req[r].blind)
<1>1. guard \in [Users -> Counter] /\ Sound(req[r]) /\ req \in [Reqs -> Request]
      /\ (req[r].at \in Keyed => req[r].u \in Users)
  BY Own DEF Counter
<1>2. guard' # guard
  OBVIOUS
<1>3. ~Incr(r) /\ ~Expire(r) /\ ~SetLock(r) /\ ~Drop(r)
  BY <1>1 DEF Incr, Expire, SetLock, Drop, Counter
<1>4. ~RedisFails(r) /\ ~Abort(r)
  <2>1. \A v \in Users : v \in Users => ~(guard' = Unset(v))
    BY <1>1 DEF Unset, Counter
  <2> QED
    BY <1>1, <1>2, <2>1 DEF RedisFails, Abort, Keyed, Stages
<1>5. Clear(r)
  BY <1>2, <1>3, <1>4
     DEF Step, Grade, Code, Store, Jit, Use, Look, Again, Act, Launch, Reply, login
<1>6. req[r].at = "clear" /\ guard' = [guard EXCEPT ![req[r].u] = NoTries] /\ req[r].u \in Users
  BY <1>1, <1>5 DEF Clear, Keyed, Stages
<1>7. req[r].u = u
  BY <1>1, <1>6
<1>8. req'[r].at = "reply"
  <2>1. req'[r] = Opened(req[r])
    BY <1>1, <1>5 DEF Clear, Set
  <2> QED
    BY <2>1, <1>1, Shapes DEF Opened, Answer, Idle
<1>9. req[r].early \/ req[r].blind
  BY <1>1, <1>6, <1>7 DEF Sound, Admitted, Checked
<1> QED
  BY <1>6, <1>7, <1>8, <1>9

\* A lock holds: it ends with its time, or by a sign-in that was past the check before it was set or
\* was not answered there.
THEOREM LocksAreKept == Spec => LockHolds
<1>1. ASSUME SoundInv, [Next]_vars
      PROVE  [\A u \in Users : guard[u].lock /\ ~guard'[u].lock =>
                \/ req' = req
                \/ \E r \in Reqs : /\ req[r].at = "clear" /\ req'[r] # req[r]
                                  /\ req[r].u = u /\ (req[r].early \/ req[r].blind)]_vars
  <2> SUFFICES ASSUME NEW u \in Users, guard[u].lock, ~guard'[u].lock
               PROVE  \/ req' = req
                      \/ \E r \in Reqs : /\ req[r].at = "clear" /\ req'[r] # req[r]
                                        /\ req[r].u = u /\ (req[r].early \/ req[r].blind)
    OBVIOUS
  <2>1. CASE \E r \in Reqs : Step(r)
    BY <1>1, <2>1, LockStep
  <2>2. CASE TokenStep \/ Expiry
    BY <2>2 DEF TokenStep, TokenMade, TokenRevoked, TokenEnds, Expiry, CountEnds, LockEnds, OtpEnds
  <2>3. ASSUME NEW r \in Reqs, NEW b \in Browsers, SignIn(r, b) \/ Administer(r, b) \/ Order(r, b)
        PROVE  guard' = guard
    BY <2>3 DEF SignIn, LoginArrives, MfaArrives, Resend, Logout, Refresh, AcceptArrives, View, Administer,
               AdminArrives, Order, LaunchArrives, login
  <2>4. ASSUME NEW r \in Reqs, Bearer(r) \/ \E on \in Users : SyncFires(r, on)
        PROVE  guard' = guard
    BY <2>4 DEF Bearer, BearerLaunch, SyncFires, login
  <2>5. CASE UNCHANGED vars
    BY <2>5 DEF vars
  <2> QED
    BY <1>1, <2>1, <2>2, <2>3, <2>4, <2>5 DEF Next
<1> QED
  BY <1>1, CopiesAreSound, PTL DEF Spec, LockHolds

\* A request whose commit changed a row has moved on.
LEMMA CommitMoves ==
  ASSUME SoundInv, NEW r \in Reqs, Act(r), users' # users
  PROVE  Commits(r)
<1>0. PICK q : q = req[r]
  OBVIOUS
<1>1. q \in Request /\ q.at = "act" /\ req \in [Reqs -> Request] /\ q.sess \in Session
  BY <1>0, Own DEF Act
<1>2. req' = [req EXCEPT ![r] = Acted(q)]
  BY <1>0, ActCases
<1>3. CASE q.page = "email"
  <2>1. Acted(q).page = "enable"
    BY <1>1, <1>3 DEF Acted, Request
  <2> QED
    BY <1>0, <1>1, <1>2, <1>3, <2>1 DEF Commits
<1>4. CASE q.page # "email"
  <2>1. Acted(q).at \in {"idle", "reply"}
    <3>1. \A s : Answer(q, s).at = "reply"
      BY DEF Answer, Idle
    <3>2. Idle.at = "idle"
      BY DEF Idle
    <3>3. Acted(q) = Idle \/ \E s : Acted(q) = Answer(q, s)
      BY <1>4 DEF Acted
    <3> QED
      BY <3>1, <3>2, <3>3
  <2> QED
    BY <1>0, <1>1, <1>2, <2>1 DEF Commits
<1> QED
  BY <1>3, <1>4

\* What a commit may do to who is an administrator.
LEMMA ActAdmins ==
  ASSUME SoundInv, NEW r \in Reqs, Act(r)
  PROVE  /\ \A u \in Users : users[u].role = "admin" /\ users'[u].role # "admin" =>
              /\ req[r].u = u
              /\ \/ req[r].page \in {"role", "edit"} /\ req[r].me # u
                 \/ req[r].page \in {"import", "group", "sync"} /\ req[r].seen.role # "admin"
         /\ req[r].me \in Admins => req[r].me \in Admins'
<1>0. PICK q : q = req[r]
  OBVIOUS
<1> DEFINE u == q.u
<1>1. /\ q \in Request /\ Sound(q) /\ u \in Users /\ q.at = "act" /\ users \in [Users -> Account]
      /\ q.seen \in Account /\ users[u] \in Account /\ q.arg \in Roles
  BY <1>0, Own DEF Act, Keyed, Stages, Request
<1>2. CASE /\ q.seen.is = "here"
           /\ users' = [users EXCEPT ![u] = Flush(users[u], q.seen, Want(q))]
           /\ q.page \in (AdminPages \cup {"sync", "accept"}) \ {"create"}
  <2> DEFINE old == users[u]
             want == Want(q)
             new == Flush(old, q.seen, want)
  <2>1. /\ want \in Account
        /\ want.is = (IF q.page = "delete" THEN "gone" ELSE "here")
        /\ q.page # "toggle" => want.active = q.seen.active
        /\ want.role # q.seen.role =>
             \/ q.page = "role"
             \/ q.page = "edit" /\ u # q.me
             \/ q.page \in {"import", "group", "sync"} /\ q.seen.role # "admin"
    BY <1>1, <1>2, WantShape
  <2>2. old \in Account
    BY <1>1
  <2>3. users'[u] = new /\ \A v \in Users : v # u => users'[v] = users[v]
    BY <1>1, <1>2
  <2>4. Acting(q)
    BY <1>1 DEF Sound
  <2>5. old = users[u]
    OBVIOUS
  <2> HIDE DEF old, want
  <2>6. /\ new.is = IF want.is = q.seen.is THEN old.is ELSE want.is
        /\ new.role = IF want.role = q.seen.role THEN old.role ELSE want.role
        /\ new.active = IF want.active = q.seen.active THEN old.active ELSE want.active
    BY <1>1, <2>1, <2>2, FlushShape
  <2> HIDE DEF new
  <2>7. ASSUME old.role = "admin", new.role # "admin"
        PROVE  \/ q.page \in {"role", "edit"} /\ q.me # u
               \/ q.page \in {"import", "group", "sync"} /\ q.seen.role # "admin"
    BY <1>1, <2>1, <2>4, <2>6, <2>7 DEF Acting, SelfBarred
  <2>8. ASSUME u = q.me
        PROVE  new.is = old.is /\ new.role = old.role /\ new.active = old.active
    BY <1>1, <1>2, <2>1, <2>4, <2>6, <2>8 DEF Acting, SelfBarred
  <2> QED
    BY <1>0, <1>1, <2>3, <2>5, <2>7, <2>8 DEF Admins, Here
<1>3. CASE /\ users[u].is = "unborn"
           /\ users' = [users EXCEPT ![u] = Born(q.arg, q.page = "create", q.page \notin Bulk)]
  <2>1. users[u].role = "viewer"
    BY <1>1, <1>3 DEF SoundInv, UnbornEmpty, Unborn
  <2>2. \A v \in Users : v # u => users'[v] = users[v]
    BY <1>1, <1>3
  <2> QED
    BY <1>0, <1>1, <1>3, <2>1, <2>2 DEF Admins, Here
<1>4. CASE users' = users
  BY <1>4 DEF Admins, Here
<1> QED
  BY <1>0, <1>2, <1>3, <1>4, ActCases

\* A first bind only adds to the table.
LEMMA JitAdmins ==
  ASSUME SoundInv, NEW r \in Reqs, Jit(r)
  PROVE  /\ \A u \in Users : users[u].role = "admin" => users'[u].role = "admin"
         /\ Admins \subseteq Admins'
<1> DEFINE u == req[r].u
<1>1. u \in Users /\ users \in [Users -> Account]
  BY Own DEF Jit, Keyed, Stages
<1>2. CASE users[u].is = "unborn"
  <2>1. users[u].role = "viewer"
    BY <1>1, <1>2 DEF SoundInv, UnbornEmpty, Unborn
  <2>2. \A v \in Users : v # u => users'[v] = users[v]
    BY <1>1 DEF Jit
  <2> QED
    BY <1>1, <1>2, <2>1, <2>2 DEF Admins, Here
<1>3. CASE users[u].is # "unborn"
  <2>1. users' = users
    BY <1>1, <1>3 DEF Jit
  <2> QED
    BY <2>1 DEF Admins, Here
<1> QED
  BY <1>2, <1>3

\* The table of accounts changes in these two steps only.
LEMMA WhoWritesUsers ==
  ASSUME [Next]_vars, users' # users
  PROVE  \E r \in Reqs : Jit(r) \/ Act(r)
<1>1. ASSUME NEW r \in Reqs, Step(r) PROVE Jit(r) \/ Act(r)
  BY <1>1 DEF Step, Grade, Code, Store, Use, Clear, Incr, Expire, SetLock, Drop, RedisFails, Look, Again,
              Launch, Reply, Abort, tables
<1>2. ASSUME NEW r \in Reqs, NEW b \in Browsers, SignIn(r, b) \/ Administer(r, b) \/ Order(r, b)
      PROVE  FALSE
  BY <1>2 DEF SignIn, LoginArrives, MfaArrives, Resend, Logout, Refresh, AcceptArrives, View, Administer,
              AdminArrives, Order, LaunchArrives, tables
<1>3. ASSUME NEW r \in Reqs, Bearer(r) \/ \E on \in Users : SyncFires(r, on)
      PROVE  FALSE
  BY <1>3 DEF Bearer, BearerLaunch, SyncFires, tables
<1>4. ~TokenStep /\ ~Expiry /\ ~UNCHANGED vars
  BY DEF TokenStep, TokenMade, TokenRevoked, TokenEnds, Expiry, CountEnds, LockEnds, OtpEnds, tables, vars
<1> QED
  BY <1>1, <1>2, <1>3, <1>4 DEF Next

\* The last administrator goes only by a commit of somebody who is none any more, and a role is lost
\* only to another person's form or to an import that had not read it.
THEOREM AdministratorsAreKept == Spec => AdminsKept
<1>1. ASSUME SoundInv, [Next]_vars
      PROVE  [/\ Admins # {} /\ Admins' = {} => \E r \in Reqs : Commits(r) /\ req[r].me \notin Admins
              /\ \A u \in Users :
                   users[u].role = "admin" /\ users'[u].role # "admin" =>
                     \E r \in Reqs :
                       /\ Commits(r) /\ req[r].u = u
                       /\ \/ req[r].page \in {"role", "edit"} /\ req[r].me # u
                          \/ req[r].page \in {"import", "group", "sync"} /\ req[r].seen.role # "admin"]_vars
  <2>1. CASE users' = users
    BY <2>1 DEF Admins, Here
  <2>2. CASE users' # users
    <3>1. PICK r \in Reqs : Jit(r) \/ Act(r)
      BY <1>1, <2>2, WhoWritesUsers
    <3>2. CASE Jit(r)
      BY <1>1, <3>2, JitAdmins
    <3>3. CASE Act(r)
      <4>1. Commits(r)
        BY <1>1, <2>2, <3>3, CommitMoves
      <4> QED
        BY <1>1, <3>3, <4>1, ActAdmins
    <3> QED
      BY <3>1, <3>2, <3>3
  <2> QED
    BY <2>1, <2>2
<1> QED
  BY <1>1, CopiesAreSound, PTL DEF Spec, AdminsKept

=============================================================================
