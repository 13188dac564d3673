------------------------------ MODULE MCAccess ------------------------------
(***************************************************************************)
(* Access with two accounts (and one yet to come), two browsers and two    *)
(* requests at once.  Bound: each behaviour stays in one play, a group of  *)
(* pages, so that TLC adds the groups up instead of multiplying them.      *)
(***************************************************************************)
EXTENDS Access, TLC

CONSTANTS root, ann, joe, b1, b2, r1, r2

TwoBrowsers == {b1, b2}
TwoReqs     == {r1, r2}
ThreeUsers  == {root, ann, joe}

VARIABLE play

Person(role, method, accepted) ==
  [Born(role, TRUE, TRUE) EXCEPT !.method = method, !.enabled = method # "none", !.accepted = accepted]
Cast(u, v, w) == (root :> u) @@ (ann :> v) @@ (joe :> w)

\* door: one account, or a name only LDAP knows, and its second step.  desk: two people and the
\* LDAP sync administer the accounts.  factor: they change second factors.  scan: starting scans.
Admin == Person("admin", "none", FALSE)
DoorCast == {Cast(u, Admin, Unborn) : u \in {Unborn} \cup {Person("viewer", m, FALSE) : m \in {"none", "totp", "email"}}}
DeskCast == {Cast(Person("admin", "none", FALSE), Person("admin", "none", FALSE), Unborn)}
FactorCast == {Cast(Person("admin", "none", FALSE), Person("admin", m, FALSE), Unborn) : m \in {"none", "totp", "email"}}
ScanCast == {Cast(Person("admin", "none", FALSE), Person(role, "none", FALSE), Unborn) : role \in {"analyst", "viewer"}}

MCInit ==
  /\ \/ play = "door"   /\ users \in DoorCast   /\ tokens = {} /\ allow = FALSE
     \/ play = "desk"   /\ users \in DeskCast   /\ tokens = {} /\ allow = FALSE
     \/ play = "factor" /\ users \in FactorCast /\ tokens = {} /\ allow = FALSE
     \/ play = "scan"   /\ users \in ScanCast   /\ tokens = {} /\ allow \in BOOLEAN
  /\ Init

AllIdle == \A q \in Reqs : req[q].at = "idle"
Busy(S) == \E q \in Reqs : req[q].page \in S /\ req[q].at # "idle"

\* Bound: outside the door play people sign in one at a time, each at a browser of their own.
Enter(r, b, u) == Here(u) /\ users[u].active /\ AllIdle /\ cookie[b] = Empty /\ LoginArrives(r, b, "login", u, TRUE)

DoorNext == \E r \in Reqs :
  \/ \E heard \in BOOLEAN : cookie[b1].who = Nobody /\ LoginArrives(r, b1, "login", root, heard)
  \/ AllIdle /\ (LoginArrives(r, b1, "api_login", root, TRUE) \/ Resend(r, b1))
  \/ Logout(r, b1)
  \/ \E heard \in BOOLEAN : MfaArrives(r, b1, heard)

\* The pages that read a role from their form.
Roled   == {"create", "role", "edit", "import", "group"}
Factors == {"totp", "enable", "email", "mfa_off"}

DeskNext == \E r \in Reqs :
  \/ Enter(r, b1, root) \/ Enter(r, b2, ann)
  \/ \E b \in Browsers, page \in AdminPages \ Factors, on \in Users, role \in {"admin", "viewer"} :
        /\ page \in Roled \/ role = "viewer"
        /\ page \in {"import", "group"} => role = "viewer" /\ on = ann
        /\ on = joe => page = "create"
        /\ \A q \in Reqs : req[q].b # b
        /\ AdminArrives(r, b, page, on, role)
  \/ \E on \in {ann, joe} : ~Busy({"sync"}) /\ SyncFires(r, on)

FactorNext == \E r \in Reqs :
  \/ Enter(r, b1, root)
  \/ \E page \in Factors \cup {"role"} : AdminArrives(r, b1, page, ann, "viewer")
  \/ AllIdle /\ LoginArrives(r, b2, "login", ann, TRUE)
  \/ ~Busy({"mfa"}) /\ (users[ann].method = "email" => ann \in otp) /\ MfaArrives(r, b2, TRUE)

FewForms == {f \in Forms : f.kind \in {"network", "web"} /\ (f.external => f.mode = "web")
                            /\ (f.kind = "web" => f.mode \in {"safe", "aggressive"})}

ScanNext == \E r \in Reqs :
  \/ \E u \in {root, ann} : Enter(r, b1, u)
  \/ rows = {} /\ (AcceptArrives(r, b1) \/ Refresh(r, b1) \/ Logout(r, b1) \/ View(r, b1, TRUE))
  \/ View(r, b1, FALSE)
  \/ Busy(ApiDoors) /\ AdminArrives(r, b1, "delete", ann, "viewer")
  \/ rows = {} /\ ~Busy(Doors) /\ \E door \in Doors, f \in FewForms : LaunchArrives(r, b1, door, f)
  \/ rows = {} /\ ~Busy(Doors) /\ \E me \in {root, ann}, door \in ApiDoors, f \in FewForms : BearerLaunch(r, me, door, f)

\* Bounds: a request is only cut off in the door play, and only where it leaves Redis half written
\* or its browser without an answer; outside that play passwords are right and Redis answers.
Cut(r)        == req[r].at # "idle" /\ req'[r] = Idle /\ req[r].at \notin {"reply", "act", "launch"}
SmoothStep(r) == req'[r].at # "incr" /\ (req[r].at = "clear" => guard' = guard /\ UNCHANGED otp)

\* Bound: a counter whose lock was never set (Redis failed there) stops one past the threshold.
MCNext ==
  /\ UNCHANGED play
  /\ \/ play = "door"   /\ (DoorNext \/ Expiry)
     \/ play = "desk"   /\ DeskNext
     \/ play = "factor" /\ FactorNext
     \/ play = "scan"   /\ (ScanNext \/ (rows = {} /\ TokenStep))
     \/ \E r \in Reqs : Step(r) /\ (Cut(r) => play = "door" /\ req[r].at = "expire")
                                /\ (play # "door" => SmoothStep(r))
                                /\ \A u \in Users : guard'[u].fails <= MaxTries + 1

Sym == Permutations({r1, r2})

MCSpec == MCInit /\ [][MCNext]_<<vars, play>>

=============================================================================
