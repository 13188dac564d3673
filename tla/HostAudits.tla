----------------------------- MODULE HostAudits -----------------------------
(***************************************************************************)
(* The audits of single hosts that run inside a web or API request:        *)
(* databases, SNMP, SMB, LDAP, Telnet, Cisco IOS and ESXi (one row per     *)
(* host), the credentialed sweeps over a list of hosts, and the two SSH    *)
(* audits of the API.                                                      *)
(*                                                                         *)
(* A request works through its hosts in order and, for each, tries its     *)
(* credentials in order.  It catches what a refused connection or password *)
(* raises; anything else (a secret that cannot be decrypted, a database    *)
(* error, a row deleted under it) ends the request where it is.  It never  *)
(* looks at the status of a row, and no task id makes it stoppable.        *)
(***************************************************************************)
EXTENDS Naturals, Sequences

CONSTANTS Requests,    \* requests that audit hosts
          NumHosts,    \* hosts in the list of a request
          UsedDoors,   \* the audits that are requested
          SshKeys,     \* SSH credentials of a zone, in order
          WinrmKeys,   \* its WinRM credentials, in order
          RdpKeys,     \* its RDP credentials, in order
          Clickers     \* bound: web requests that stop or delete a row

Panel == {"db", "snmp", "smb", "ldap", "telnet", "cisco", "esxi"}
Sweep == {"inline", "zone"}
Api   == {"credentialed", "hardening"}
Doors == Panel \cup Sweep \cup Api

Host == 1..NumHosts
Keys == {SshKeys[i] : i \in DOMAIN SshKeys} \cup {WinrmKeys[i] : i \in DOMAIN WinrmKeys}
          \cup {RdpKeys[i] : i \in DOMAIN RdpKeys}
          \cup {"own", "anonymous", "communities"}

ASSUME HostAuditsAssumption ==
  /\ NumHosts \in Nat \ {0}
  /\ UsedDoors \subseteq Doors
  /\ {SshKeys, WinrmKeys, RdpKeys} \subseteq Seq(Keys)

Final  == {"completed", "failed", "cancelled"}
Stored == Final \cup {"pending", "running"}
Row    == Stored \cup {"none", "deleted"}

VARIABLES
  door,      \* request: which audit it is
  key,       \* request: it was given a credential
  pc,        \* request: where it is
  hand,      \* request: the host in hand
  tries,     \* request: credentials left for the host in hand
  windows,   \* request: a Windows port of the host in hand is open
  verdict,   \* request, host: what the result of the request says of it
  row,       \* request, host: status of the row made for it
  notes,     \* request, host: findings of that row
  clicker,   \* Stop or Delete requests
  logins     \* history, request, host: credentials tried, and how it went

rows == <<row, notes>>
work == <<door, key, pc, hand, tries, windows, verdict, logins>>
vars == <<rows, work, clicker>>

Idle == [do |-> "idle"]
Each(x) == [r \in Requests |-> [h \in Host |-> x]]

Init ==
  /\ door \in [Requests -> UsedDoors]
  /\ key = [r \in Requests |-> FALSE]
  /\ pc = [r \in Requests |-> "idle"]
  /\ hand = [r \in Requests |-> 1]
  /\ tries = [r \in Requests |-> <<>>]
  /\ windows = [r \in Requests |-> FALSE]
  /\ verdict = Each("none")
  /\ row = Each("none")
  /\ notes = Each({})
  /\ clicker = [q \in Clickers |-> Idle]
  /\ logins = Each(<<>>)

-----------------------------------------------------------------------------
(* What each audit tries on a host.                                        *)

\* A database, a Cisco or an API audit has one credential; SMB, LDAP and
\* Telnet look at the host without one when none was chosen.
DbKeys          == <<"own">>
CiscoKeys       == <<"own">>
CredentialedKey == <<"own">>
HardeningKey    == <<"own">>
SnmpKeys        == <<"communities">>
EsxiKeys        == <<"anonymous">>
SmbKeys(given)    == IF given THEN <<"own">> ELSE <<"anonymous">>
LdapKeys(given)   == IF given THEN <<"own">> ELSE <<"anonymous">>
TelnetKeys(given) == IF given THEN <<"own">> ELSE <<"anonymous">>

\* A sweep goes by the open ports: SSH first, WinRM only after it.
InlineKeys(ssh, win) ==
  (IF ssh THEN <<"own">> ELSE <<>>) \o (IF win THEN <<"own">> ELSE <<>>)

\* Mutant: WinRM credentials are tried first.
ZoneKeysSwapped(ssh, win) ==
  (IF win THEN WinrmKeys \o RdpKeys ELSE <<>>) \o (IF ssh THEN SshKeys ELSE <<>>)

\* _winrm_priority puts the WinRM credentials before the RDP ones.
ZoneKeys(ssh, win) ==
  (IF ssh THEN SshKeys ELSE <<>>) \o (IF win THEN WinrmKeys \o RdpKeys ELSE <<>>)

KeysFor(d, given, ssh, win) ==
  CASE d = "db" -> DbKeys
    [] d = "snmp" -> SnmpKeys
    [] d = "smb" -> SmbKeys(given)
    [] d = "ldap" -> LdapKeys(given)
    [] d = "telnet" -> TelnetKeys(given)
    [] d = "cisco" -> CiscoKeys
    [] d = "esxi" -> EsxiKeys
    [] d = "credentialed" -> CredentialedKey
    [] d = "hardening" -> HardeningKey
    [] d = "inline" -> InlineKeys(ssh, win)
    [] d = "zone" -> ZoneKeys(ssh, win)

-----------------------------------------------------------------------------
(* The forms.  "chosen" is the credential picked by hand: none, one of the *)
(* right type or one of another; inZone: a credential zone has one of the  *)
(* right type.                                                             *)

Choice == {"none", "right", "wrong"}

\* _resolve_audit_credential refuses a wrong choice; the database form falls
\* back on the zones instead.
Resolved(chosen, inZone) == chosen = "right" \/ (chosen = "none" /\ inZone)

DbForm(chosen, inZone)     == IF chosen = "right" \/ inZone THEN {TRUE} ELSE {}
SmbForm(chosen, inZone)    == IF chosen = "wrong" THEN {} ELSE {Resolved(chosen, inZone)}
LdapForm(chosen, inZone)   == IF chosen = "wrong" THEN {} ELSE {Resolved(chosen, inZone)}
TelnetForm(chosen, inZone) == IF chosen = "wrong" THEN {} ELSE {Resolved(chosen, inZone)}
CiscoForm(chosen, inZone)  == IF Resolved(chosen, inZone) THEN {TRUE} ELSE {}
SnmpForm == {FALSE}
EsxiForm == {FALSE}
\* A user name and a password; a credential zone that is not empty.
InlineForm == {TRUE}
ZoneForm   == {TRUE}

\* Whether the audit is given a credential; empty when the form is refused.
Form(d, chosen, inZone) ==
  CASE d = "db" -> DbForm(chosen, inZone)
    [] d = "snmp" -> SnmpForm
    [] d = "smb" -> SmbForm(chosen, inZone)
    [] d = "ldap" -> LdapForm(chosen, inZone)
    [] d = "telnet" -> TelnetForm(chosen, inZone)
    [] d = "cisco" -> CiscoForm(chosen, inZone)
    [] d = "esxi" -> EsxiForm
    [] d = "inline" -> InlineForm
    [] d = "zone" -> ZoneForm
    [] d \in Api -> {TRUE}

-----------------------------------------------------------------------------
(* The request.                                                            *)

Goto(r, where) == pc' = [pc EXCEPT ![r] = where]
H(r) == hand[r]
RowOf(r) == row[r][H(r)]

\* An API request audits one host.
LastHost(r) == IF door[r] \in Api THEN 1 ELSE NumHosts

\* The result names the host and the next one is taken.
Settle(r, what) ==
  /\ verdict' = [verdict EXCEPT ![r][H(r)] = what]
  /\ hand' = [hand EXCEPT ![r] = @ + 1]
  /\ tries' = [tries EXCEPT ![r] = <<>>]
  /\ windows' = [windows EXCEPT ![r] = FALSE]
  /\ Goto(r, IF H(r) = LastHost(r) THEN "done" ELSE "host")

\* Writes to a row that was deleted raise: no row to update, or a finding
\* without its scan.
Gone(r) == RowOf(r) = "deleted"

\* Mutant: a row that was deleted is written again.
SetRowRevives(r, status) == row' = [row EXCEPT ![r][H(r)] = status]

SetRow(r, status) ==
  row' = [row EXCEPT ![r][H(r)] = IF @ = "deleted" THEN @ ELSE status]

Submit(r) ==
  /\ pc[r] = "idle"
  /\ \E chosen \in Choice, inZone \in BOOLEAN :
       \E given \in Form(door[r], chosen, inZone) : key' = [key EXCEPT ![r] = given]
  /\ Goto(r, "host")
  /\ UNCHANGED <<door, hand, tries, windows, verdict, logins, rows, clicker>>

\* A sweep passes over a host that is out of scope; the API answers 403.
OutOfScope(r) ==
  /\ pc[r] = "host" /\ door[r] \notin Panel
  /\ Settle(r, "skipped")
  /\ UNCHANGED <<door, key, logins, rows, clicker>>

\* create_scan: a panel makes its row before it looks at the scope.
Create(r) ==
  /\ pc[r] = "host"
  /\ row' = [row EXCEPT ![r][H(r)] = "pending"]
  /\ Goto(r, IF door[r] \in Panel THEN "scope" ELSE "begin")
  /\ UNCHANGED <<door, key, hand, tries, windows, verdict, logins, notes, clicker>>

\* create_finding, which raises when the scan is gone.
Note(r, what, where) ==
  /\ notes' = [notes EXCEPT ![r][H(r)] = IF Gone(r) THEN {} ELSE @ \cup {what}]
  /\ Goto(r, IF Gone(r) THEN "cut" ELSE where)

\* Mutant: a host that is out of scope is submitted again.
DeniedRetries(r) ==
  /\ pc[r] = "scope"
  /\ Note(r, "out of scope", "host")
  /\ UNCHANGED <<door, key, hand, tries, windows, verdict, logins, row, clicker>>

Denied(r) ==
  /\ pc[r] = "scope"
  /\ Note(r, "out of scope", "fail")
  /\ UNCHANGED <<door, key, hand, tries, windows, verdict, logins, row, clicker>>

Allowed(r) ==
  /\ pc[r] = "scope"
  /\ Goto(r, "begin")
  /\ UNCHANGED <<door, key, hand, tries, windows, verdict, logins, rows, clicker>>

Begin(r) ==
  /\ pc[r] = "begin"
  /\ SetRow(r, "running")
  /\ \E ssh, win \in BOOLEAN :
       /\ door[r] \notin Sweep => ~ssh /\ ~win
       /\ tries' = [tries EXCEPT ![r] = KeysFor(door[r], key[r], ssh, win)]
       /\ windows' = [windows EXCEPT ![r] = win]
  /\ Goto(r, IF Gone(r) THEN "cut" ELSE "try")
  /\ UNCHANGED <<door, key, hand, verdict, logins, notes, clicker>>

Login(r, result) ==
  /\ pc[r] = "try" /\ tries[r] # <<>>
  /\ tries' = [tries EXCEPT ![r] = Tail(@)]
  /\ logins' = [logins EXCEPT ![r][H(r)] = Append(@, <<Head(tries[r]), result>>)]

Works(r) ==
  /\ Login(r, "ok")
  /\ Goto(r, "store")
  /\ UNCHANGED <<door, key, hand, windows, verdict, rows, clicker>>

\* The connection or the credential is refused: the exception is caught.
Refused(r) ==
  /\ Login(r, "refused")
  /\ UNCHANGED <<door, key, hand, windows, verdict, pc, rows, clicker>>

\* Nothing worked.  A panel says why in a finding; a zone sweep reports a
\* host that answers on a Windows port as reachable, and completes it.
NoneWorked(r) ==
  /\ pc[r] = "try" /\ tries[r] = <<>>
  /\ IF door[r] \in Panel THEN Note(r, "no access", "fail")
     ELSE IF door[r] = "zone" /\ windows[r] THEN Note(r, "reachable", "complete")
     ELSE Goto(r, "fail") /\ UNCHANGED notes
  /\ UNCHANGED <<door, key, hand, tries, windows, verdict, logins, row, clicker>>

\* The inventory, the findings and the compliance results; the hardening
\* audit writes only what it finds.
Store(r) ==
  /\ pc[r] = "store"
  /\ \/ Note(r, "inventory", "complete")
     \/ door[r] = "hardening" /\ Goto(r, "complete") /\ UNCHANGED notes
  /\ UNCHANGED <<door, key, hand, tries, windows, verdict, logins, row, clicker>>

\* notify_if_critical, then the status, over a Stop as well.
Complete(r) ==
  /\ pc[r] = "complete"
  /\ SetRow(r, "completed")
  /\ IF Gone(r)
       THEN Goto(r, "cut") /\ UNCHANGED <<hand, tries, windows, verdict>>
       ELSE Settle(r, IF "reachable" \in notes[r][H(r)] THEN "reachable" ELSE "matched")
  /\ UNCHANGED <<door, key, logins, notes, clicker>>

\* Mutant: the status of a host that failed is not written.
FailForgets(r) ==
  /\ pc[r] = "fail"
  /\ Settle(r, "failed")
  /\ UNCHANGED <<door, key, logins, rows, clicker>>

Fail(r) ==
  /\ pc[r] = "fail"
  /\ SetRow(r, "failed")
  /\ IF Gone(r)
       THEN Goto(r, "cut") /\ UNCHANGED <<hand, tries, windows, verdict>>
       ELSE Settle(r, "failed")
  /\ UNCHANGED <<door, key, logins, notes, clicker>>

Working == {"host", "scope", "begin", "try", "store", "complete", "fail"}

\* An exception nobody catches, or the web process is lost.
Cut(r) ==
  /\ pc[r] \in Working
  /\ Goto(r, "cut")
  /\ UNCHANGED <<door, key, hand, tries, windows, verdict, logins, rows, clicker>>

-----------------------------------------------------------------------------
(* The Stop and Delete buttons: no audit has a task id.                    *)

AskStop(q, r, h) ==
  /\ clicker[q] = Idle /\ row[r][h] \in {"pending", "running"}
  /\ clicker' = [clicker EXCEPT ![q] = [do |-> "stop", r |-> r, h |-> h]]
  /\ UNCHANGED <<rows, work>>

Stop(q) ==
  /\ clicker[q].do = "stop"
  /\ row' = [row EXCEPT ![clicker[q].r][clicker[q].h] =
               IF @ = "deleted" THEN @ ELSE "cancelled"]
  /\ clicker' = [clicker EXCEPT ![q] = [do |-> "done"]]
  /\ UNCHANGED <<notes, work>>

Delete(q, r, h) ==
  /\ clicker[q] = Idle /\ row[r][h] \in Stored
  /\ row' = [row EXCEPT ![r][h] = "deleted"]
  /\ notes' = [notes EXCEPT ![r][h] = {}]
  /\ clicker' = [clicker EXCEPT ![q] = [do |-> "done"]]
  /\ UNCHANGED work

-----------------------------------------------------------------------------

Step(r) ==
  \/ Submit(r) \/ OutOfScope(r) \/ Create(r) \/ Denied(r) \/ Allowed(r) \/ Begin(r)
  \/ Works(r) \/ Refused(r) \/ NoneWorked(r) \/ Store(r) \/ Complete(r) \/ Fail(r)
  \/ Cut(r)

Click(q) ==
  \/ Stop(q)
  \/ \E r \in Requests, h \in Host : AskStop(q, r, h) \/ Delete(q, r, h)

Next == (\E r \in Requests : Step(r)) \/ (\E q \in Clickers : Click(q))

\* Every call a request makes has a timeout.
Fairness == \A r \in Requests : WF_vars(Step(r))

Spec == Init /\ [][Next]_vars /\ Fairness

-----------------------------------------------------------------------------
(* Properties.                                                             *)

TypeOK ==
  /\ door \in [Requests -> Doors]
  /\ key \in [Requests -> BOOLEAN]
  /\ pc \in [Requests -> Working \cup {"idle", "done", "cut"}]
  /\ hand \in [Requests -> 1..(NumHosts + 1)]
  /\ tries \in [Requests -> Seq(Keys)]
  /\ windows \in [Requests -> BOOLEAN]
  /\ verdict \in [Requests -> [Host -> {"none", "skipped", "failed", "matched", "reachable"}]]
  /\ row \in [Requests -> [Host -> Row]]
  /\ notes \in [Requests -> [Host -> SUBSET {"out of scope", "no access", "reachable", "inventory"}]]
  /\ clicker \in [Clickers -> [do : {"idle", "done"}]
                    \cup [do : {"stop"}, r : Requests, h : Host]]
  /\ logins \in [Requests -> [Host -> Seq(Keys \X {"ok", "refused"})]]

\* Only the host in hand can be left unsettled: those before it have come to
\* rest, those after it have no row yet.  A request that is cut leaves one
\* row "running" or "pending" at most, and never starts the hosts after it.
OneUnsettled ==
  \A r \in Requests, h \in Host :
    /\ h < hand[r] => row[r][h] \notin {"pending", "running"}
    /\ h > hand[r] => row[r][h] = "none" /\ logins[r][h] = <<>>

\* What the result tells the user of a host agrees with the row it leaves,
\* whatever was stopped or deleted in between: "matched" needs a credential
\* that worked, "failed" that none did.
VerdictTrue ==
  \A r \in Requests, h \in Host :
    LET worked == \E i \in DOMAIN logins[r][h] : logins[r][h][i][2] = "ok" IN
    /\ verdict[r][h] \in {"matched", "reachable"} => row[r][h] \in {"completed", "cancelled", "deleted"}
    /\ verdict[r][h] = "failed" => row[r][h] \in {"failed", "cancelled", "deleted"}
    /\ verdict[r][h] = "skipped" => row[r][h] = "none"
    /\ verdict[r][h] = "matched" <=> (worked /\ h < hand[r])

\* A completed audit, except that of the hardening endpoint, has findings,
\* and so has every failed panel audit: the user is told why.
Explained ==
  \A r \in Requests, h \in Host :
    /\ row[r][h] = "completed" /\ door[r] # "hardening" => notes[r][h] # {}
    /\ row[r][h] = "failed" /\ door[r] \in Panel => notes[r][h] # {}

\* Rows, findings, the result and the credentials tried fit together at every
\* point of a request, with two users pressing Stop or Delete beside it.
DoorInv == TypeOK /\ OneUnsettled /\ VerdictTrue /\ Explained

\* No login follows one that worked, and a Windows credential is only used
\* after every SSH credential has been refused (a host whose account is locked
\* by failed logins has at most one per credential).
LoginsInOrder ==
  \A r \in Requests, h \in Host :
    LET seq == logins[r][h] IN
    /\ \A i, j \in DOMAIN seq : i < j => seq[i][2] = "refused"
    /\ door[r] = "zone" =>
         /\ \A i, j \in DOMAIN seq : i # j => seq[i][1] # seq[j][1]
         /\ \A i, j \in DOMAIN seq, k \in DOMAIN SshKeys :
              i < j /\ seq[j][1] = SshKeys[k] =>
                \E l \in 1..k : l < k /\ seq[i][1] = SshKeys[l]

\* The row of a host is the row of ScanRow.
Life(r, h) == INSTANCE ScanRow WITH
  row <- IF row[r][h] = "none" THEN "pending" ELSE row[r][h]

RowLife ==
  [][\A r \in Requests, h \in Host :
       \/ row'[r][h] = row[r][h]
       \/ row[r][h] = "none" /\ row'[r][h] = "pending"
       \/ Life(r, h)!Next]_row

\* Every request ends, with every host settled or cut off.
EveryHostAnswered ==
  \A r \in Requests : <>(pc[r] = "cut" \/ \A h \in 1..LastHost(r) : verdict[r][h] # "none")

=============================================================================
