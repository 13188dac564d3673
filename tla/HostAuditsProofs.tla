-------------------------- MODULE HostAuditsProofs --------------------------
(***************************************************************************)
(* What an audit request leaves behind, for any number of requests, hosts, *)
(* credentials, Stops and Deletes: the hosts before the one in hand are    *)
(* settled and say what the result says, those after it are untouched.     *)
(***************************************************************************)
EXTENDS HostAudits, SequenceTheorems, TLAPS

Worked(r, h) == \E i \in DOMAIN logins[r][h] : logins[r][h][i][2] = "ok"

\* A host the request has not reached.
Ahead(r, h) ==
  row[r][h] = "none" /\ notes[r][h] = {} /\ logins[r][h] = <<>> /\ verdict[r][h] = "none"

Begun == {"running", "cancelled", "deleted"}

\* The host in hand, by the place the request is at.
Here(r, h) ==
  /\ verdict[r][h] = "none"
  /\ row[r][h] \notin {"completed", "failed"}
  /\ pc[r] \in {"idle", "host"} => Ahead(r, h)
  /\ pc[r] \in {"scope", "begin"} =>
       row[r][h] \in {"pending", "cancelled", "deleted"} /\ notes[r][h] = {} /\ logins[r][h] = <<>>
  /\ pc[r] = "try" => row[r][h] \in Begun /\ notes[r][h] = {} /\ ~Worked(r, h)
  /\ pc[r] = "store" => row[r][h] \in Begun /\ notes[r][h] = {} /\ Worked(r, h)
  /\ pc[r] = "complete" =>
       /\ row[r][h] \in Begun
       /\ row[r][h] # "deleted" => (Worked(r, h) <=> "reachable" \notin notes[r][h])
       /\ row[r][h] # "deleted" /\ door[r] # "hardening" => notes[r][h] # {}
  /\ pc[r] = "fail" =>
       /\ row[r][h] \in Begun \cup {"pending"} /\ ~Worked(r, h)
       /\ row[r][h] # "deleted" /\ door[r] \in Panel => notes[r][h] # {}

\* A host that is settled.
Past(r, h) ==
  /\ row[r][h] \notin {"pending", "running"}
  /\ verdict[r][h] \in {"skipped", "failed", "matched", "reachable"}
  /\ verdict[r][h] \in {"matched", "reachable"} => row[r][h] \in {"completed", "cancelled", "deleted"}
  /\ verdict[r][h] = "failed" => row[r][h] \in {"failed", "cancelled", "deleted"}
  /\ verdict[r][h] = "skipped" => row[r][h] = "none"
  /\ verdict[r][h] = "matched" <=> Worked(r, h)
  /\ row[r][h] = "completed" /\ door[r] # "hardening" => notes[r][h] # {}
  /\ row[r][h] = "failed" /\ door[r] \in Panel => notes[r][h] # {}

Point(r, h) ==
  /\ h < hand[r] => Past(r, h)
  /\ h = hand[r] => Here(r, h)
  /\ h > hand[r] => Ahead(r, h)

AuditInv ==
  /\ TypeOK
  /\ \A r \in Requests : pc[r] # "done" => hand[r] <= LastHost(r)
  /\ \A q \in Clickers : clicker[q].do = "stop" => row[clicker[q].r][clicker[q].h] # "none"
  /\ \A r \in Requests, h \in Host : Point(r, h)

AnyVerdict == {"none", "skipped", "failed", "matched", "reachable"}
AnyNote    == {"out of scope", "no access", "reachable", "inventory"}
Login1     == Keys \X {"ok", "refused"}
Place      == Working \cup {"idle", "done", "cut"}

\* The credentials of an audit are a sequence of keys.
LEMMA KeysType ==
  ASSUME NEW d \in Doors, NEW given \in BOOLEAN, NEW ssh \in BOOLEAN, NEW win \in BOOLEAN
  PROVE  KeysFor(d, given, ssh, win) \in Seq(Keys)
<1>1. {"own", "anonymous", "communities"} \subseteq Keys
  BY DEF Keys
<1>2. <<>> \in Seq(Keys) /\ \A k \in Keys : <<k>> \in Seq(Keys)
  OBVIOUS
<1>3. \A a, b \in Seq(Keys) : a \o b \in Seq(Keys)
  OBVIOUS
<1>4. SshKeys \in Seq(Keys) /\ WinrmKeys \in Seq(Keys) /\ RdpKeys \in Seq(Keys)
  BY HostAuditsAssumption
<1>5. ZoneKeys(ssh, win) \in Seq(Keys)
  <2>1. WinrmKeys \o RdpKeys \in Seq(Keys)
    BY <1>3, <1>4
  <2> HIDE DEF Keys
  <2> QED
    BY <1>2, <1>3, <1>4, <2>1 DEF ZoneKeys
<1>6. InlineKeys(ssh, win) \in Seq(Keys)
  BY <1>1, <1>2, <1>3 DEF InlineKeys
<1> QED
  BY <1>1, <1>2, <1>5, <1>6 DEF KeysFor, DbKeys, SnmpKeys, SmbKeys, LdapKeys, TelnetKeys,
     CiscoKeys, EsxiKeys, CredentialedKey, HardeningKey, Doors, Panel, Sweep, Api

\* What the forms hand over is a choice between a credential and none.
LEMMA FormType ==
  ASSUME NEW d \in Doors, NEW c \in Choice, NEW z \in BOOLEAN
  PROVE  Form(d, c, z) \subseteq BOOLEAN
BY DEF Form, DbForm, SmbForm, LdapForm, TelnetForm, CiscoForm, SnmpForm, EsxiForm,
   InlineForm, ZoneForm, Resolved, Doors, Panel, Sweep, Api, Choice

\* Every variable keeps its type.
LEMMA StepType ==
  ASSUME AuditInv, [Next]_vars
  PROVE  TypeOK'
<1> USE DEF AuditInv
<1>h. \A r \in Requests : pc[r] # "done" => hand[r] \in Host /\ hand[r] + 1 \in 1..(NumHosts + 1)
  <2> SUFFICES ASSUME NEW r \in Requests, pc[r] # "done"
               PROVE  hand[r] \in Host /\ hand[r] + 1 \in 1..(NumHosts + 1)
    OBVIOUS
  <2>1. hand[r] \in 1..(NumHosts + 1) /\ hand[r] <= LastHost(r)
    BY DEF TypeOK
  <2>2. NumHosts \in Nat \ {0} /\ LastHost(r) \in {1, NumHosts}
    BY HostAuditsAssumption DEF LastHost
  <2> QED
    BY <2>1, <2>2 DEF Host
<1>n. ASSUME NEW r \in Requests, NEW what \in AnyNote, NEW where \in Working, pc[r] # "done",
             Note(r, what, where)
      PROVE  notes' \in [Requests -> [Host -> SUBSET AnyNote]] /\ pc' \in [Requests -> Place]
  <2>1. notes \in [Requests -> [Host -> SUBSET AnyNote]] /\ pc \in [Requests -> Place]
    BY DEF TypeOK, AnyNote, Place
  <2>2. hand[r] \in Host
    BY <1>n, <1>h
  <2> HIDE DEF AnyNote, AuditInv
  <2>3. notes[r][hand[r]] \in SUBSET AnyNote
    BY <2>1, <2>2
  <2>4. (IF Gone(r) THEN {} ELSE notes[r][hand[r]] \cup {what}) \in SUBSET AnyNote
    BY <2>3
  <2>5. notes' \in [Requests -> [Host -> SUBSET AnyNote]]
    BY <1>n, <2>1, <2>2, <2>4 DEF Note, H
  <2>6. (IF Gone(r) THEN "cut" ELSE where) \in Place
    BY DEF Place
  <2> QED
    BY <1>n, <2>1, <2>5, <2>6 DEF Note, Goto
<1>s. ASSUME NEW r \in Requests, NEW what \in AnyVerdict, pc[r] # "done", Settle(r, what)
      PROVE  /\ verdict' \in [Requests -> [Host -> AnyVerdict]]
             /\ hand' \in [Requests -> 1..(NumHosts + 1)]
             /\ tries' \in [Requests -> Seq(Keys)]
             /\ windows' \in [Requests -> BOOLEAN]
             /\ pc' \in [Requests -> Place]
  <2>1. hand[r] \in Host /\ hand[r] + 1 \in 1..(NumHosts + 1)
    BY <1>s, <1>h
  <2>2. verdict' \in [Requests -> [Host -> AnyVerdict]]
    BY <1>s, <2>1 DEF Settle, H, TypeOK, AnyVerdict
  <2>3. hand' \in [Requests -> 1..(NumHosts + 1)]
    BY <1>s, <2>1 DEF Settle, TypeOK
  <2>4. tries' \in [Requests -> Seq(Keys)] /\ windows' \in [Requests -> BOOLEAN]
    <3>1. <<>> \in Seq(Keys)
      OBVIOUS
    <3> QED
      BY <1>s, <3>1 DEF Settle, TypeOK
  <2>5. pc' \in [Requests -> Place]
    <3>1. (IF H(r) = LastHost(r) THEN "done" ELSE "host") \in Place
      BY DEF Place, Working
    <3> QED
      BY <1>s, <3>1 DEF Settle, Goto, TypeOK, Place
  <2> QED
    BY <2>2, <2>3, <2>4, <2>5
<1>r. ASSUME NEW r \in Requests, NEW status \in Row, pc[r] # "done", SetRow(r, status)
      PROVE  row' \in [Requests -> [Host -> Row]]
  <2>1. hand[r] \in Host
    BY <1>r, <1>h
  <2>2. row \in [Requests -> [Host -> Row]]
    BY DEF TypeOK
  <2>3. PICK v \in Row : row' = [row EXCEPT ![r][hand[r]] = v]
    <3>1. (IF row[r][hand[r]] = "deleted" THEN row[r][hand[r]] ELSE status) \in Row
      BY <2>1, <2>2
    <3> QED
      BY <3>1, <1>r, Zenon DEF SetRow, H
  <2> HIDE DEF AuditInv
  <2> QED
    BY <2>1, <2>2, <2>3
<1>1. CASE UNCHANGED vars
  BY <1>1 DEF TypeOK, vars, rows, work
<1>2. ASSUME NEW r \in Requests, Step(r) PROVE TypeOK'
  <2>1. CASE Submit(r)
    <3>1. key' \in [Requests -> BOOLEAN]
      <4>a. PICK c \in Choice, z \in BOOLEAN :
              \E given \in Form(door[r], c, z) : key' = [key EXCEPT ![r] = given]
        BY <2>1 DEF Submit
      <4>1. PICK g \in Form(door[r], c, z) : key' = [key EXCEPT ![r] = g]
        BY <4>a
      <4>2. g \in BOOLEAN
        BY FormType DEF TypeOK
      <4> QED
        BY <4>1, <4>2 DEF TypeOK
    <3> QED
      BY <3>1, <2>1 DEF Submit, Goto, TypeOK, rows, Working
  <2>2. CASE OutOfScope(r)
    <3>1. pc[r] # "done" /\ Settle(r, "skipped") /\ "skipped" \in AnyVerdict
      BY <2>2 DEF OutOfScope, AnyVerdict
    <3> QED
      BY <3>1, <1>s, <2>2 DEF OutOfScope, TypeOK, rows, AnyVerdict, Place
  <2>3. CASE Create(r)
    BY <2>3, <1>h DEF Create, Goto, TypeOK, Working, H, Row, Stored
  <2>4. CASE Denied(r) \/ Allowed(r)
    <3>1. CASE Denied(r)
      <4>1. pc[r] # "done" /\ Note(r, "out of scope", "fail")
        BY <3>1 DEF Denied
      <4> QED
        BY <4>1, <1>n, <3>1 DEF Denied, TypeOK, AnyNote, Place, Working
    <3>2. CASE Allowed(r)
      BY <3>2 DEF Allowed, Goto, TypeOK, rows, Working
    <3> QED
      BY <2>4, <3>1, <3>2
  <2>5. CASE Begin(r)
    <3>1. PICK ssh \in BOOLEAN, win \in BOOLEAN :
             /\ tries' = [tries EXCEPT ![r] = KeysFor(door[r], key[r], ssh, win)]
             /\ windows' = [windows EXCEPT ![r] = win]
      BY <2>5 DEF Begin
    <3>2. KeysFor(door[r], key[r], ssh, win) \in Seq(Keys)
      BY KeysType DEF TypeOK
    <3>3. tries' \in [Requests -> Seq(Keys)] /\ windows' \in [Requests -> BOOLEAN]
      BY <3>1, <3>2 DEF TypeOK
    <3>4. row' \in [Requests -> [Host -> Row]]
      BY <2>5, <1>h DEF Begin, SetRow, H, TypeOK, Row, Stored, Final
    <3>5. pc' \in [Requests -> Working \cup {"idle", "done", "cut"}]
      BY <2>5 DEF Begin, Goto, TypeOK, Working
    <3> QED
      BY <3>3, <3>4, <3>5, <2>5 DEF Begin, TypeOK
  <2>6. CASE Works(r) \/ Refused(r)
    <3>1. PICK result \in {"ok", "refused"} : Login(r, result)
      BY <2>6 DEF Works, Refused
    <3>2. tries[r] \in Seq(Keys) /\ tries[r] # <<>>
      BY <3>1 DEF Login, TypeOK
    <3>3. Head(tries[r]) \in Keys /\ Tail(tries[r]) \in Seq(Keys)
      BY <3>2
    <3>4. tries' \in [Requests -> Seq(Keys)]
      BY <3>1, <3>3 DEF Login, TypeOK
    <3>5. hand[r] \in Host
      BY <2>6, <1>h DEF Works, Refused, Login
    <3>6. \A s \in Seq(Login1) : Append(s, <<Head(tries[r]), result>>) \in Seq(Login1)
      BY <3>3 DEF Login1
    <3>7. logins' \in [Requests -> [Host -> Seq(Login1)]]
      <4>1. logins \in [Requests -> [Host -> Seq(Login1)]]
        BY DEF TypeOK, Login1
      <4>2. logins' = [logins EXCEPT ![r][hand[r]] = Append(logins[r][hand[r]], <<Head(tries[r]), result>>)]
        BY <3>1 DEF Login, H
      <4> HIDE DEF Login1
      <4> QED
        BY <4>1, <4>2, <3>5, <3>6
    <3>8. pc' \in [Requests -> Working \cup {"idle", "done", "cut"}]
      BY <2>6 DEF Works, Refused, Goto, TypeOK, Working
    <3> QED
      BY <3>4, <3>7, <3>8, <2>6 DEF Works, Refused, TypeOK, rows, Login1
  <2>7. CASE NoneWorked(r)
    <3>1. pc[r] = "try"
      BY <2>7 DEF NoneWorked
    <3>2. CASE Note(r, "no access", "fail") \/ Note(r, "reachable", "complete")
      BY <3>1, <3>2, <1>n, <2>7 DEF NoneWorked, TypeOK, AnyNote, Place, Working
    <3>3. CASE Goto(r, "fail") /\ UNCHANGED notes
      BY <3>3, <2>7 DEF NoneWorked, Goto, TypeOK, Working
    <3> QED
      BY <2>7, <3>2, <3>3 DEF NoneWorked
  <2>8. CASE Store(r)
    <3>1. pc[r] = "store"
      BY <2>8 DEF Store
    <3>2. CASE Note(r, "inventory", "complete")
      BY <3>1, <3>2, <1>n, <2>8 DEF Store, TypeOK, AnyNote, Place, Working
    <3>3. CASE Goto(r, "complete") /\ UNCHANGED notes
      BY <3>3, <2>8 DEF Store, Goto, TypeOK, Working
    <3> QED
      BY <2>8, <3>2, <3>3 DEF Store
  <2>9. CASE Complete(r) \/ Fail(r)
    <3>1. PICK status \in {"completed", "failed"}, what \in {"reachable", "matched", "failed"} :
            /\ pc[r] # "done" /\ SetRow(r, status)
            /\ IF Gone(r)
                 THEN Goto(r, "cut") /\ UNCHANGED <<hand, tries, windows, verdict>>
                 ELSE Settle(r, what)
            /\ UNCHANGED <<door, key, logins, notes, clicker>>
      BY <2>9, Zenon DEF Complete, Fail
    <3>2. row' \in [Requests -> [Host -> Row]]
      BY <3>1, <1>r DEF Row, Stored, Final
    <3>3. CASE Gone(r)
      BY <3>1, <3>2, <3>3 DEF Goto, TypeOK
    <3>4. CASE ~Gone(r)
      BY <3>1, <3>2, <3>4, <1>s DEF TypeOK, AnyVerdict, Place
    <3> QED
      BY <3>3, <3>4
  <2>10. CASE Cut(r)
    BY <2>10 DEF Cut, Goto, TypeOK, Working, rows
  <2> QED
    BY <1>2, <2>1, <2>2, <2>3, <2>4, <2>5, <2>6, <2>7, <2>8, <2>9, <2>10 DEF Step
<1>3. ASSUME NEW q \in Clickers, Click(q) PROVE TypeOK'
  <2>1. CASE Stop(q)
    <3>1. row' \in [Requests -> [Host -> Row]]
      BY <2>1 DEF Stop, TypeOK, Row, Stored, Final
    <3> QED
      BY <3>1, <2>1 DEF Stop, TypeOK, work
  <2>2. ASSUME NEW r \in Requests, NEW h \in Host, AskStop(q, r, h) PROVE TypeOK'
    BY <2>2 DEF AskStop, TypeOK, work, rows
  <2>3. ASSUME NEW r \in Requests, NEW h \in Host, Delete(q, r, h) PROVE TypeOK'
    BY <2>3 DEF Delete, TypeOK, work, Row
  <2> QED
    BY <1>3, <2>1, <2>2, <2>3 DEF Click
<1> QED
  BY <1>1, <1>2, <1>3 DEF Next

-----------------------------------------------------------------------------

\* A host whose row, findings, logins and verdict a step leaves alone.
Same(r, h) ==
  row'[r][h] = row[r][h] /\ notes'[r][h] = notes[r][h] /\ logins'[r][h] = logins[r][h]
    /\ verdict'[r][h] = verdict[r][h]

LEMMA SameWorked == ASSUME NEW r, NEW h, Same(r, h) PROVE Worked(r, h)' <=> Worked(r, h)
BY DEF Same, Worked

LEMMA SamePast ==
  ASSUME NEW r, NEW h, Same(r, h), door' = door, Past(r, h) PROVE Past(r, h)'
BY SameWorked DEF Same, Past

LEMMA SameHere ==
  ASSUME NEW r, NEW h, Same(r, h), door' = door, pc'[r] = pc[r], Here(r, h) PROVE Here(r, h)'
BY SameWorked DEF Same, Here, Ahead

\* The next host is in hand, and nothing has happened to it.
LEMMA NextInHand ==
  ASSUME NEW r, NEW h, Same(r, h), Ahead(r, h), pc'[r] \in {"idle", "host", "done", "cut"}
  PROVE  Here(r, h)'
BY DEF Same, Here, Ahead

\* A login that was refused has not worked; one that worked has.
LEMMA LoginWorked ==
  ASSUME NEW seq \in Seq(Login1), NEW k \in Keys, NEW result \in {"ok", "refused"}
  PROVE  (\E i \in DOMAIN Append(seq, <<k, result>>) : Append(seq, <<k, result>>)[i][2] = "ok")
           <=> (\E i \in DOMAIN seq : seq[i][2] = "ok") \/ result = "ok"
<1> DEFINE new == Append(seq, <<k, result>>)
<1>1. Len(new) = Len(seq) + 1 /\ new[Len(seq) + 1] = <<k, result>>
        /\ \A i \in 1..Len(seq) : new[i] = seq[i]
  BY DEF Login1
<1>2. DOMAIN new = 1..(Len(seq) + 1) /\ DOMAIN seq = 1..Len(seq) /\ Len(seq) \in Nat
  BY <1>1 DEF Login1
<1>3. \A i \in DOMAIN new : i \in DOMAIN seq \/ i = Len(seq) + 1
  BY <1>2
<1>4. <<k, result>>[2] = result
  OBVIOUS
<1> HIDE DEF new
<1> QED
  BY <1>1, <1>2, <1>3, <1>4 DEF new

\* Where an update of a table leaves it as it was.
LEMMA Elsewhere ==
  ASSUME NEW V, NEW f \in [Requests -> [Host -> V]], NEW g, NEW r \in Requests, NEW k \in Host,
         g = f \/ \E x : g = [f EXCEPT ![r][k] = x],
         NEW s \in Requests, NEW h \in Host, s = r => h # k
  PROVE  g[s][h] = f[s][h]
<1>1. CASE g = f
  BY <1>1
<1>2. CASE \E x : g = [f EXCEPT ![r][k] = x]
  <2>1. PICK x : g = [f EXCEPT ![r] = [f[r] EXCEPT ![k] = x]]
    BY <1>2
  <2>2. CASE s = r
    BY <2>1, <2>2
  <2>3. CASE s # r
    BY <2>1, <2>3
  <2> QED
    BY <2>2, <2>3
<1> QED
  BY <1>1, <1>2

\* A step of a request touches nothing but its host in hand.
LEMMA StepFrame ==
  ASSUME AuditInv, NEW r \in Requests, Step(r)
  PROVE  /\ door' = door /\ clicker' = clicker
         /\ hand[r] \in Host /\ pc[r] # "done"
         /\ \A s \in Requests \ {r} : pc'[s] = pc[s] /\ hand'[s] = hand[s]
         /\ \A s \in Requests, h \in Host : (s = r => h # hand[r]) => Same(s, h)
<1>1. door' = door /\ clicker' = clicker
  BY Zenon DEF Step, Submit, OutOfScope, Create, Denied, Allowed, Begin, Works, Refused, NoneWorked,
     Store, Complete, Fail, Cut, rows
<1>2. pc[r] # "done" /\ \A s \in Requests \ {r} : pc'[s] = pc[s] /\ hand'[s] = hand[s]
  BY DEF AuditInv, TypeOK, Step, Submit, OutOfScope, Create, Denied, Allowed, Begin, Works, Refused,
     NoneWorked, Store, Complete, Fail, Cut, rows, Login, Note, Settle, Goto, Working
<1>3. hand[r] \in Host
  <2>1. hand[r] \in 1..(NumHosts + 1) /\ hand[r] <= LastHost(r)
    BY <1>2 DEF AuditInv, TypeOK
  <2>2. NumHosts \in Nat \ {0} /\ LastHost(r) \in {1, NumHosts}
    BY HostAuditsAssumption DEF LastHost
  <2> QED
    BY <2>1, <2>2 DEF Host
<1>4. ASSUME NEW s \in Requests, NEW h \in Host, s = r => h # hand[r]
      PROVE  Same(s, h)
  <2>1. row'[s][h] = row[s][h]
    <3>1. row' = row \/ \E x : row' = [row EXCEPT ![r][hand[r]] = x]
      BY Zenon DEF SetRow, H, Step, Submit, OutOfScope, Create, Denied, Allowed, Begin, Works, Refused, NoneWorked,
         Store, Complete, Fail, Cut, rows
    <3>2. row \in [Requests -> [Host -> Row]]
      BY DEF AuditInv, TypeOK, AnyNote, AnyVerdict, Login1
    <3> HIDE DEF AuditInv, Login1
    <3> QED
      BY <3>1, <3>2, <1>4, <1>3, Elsewhere
  <2>2. notes'[s][h] = notes[s][h]
    <3>1. notes' = notes \/ \E x : notes' = [notes EXCEPT ![r][hand[r]] = x]
      BY Zenon DEF Note, H, Step, Submit, OutOfScope, Create, Denied, Allowed, Begin, Works, Refused, NoneWorked,
         Store, Complete, Fail, Cut, rows
    <3>2. notes \in [Requests -> [Host -> SUBSET AnyNote]]
      BY DEF AuditInv, TypeOK, AnyNote, AnyVerdict, Login1
    <3> HIDE DEF AuditInv, Login1
    <3> QED
      BY <3>1, <3>2, <1>4, <1>3, Elsewhere
  <2>3. logins'[s][h] = logins[s][h]
    <3>1. logins' = logins \/ \E x : logins' = [logins EXCEPT ![r][hand[r]] = x]
      BY Zenon DEF Login, H, Step, Submit, OutOfScope, Create, Denied, Allowed, Begin, Works, Refused, NoneWorked,
         Store, Complete, Fail, Cut, rows
    <3>2. logins \in [Requests -> [Host -> Seq(Login1)]]
      BY DEF AuditInv, TypeOK, AnyNote, AnyVerdict, Login1
    <3> HIDE DEF AuditInv, Login1
    <3> QED
      BY <3>1, <3>2, <1>4, <1>3, Elsewhere
  <2>4. verdict'[s][h] = verdict[s][h]
    <3>1. verdict' = verdict \/ \E x : verdict' = [verdict EXCEPT ![r][hand[r]] = x]
      BY Zenon DEF Settle, H, Step, Submit, OutOfScope, Create, Denied, Allowed, Begin, Works, Refused, NoneWorked,
         Store, Complete, Fail, Cut, rows
    <3>2. verdict \in [Requests -> [Host -> AnyVerdict]]
      BY DEF AuditInv, TypeOK, AnyNote, AnyVerdict, Login1
    <3> HIDE DEF AuditInv, Login1
    <3> QED
      BY <3>1, <3>2, <1>4, <1>3, Elsewhere
  <2> QED
    BY <2>1, <2>2, <2>3, <2>4 DEF Same
<1> QED
  BY <1>1, <1>2, <1>3, <1>4

\* The host in hand is where a step leaves it: still in hand, or settled.
LEMMA StepHand ==
  ASSUME AuditInv, TypeOK', NEW r \in Requests, Step(r), NEW h \in Host, h = hand[r]
  PROVE  \/ hand'[r] = h /\ pc'[r] # "done" /\ Here(r, h)'
         \/ hand'[r] = h + 1 /\ pc'[r] \in {"host", "done"} /\ Past(r, h)'
              /\ (pc'[r] = "host" => h # LastHost(r))
<1>1. /\ h \in Host /\ pc[r] # "done" /\ door' = door
      /\ Here(r, h) /\ pc[r] \in Place
  <2>1. h \in Host /\ pc[r] # "done" /\ door' = door
    BY StepFrame
  <2>2. h = hand[r] /\ Point(r, h)
    BY <2>1 DEF AuditInv
  <2> QED
    BY <2>1, <2>2 DEF Point, AuditInv, TypeOK, Place
<1>2. /\ row \in [Requests -> [Host -> Row]] /\ notes \in [Requests -> [Host -> SUBSET AnyNote]]
      /\ logins \in [Requests -> [Host -> Seq(Login1)]]
      /\ verdict \in [Requests -> [Host -> AnyVerdict]]
      /\ pc \in [Requests -> Place] /\ hand \in [Requests -> 1..(NumHosts + 1)]
      /\ tries \in [Requests -> Seq(Keys)]
  BY DEF AuditInv, TypeOK, AnyNote, AnyVerdict, Login1, Place
<1> HIDE DEF AuditInv
<1>h. h = hand[r] /\ h \in Host
  OBVIOUS
\* The ways in which an action treats the host in hand.
<1>n. ASSUME NEW what, NEW where, Note(r, what, where)
      PROVE  \/ row[r][h] = "deleted" /\ pc'[r] = "cut"
             \/ /\ row[r][h] # "deleted" /\ pc'[r] = where
                /\ \A x : x \in notes'[r][h] <=> x \in notes[r][h] \/ x = what
  <2>1. pc'[r] = IF row[r][h] = "deleted" THEN "cut" ELSE where
    BY <1>n, <1>1, <1>2, <1>h DEF Note, Goto, Gone, RowOf, H
  <2>2. notes'[r][h] = IF row[r][h] = "deleted" THEN {} ELSE notes[r][h] \cup {what}
    BY <1>n, <1>1, <1>2, <1>h DEF Note, Gone, RowOf, H
  <2> QED
    BY <2>1, <2>2
<1>s. ASSUME NEW what, Settle(r, what)
      PROVE  /\ verdict'[r][h] = what /\ hand'[r] = h + 1
             /\ pc'[r] = IF h = LastHost(r) THEN "done" ELSE "host"
  BY <1>s, <1>1, <1>2, <1>h DEF Settle, Goto, H
<1>r. ASSUME NEW status, SetRow(r, status)
      PROVE  row'[r][h] = IF row[r][h] = "deleted" THEN "deleted" ELSE status
  BY <1>r, <1>1, <1>2, <1>h DEF SetRow, H
<1>g. ASSUME NEW where, Goto(r, where) PROVE pc'[r] = where
  BY <1>g, <1>2 DEF Goto
<1>w. logins' = logins => (Worked(r, h)' <=> Worked(r, h))
  BY <1>h DEF Worked
<1> USE DEF Row, Stored, Final
<1>3. CASE Submit(r)
  BY <1>3, <1>1, <1>g, <1>h DEF Submit, Here, Ahead, rows, Working
<1>4. CASE OutOfScope(r)
  BY <1>4, <1>1, <1>s, <1>w, <1>h DEF OutOfScope, Here, Ahead, Past, rows, Worked
<1>5. CASE Create(r)
  <2>1. row'[r][h] = "pending" /\ pc'[r] \in {"scope", "begin"}
    BY <1>5, <1>1, <1>2, <1>g, <1>h DEF Create, H
  <2> QED
    BY <2>1, <1>5, <1>1, <1>h DEF Create, Here, Ahead
<1>6. CASE Denied(r)
  <2>1. pc[r] = "scope" /\ UNCHANGED <<hand, verdict, logins, row>> /\ Note(r, "out of scope", "fail")
    BY <1>6 DEF Denied
  <2>2. row[r][h] \in {"pending", "cancelled", "deleted"} /\ ~Worked(r, h) /\ verdict[r][h] = "none"
    <3>1. logins[r][h] = <<>>
      BY <2>1, <1>1 DEF Here
    <3>2. ~Worked(r, h)
      BY <3>1 DEF Worked
    <3> QED
      BY <3>2, <2>1, <1>1 DEF Here
  <2>3. CASE row[r][h] = "deleted" /\ pc'[r] = "cut"
    BY <2>1, <2>2, <2>3, <1>h DEF Here
  <2>4. CASE pc'[r] = "fail" /\ "out of scope" \in notes'[r][h]
    BY <2>1, <2>2, <2>4, <1>w, <1>h DEF Here, Begun
  <2> QED
    BY <2>1, <2>3, <2>4, <1>n
<1>7. CASE Allowed(r)
  BY <1>7, <1>1, <1>g, <1>h DEF Allowed, Here, Ahead, rows
<1>8. CASE Begin(r)
  <2>1. row'[r][h] = (IF row[r][h] = "deleted" THEN "deleted" ELSE "running")
          /\ pc'[r] \in {"cut", "try"} /\ pc[r] = "begin"
          /\ UNCHANGED <<hand, verdict, logins, notes>>
    BY <1>8, <1>r, <1>g DEF Begin
  <2> QED
    BY <2>1, <1>1, <1>w, <1>h DEF Here, Ahead, Begun, Worked
<1>9. CASE Works(r) \/ Refused(r)
  <2>1. PICK result \in {"ok", "refused"} :
          /\ Login(r, result)
          /\ result = "ok" <=> Works(r)
          /\ result = "ok" => pc'[r] = "store"
          /\ result = "refused" => pc' = pc
          /\ UNCHANGED <<hand, verdict, rows>>
    <3>1. CASE Works(r)
      BY <3>1, <1>g DEF Works
    <3>2. CASE ~Works(r)
      BY <3>2, <1>9 DEF Refused
    <3> QED
      BY <3>1, <3>2
  <2>2. pc[r] = "try" /\ tries[r] # <<>> /\ Head(tries[r]) \in Keys
    BY <2>1, <1>2 DEF Login
  <2>3. logins'[r][h] = Append(logins[r][h], <<Head(tries[r]), result>>)
    BY <2>1, <1>1, <1>2, <1>h DEF Login, H
  <2>4. Worked(r, h)' <=> result = "ok"
    <3>1. ~Worked(r, h) /\ logins[r][h] \in Seq(Login1)
      BY <2>2, <1>1, <1>2 DEF Here
    <3> HIDE DEF Login1
    <3> QED
      <4>1. (\E i \in DOMAIN logins'[r][h] : logins'[r][h][i][2] = "ok")
              <=> (\E i \in DOMAIN logins[r][h] : logins[r][h][i][2] = "ok") \/ result = "ok"
        <5> DEFINE k == Head(tries[r])
                   new == Append(logins[r][h], <<k, result>>)
        <5>1. k \in Keys /\ logins'[r][h] = new
          BY <2>2, <2>3
        <5> HIDE DEF k
        <5>2. (\E i \in DOMAIN new : new[i][2] = "ok")
                <=> (\E i \in DOMAIN logins[r][h] : logins[r][h][i][2] = "ok") \/ result = "ok"
          BY <3>1, <5>1, LoginWorked
        <5> QED
          BY <5>1, <5>2
      <4> QED
        BY <4>1, <3>1, <1>h DEF Worked
  <2> QED
    BY <2>1, <2>2, <2>4, <1>1, <1>h DEF Here, rows, Ahead
<1>10. CASE NoneWorked(r)
  <2>1. pc[r] = "try" /\ UNCHANGED <<hand, verdict, logins, row>>
    BY <1>10 DEF NoneWorked
  <2>2. \/ door[r] \in Panel /\ Note(r, "no access", "fail")
        \/ door[r] \notin Panel /\ Note(r, "reachable", "complete")
        \/ door[r] \notin Panel /\ pc'[r] = "fail" /\ UNCHANGED notes
    BY <1>10, <1>g DEF NoneWorked
  <2>3. row[r][h] \in Begun /\ notes[r][h] = {} /\ ~Worked(r, h) /\ verdict[r][h] = "none"
    BY <2>1, <1>1 DEF Here
  <2>4. CASE row[r][h] = "deleted" /\ pc'[r] = "cut"
    BY <2>1, <2>3, <2>4, <1>h DEF Here
  <2>5. CASE pc'[r] = "fail" /\ (door[r] \in Panel => "no access" \in notes'[r][h])
    BY <2>1, <2>3, <2>5, <1>1, <1>w, <1>h DEF Here, Begun
  <2>6. CASE pc'[r] = "complete" /\ "reachable" \in notes'[r][h]
    BY <2>1, <2>3, <2>6, <1>w, <1>h DEF Here, Begun
  <2> QED
    BY <2>2, <2>4, <2>5, <2>6, <1>n
<1>11. CASE Store(r)
  <2>1. pc[r] = "store" /\ UNCHANGED <<hand, verdict, logins, row>>
    BY <1>11 DEF Store
  <2>2. \/ Note(r, "inventory", "complete")
        \/ door[r] = "hardening" /\ pc'[r] = "complete" /\ UNCHANGED notes
    BY <1>11, <1>g DEF Store
  <2>3. row[r][h] \in Begun /\ notes[r][h] = {} /\ Worked(r, h) /\ verdict[r][h] = "none"
    BY <2>1, <1>1 DEF Here
  <2>4. CASE row[r][h] = "deleted" /\ pc'[r] = "cut"
    BY <2>1, <2>3, <2>4, <1>h DEF Here
  <2>5. CASE /\ pc'[r] = "complete" /\ "reachable" \notin notes'[r][h]
             /\ door[r] # "hardening" => notes'[r][h] # {}
    BY <2>1, <2>3, <2>5, <1>1, <1>w, <1>h DEF Here, Begun
  <2>6. ASSUME Note(r, "inventory", "complete"), row[r][h] # "deleted"
        PROVE  /\ pc'[r] = "complete" /\ "reachable" \notin notes'[r][h]
               /\ "inventory" \in notes'[r][h]
    BY <2>6, <2>3, <1>n
  <2> QED
    BY <2>2, <2>3, <2>4, <2>5, <2>6, <1>n
<1>12. CASE Complete(r)
  <2>1. pc[r] = "complete" /\ UNCHANGED <<logins, notes>> /\ SetRow(r, "completed")
    BY <1>12 DEF Complete
  <2>2. CASE row[r][h] = "deleted"
    <3>1. pc'[r] = "cut" /\ UNCHANGED <<hand, verdict>>
      BY <2>2, <1>12, <1>g, <1>h DEF Complete, Gone, RowOf, H
    <3> QED
      BY <3>1, <2>1, <2>2, <1>1, <1>r, <1>h DEF Here
  <2>3. CASE row[r][h] # "deleted"
    <3>1. Settle(r, IF "reachable" \in notes[r][h] THEN "reachable" ELSE "matched")
      BY <2>3, <1>12, <1>h DEF Complete, Gone, RowOf, H
    <3> QED
      BY <3>1, <2>1, <2>3, <1>1, <1>r, <1>s, <1>w, <1>h DEF Here, Past
  <2> QED
    BY <2>2, <2>3
<1>13. CASE Fail(r)
  <2>1. pc[r] = "fail" /\ UNCHANGED <<logins, notes>> /\ SetRow(r, "failed")
    BY <1>13 DEF Fail
  <2>2. CASE row[r][h] = "deleted"
    <3>1. pc'[r] = "cut" /\ UNCHANGED <<hand, verdict>>
      BY <2>2, <1>13, <1>g, <1>h DEF Fail, Gone, RowOf, H
    <3> QED
      BY <3>1, <2>1, <2>2, <1>1, <1>r, <1>h DEF Here
  <2>3. CASE row[r][h] # "deleted"
    <3>1. Settle(r, "failed")
      BY <2>3, <1>13, <1>h DEF Fail, Gone, RowOf, H
    <3> QED
      BY <3>1, <2>1, <2>3, <1>1, <1>r, <1>s, <1>w, <1>h DEF Here, Past
  <2> QED
    BY <2>2, <2>3
<1>14. CASE Cut(r)
  BY <1>14, <1>1, <1>g, <1>w, <1>h DEF Cut, Here, Ahead, rows
<1> QED
  BY <1>3, <1>4, <1>5, <1>6, <1>7, <1>8, <1>9, <1>10, <1>11, <1>12, <1>13, <1>14, <1>h DEF Step

\* A step of a request keeps the invariant.
LEMMA StepRequest ==
  ASSUME AuditInv, TypeOK', NEW r \in Requests, Step(r)
  PROVE  AuditInv'
<1>f. /\ door' = door /\ clicker' = clicker /\ hand[r] \in Host /\ pc[r] # "done"
      /\ \A s \in Requests \ {r} : pc'[s] = pc[s] /\ hand'[s] = hand[s]
      /\ \A s \in Requests, h \in Host : (s = r => h # hand[r]) => Same(s, h)
  BY StepFrame
<1>n. NumHosts \in Nat \ {0} /\ \A s \in Requests : LastHost(s) \in {1, NumHosts}
        /\ LastHost(s)' = LastHost(s)
  BY <1>f, HostAuditsAssumption DEF LastHost
<1>k. PICK k \in Host : k = hand[r]
  BY <1>f
<1>1. \/ hand'[r] = k /\ pc'[r] # "done" /\ Here(r, k)'
      \/ hand'[r] = k + 1 /\ pc'[r] \in {"host", "done"} /\ Past(r, k)'
           /\ (pc'[r] = "host" => k # LastHost(r))
  BY <1>k, StepHand
<1>2. ASSUME NEW s \in Requests, pc'[s] # "done" PROVE hand'[s] <= LastHost(s)'
  <2>1. CASE s # r
    BY <2>1, <1>2, <1>f, <1>n DEF AuditInv
  <2>2. CASE s = r
    <3>1. k <= LastHost(r) /\ k \in Nat
      BY <1>f, <1>k DEF AuditInv, Host
    <3> QED
      BY <3>1, <2>2, <1>2, <1>1, <1>n
  <2> QED
    BY <2>1, <2>2
<1>3. ASSUME NEW q \in Clickers, clicker'[q].do = "stop"
      PROVE  row'[clicker'[q].r][clicker'[q].h] # "none"
  <2>1. clicker[q] \in [do : {"stop"}, r : Requests, h : Host]
    BY <1>3, <1>f DEF AuditInv, TypeOK
  <2>2. PICK s \in Requests, h \in Host : clicker[q].r = s /\ clicker[q].h = h /\ row[s][h] # "none"
    BY <2>1, <1>3, <1>f DEF AuditInv
  <2>3. CASE s = r /\ h = k
    <3>1. Point(r, k) /\ ~(k < hand[r]) /\ ~(k > hand[r])
      BY <1>k DEF AuditInv, Host
    <3>2. pc[r] \notin {"host", "idle"}
      BY <3>1, <2>2, <2>3, <1>k DEF Point, Here, Ahead
    <3>3. row'[r][k] # "none"
      <4>1. row' = row \/ \E x \in Stored \cup {"deleted"} : row' = [row EXCEPT ![r][k] = x]
        <5>1. row[r][k] \in Row /\ row[r][k] # "none"
          <6>1. row \in [Requests -> [Host -> Row]]
            BY DEF AuditInv, TypeOK
          <6> HIDE DEF AuditInv
          <6> QED
            BY <6>1, <2>2, <2>3
        <5>2. ASSUME NEW status \in Stored, SetRow(r, status)
              PROVE  \E x \in Stored \cup {"deleted"} : row' = [row EXCEPT ![r][k] = x]
          <6>1. (IF row[r][k] = "deleted" THEN row[r][k] ELSE status) \in Stored \cup {"deleted"}
            OBVIOUS
          <6> QED
            BY <6>1, <5>2, <1>k, Zenon DEF SetRow, H
        <5>3. {"running", "completed", "failed"} \subseteq Stored
          BY DEF Stored, Final
        <5>4. ~Submit(r) /\ ~OutOfScope(r) /\ ~Create(r)
          BY <3>2 DEF Submit, OutOfScope, Create
        <5>5. row' = row \/ \E status \in {"running", "completed", "failed"} : SetRow(r, status)
          BY <5>4, Zenon DEF Step, Denied, Allowed, Begin, Works, Refused, NoneWorked, Store,
             Complete, Fail, Cut, rows
        <5> QED
          BY <5>2, <5>3, <5>5
      <4>2. row \in [Requests -> [Host -> Row]]
        BY DEF AuditInv, TypeOK
      <4> HIDE DEF AuditInv
      <4> QED
        BY <4>1, <4>2, <2>2, <2>3 DEF Stored, Final
    <3> QED
      BY <3>3, <2>2, <2>3, <1>f
  <2>4. CASE ~(s = r /\ h = k)
    BY <2>4, <2>2, <1>f, <1>k DEF Same
  <2> QED
    BY <2>3, <2>4
<1>4. ASSUME NEW s \in Requests, NEW h \in Host PROVE Point(s, h)'
  <2>0. Point(s, h)
    BY DEF AuditInv
  <2>1. CASE s # r
    BY <2>1, <2>0, <1>f, SamePast, SameHere DEF Point, Same, Ahead
  <2>2. CASE s = r /\ h = k
    <3>1. hand'[r] \in {k, k + 1} /\ k \in Nat
      BY <1>1 DEF Host
    <3> QED
      BY <3>1, <2>2, <1>1 DEF Point
  <2>3. CASE s = r /\ h # k
    <3>1. Same(r, h)
      BY <2>3, <1>f, <1>k
    <3>2. h < k => Past(r, h)'
      BY <3>1, <2>0, <2>3, <1>k, <1>f, SamePast DEF Point
    <3>3. h > k => Ahead(r, h) /\ Ahead(r, h)'
      BY <3>1, <2>0, <2>3, <1>k DEF Point, Same, Ahead
    <3>4. h > k /\ pc'[r] \in {"host", "done"} => Here(r, h)'
      BY <3>1, <3>3, NextInHand
    <3> QED
      BY <3>2, <3>3, <3>4, <2>3, <1>1 DEF Point, Host
  <2> QED
    BY <2>1, <2>2, <2>3
<1> QED
  BY <1>2, <1>3, <1>4 DEF AuditInv

\* What a Stop or a Delete does to a row that is not "none" keeps every part.
LEMMA Rewritten ==
  ASSUME NEW r \in Requests, NEW h \in Host, row[r][h] # "none",
         logins' = logins /\ verdict' = verdict /\ door' = door /\ pc' = pc /\ hand' = hand,
         Point(r, h),
         \/ row'[r][h] = "deleted" /\ notes'[r][h] = {}
         \/ /\ row'[r][h] = IF row[r][h] = "deleted" THEN "deleted" ELSE "cancelled"
            /\ notes'[r][h] = notes[r][h]
  PROVE  Point(r, h)'
<1>1. Worked(r, h)' <=> Worked(r, h)
  BY DEF Worked
<1>2. ~Ahead(r, h)
  BY DEF Ahead
<1>3. Past(r, h) => Past(r, h)'
  BY <1>1 DEF Past
<1>4. Here(r, h) => Here(r, h)'
  <2>1. Here(r, h) => pc[r] \notin {"idle", "host"}
    BY <1>2 DEF Here
  <2> QED
    BY <2>1, <1>1 DEF Here, Begun
<1> QED
  BY <1>2, <1>3, <1>4 DEF Point

\* Buttons keep the invariant: they reach rows that exist only.
LEMMA StepClick ==
  ASSUME AuditInv, TypeOK', NEW q \in Clickers, Click(q)
  PROVE  AuditInv'
<1>w. work' = work
  BY DEF Click, Stop, AskStop, Delete
<1>1. ASSUME NEW s \in Requests, pc'[s] # "done" PROVE hand'[s] <= LastHost(s)'
  BY <1>1, <1>w DEF work, LastHost, AuditInv
<1>t. row \in [Requests -> [Host -> Row]] /\ notes \in [Requests -> [Host -> SUBSET AnyNote]]
  BY DEF AuditInv, TypeOK, AnyNote
\* What the three buttons come to.
<1>2. ASSUME NEW r \in Requests, NEW h \in Host, NEW x, NEW n, row[r][h] # "none",
             row' = [row EXCEPT ![r][h] = x] /\ notes' = [notes EXCEPT ![r][h] = n],
             \/ x = "deleted" /\ n = {}
             \/ x = (IF row[r][h] = "deleted" THEN "deleted" ELSE "cancelled") /\ n = notes[r][h],
             clicker' = [clicker EXCEPT ![q] = [do |-> "done"]]
      PROVE  AuditInv'
  <2>1. row'[r][h] = x /\ notes'[r][h] = n
    BY <1>2, <1>t
  <2>2. \A s \in Requests, k \in Host : <<s, k>> # <<r, h>> => row'[s][k] = row[s][k] /\ Same(s, k)
    <3>1. ASSUME NEW s \in Requests, NEW k \in Host, s = r => k # h
          PROVE  row'[s][k] = row[s][k] /\ notes'[s][k] = notes[s][k]
      BY <3>1, <1>2, <1>t, Elsewhere
    <3> QED
      BY <3>1, <1>w DEF Same, work
  <2>3. ASSUME NEW s \in Requests, NEW k \in Host PROVE Point(s, k)'
    <3>1. Point(s, k)
      BY DEF AuditInv
    <3>2. CASE s = r /\ k = h
      BY <3>1, <3>2, <2>1, <1>2, <1>w, Rewritten DEF work
    <3>3. CASE <<s, k>> # <<r, h>>
      BY <3>1, <3>3, <2>2, <1>w, SamePast, SameHere DEF Point, Ahead, Same, work
    <3> QED
      BY <3>2, <3>3
  <2>4. ASSUME NEW p \in Clickers, clicker'[p].do = "stop"
        PROVE  row'[clicker'[p].r][clicker'[p].h] # "none"
    <3>1. p # q /\ clicker'[p] = clicker[p]
      <4>1. clicker' = [clicker EXCEPT ![q] = [do |-> "done"]] /\ DOMAIN clicker = Clickers
        BY <1>2 DEF AuditInv, TypeOK
      <4>2. clicker'[q].do = "done"
        BY <4>1
      <4> QED
        BY <4>1, <4>2, <2>4
    <3>2. clicker[p] \in [do : {"stop"}, r : Requests, h : Host]
      BY <3>1, <2>4 DEF AuditInv, TypeOK
    <3>3. PICK s \in Requests, k \in Host : clicker[p].r = s /\ clicker[p].h = k
      BY <3>2
    <3>4. row[s][k] # "none"
      BY <3>1, <3>3, <2>4 DEF AuditInv
    <3>5. x # "none"
      BY <1>2
    <3> QED
      BY <3>1, <3>3, <3>4, <3>5, <2>1, <2>2
  <2> QED
    BY <1>1, <2>3, <2>4 DEF AuditInv
<1>3. CASE Stop(q)
  <2>0. clicker[q] \in [do : {"stop"}, r : Requests, h : Host]
    BY <1>3 DEF Stop, AuditInv, TypeOK
  <2>1. PICK r \in Requests, h \in Host : clicker[q].r = r /\ clicker[q].h = h
    BY <2>0
  <2>2. row[r][h] # "none"
    BY <2>1, <1>3 DEF Stop, AuditInv
  <2>3. row' = [row EXCEPT ![r][h] = IF row[r][h] = "deleted" THEN row[r][h] ELSE "cancelled"]
          /\ clicker' = [clicker EXCEPT ![q] = [do |-> "done"]]
    BY <1>3, <2>1 DEF Stop
  <2>4. notes' = [notes EXCEPT ![r][h] = notes[r][h]]
    BY <1>3, <1>t DEF Stop
  <2> QED
    BY <2>2, <2>3, <2>4, <1>2
<1>4. ASSUME NEW r \in Requests, NEW h \in Host, Delete(q, r, h) PROVE AuditInv'
  <2>1. row[r][h] # "none"
    BY <1>4 DEF Delete, Stored, Final
  <2>2. row' = [row EXCEPT ![r][h] = "deleted"] /\ notes' = [notes EXCEPT ![r][h] = {}]
          /\ clicker' = [clicker EXCEPT ![q] = [do |-> "done"]]
    BY <1>4 DEF Delete
  <2> QED
    BY <2>1, <2>2, <1>2
<1>5. ASSUME NEW r \in Requests, NEW h \in Host, AskStop(q, r, h) PROVE AuditInv'
  <2>1. \A s \in Requests, k \in Host : Same(s, k) /\ Point(s, k)
    BY <1>5, <1>w DEF AskStop, rows, work, Same, AuditInv
  <2>2. ASSUME NEW s \in Requests, NEW k \in Host PROVE Point(s, k)'
    BY <2>1, <1>w, SamePast, SameHere DEF Point, Ahead, Same, work
  <2>3. ASSUME NEW p \in Clickers, clicker'[p].do = "stop"
        PROVE  row'[clicker'[p].r][clicker'[p].h] # "none"
    <3>1. CASE p # q
      <4>1. clicker'[p] = clicker[p] /\ row' = row
        BY <3>1, <1>5 DEF AskStop, rows, AuditInv, TypeOK
      <4> QED
        BY <4>1, <2>3 DEF AuditInv
    <3>2. CASE p = q
      <4>1. clicker'[p] = [do |-> "stop", r |-> r, h |-> h] /\ row' = row
              /\ row[r][h] \in {"pending", "running"}
        BY <3>2, <1>5 DEF AskStop, rows, AuditInv, TypeOK
      <4> QED
        BY <4>1
    <3> QED
      BY <3>1, <3>2
  <2> QED
    BY <1>1, <2>2, <2>3 DEF AuditInv
<1> QED
  BY <1>3, <1>4, <1>5 DEF Click

\* Nothing has happened before the first step.
LEMMA InitAudit == Init => AuditInv
<1> SUFFICES ASSUME Init PROVE AuditInv
  OBVIOUS
<1>1. NumHosts \in Nat \ {0} /\ UsedDoors \subseteq Doors
  BY HostAuditsAssumption
<1>2. <<>> \in Seq(Keys) /\ <<>> \in Seq(Keys \X {"ok", "refused"})
  OBVIOUS
<1>3. /\ tries \in [Requests -> Seq(Keys)]
      /\ logins \in [Requests -> [Host -> Seq(Keys \X {"ok", "refused"})]]
  BY <1>2 DEF Init, Each
<1>4. windows \in [Requests -> BOOLEAN] /\ key \in [Requests -> BOOLEAN]
  BY DEF Init
<1>5. TypeOK
  BY <1>1, <1>3, <1>4 DEF Init, Each, TypeOK, Idle, Row, Stored, Final, Working
<1>6. \A r \in Requests : hand[r] = 1 /\ pc[r] = "idle" /\ 1 <= LastHost(r)
  <2>1. \A r \in Requests : LastHost(r) \in {1, NumHosts}
    BY DEF LastHost
  <2> QED
    <3>1. \A r \in Requests : hand[r] = 1 /\ pc[r] = "idle"
      BY DEF Init
    <3>2. \A r \in Requests : 1 <= LastHost(r)
      <4>1. NumHosts >= 1
        BY <1>1
      <4> TAKE r \in Requests
      <4>2. LastHost(r) = 1 \/ LastHost(r) = NumHosts
        BY <2>1
      <4>3. 1 <= 1
        OBVIOUS
      <4> QED
        BY <4>1, <4>2, <4>3, <1>1
    <3> QED
      BY <3>1, <3>2
<1>7. \A r \in Requests, h \in Host : Ahead(r, h) /\ h \in Nat /\ ~(h < 1)
  BY <1>1 DEF Init, Each, Ahead, Host
<1>8. \A r \in Requests, h \in Host : Point(r, h)
  BY <1>6, <1>7 DEF Point, Here, Ahead
<1>9. \A q \in Clickers : clicker[q].do # "stop"
  BY DEF Init, Idle
<1> QED
  BY <1>5, <1>6, <1>8, <1>9 DEF AuditInv

LEMMA Stutter == AuditInv /\ UNCHANGED vars => AuditInv'
<1> SUFFICES ASSUME AuditInv, UNCHANGED vars PROVE AuditInv'
  OBVIOUS
<1>1. TypeOK'
  BY StepType
<1>2. UNCHANGED <<row, notes, door, pc, hand, verdict, logins, clicker>>
  BY DEF vars, rows, work
<1>3. ASSUME NEW r \in Requests, NEW h \in Host PROVE Point(r, h)'
  BY <1>2 DEF AuditInv, Point, Past, Here, Ahead, Worked
<1> QED
  BY <1>1, <1>2, <1>3 DEF AuditInv, LastHost

\* The inductive invariant, for any number of requests, hosts, credentials,
\* Stops and Deletes, and wherever a request is cut.
THEOREM AuditInvariant == Spec => []AuditInv
<1>1. AuditInv /\ [Next]_vars => AuditInv'
  BY StepType, StepRequest, StepClick, Stutter DEF Next
<1> QED
  BY InitAudit, <1>1, PTL DEF Spec

\* The types of the variables.
THEOREM TypeCorrect == Spec => []TypeOK
BY AuditInvariant, PTL DEF AuditInv

\* A request that is cut leaves one row unsettled at most.
THEOREM OneIsUnsettled == Spec => []OneUnsettled
<1>1. AuditInv => OneUnsettled
  BY DEF AuditInv, Point, Past, Ahead, OneUnsettled
<1> QED
  BY AuditInvariant, <1>1, PTL

\* The result of a request agrees with the rows it leaves.
THEOREM VerdictIsTrue == Spec => []VerdictTrue
<1>1. AuditInv => VerdictTrue
  <2> SUFFICES ASSUME AuditInv, NEW r \in Requests, NEW h \in Host
               PROVE  /\ verdict[r][h] \in {"matched", "reachable"} =>
                           row[r][h] \in {"completed", "cancelled", "deleted"}
                      /\ verdict[r][h] = "failed" => row[r][h] \in {"failed", "cancelled", "deleted"}
                      /\ verdict[r][h] = "skipped" => row[r][h] = "none"
                      /\ verdict[r][h] = "matched" <=> (Worked(r, h) /\ h < hand[r])
    BY DEF VerdictTrue, Worked
  <2>1. h \in Nat /\ hand[r] \in Nat /\ Point(r, h)
    <3>1. hand \in [Requests -> 1..(NumHosts + 1)] /\ Point(r, h)
      BY DEF AuditInv, TypeOK
    <3> HIDE DEF AuditInv
    <3> QED
      BY <3>1, HostAuditsAssumption DEF Host
  <2> QED
    BY <2>1 DEF Point, Past, Here, Ahead
<1> QED
  BY AuditInvariant, <1>1, PTL

\* A row that is completed, or a panel's that failed, has a finding.
THEOREM IsExplained == Spec => []Explained
<1>1. AuditInv => Explained
  <2> SUFFICES ASSUME AuditInv, NEW r \in Requests, NEW h \in Host
               PROVE  /\ row[r][h] = "completed" /\ door[r] # "hardening" => notes[r][h] # {}
                      /\ row[r][h] = "failed" /\ door[r] \in Panel => notes[r][h] # {}
    BY DEF Explained
  <2>1. h \in Nat /\ hand[r] \in Nat /\ Point(r, h)
    <3>1. hand \in [Requests -> 1..(NumHosts + 1)] /\ Point(r, h)
      BY DEF AuditInv, TypeOK
    <3> HIDE DEF AuditInv
    <3> QED
      BY <3>1, HostAuditsAssumption DEF Host
  <2> QED
    BY <2>1 DEF Point, Past, Here, Ahead
<1> QED
  BY AuditInvariant, <1>1, PTL

\* Rows, findings, results and logins fit together at every point of every
\* request, for any number of requests, hosts, credentials and clickers.
THEOREM DoorsInvariant == Spec => []DoorInv
BY TypeCorrect, OneIsUnsettled, VerdictIsTrue, IsExplained, PTL DEF DoorInv

\* The row of a host is the row of ScanRow: it starts "pending", and every
\* step of the request or of a button is a step of ScanRow or leaves it alone.
THEOREM RowIsScanRow == Spec => RowLife
<1>1. AuditInv /\ [Next]_vars =>
        [\A r \in Requests, h \in Host :
           \/ row'[r][h] = row[r][h]
           \/ row[r][h] = "none" /\ row'[r][h] = "pending"
           \/ Life(r, h)!Next]_row
  <2> SUFFICES ASSUME AuditInv, [Next]_vars, NEW r \in Requests, NEW h \in Host,
                      row'[r][h] # row[r][h]
               PROVE  \/ row[r][h] = "none" /\ row'[r][h] = "pending"
                      \/ Life(r, h)!Next
    OBVIOUS
  <2> DEFINE life == IF row[r][h] = "none" THEN "pending" ELSE row[r][h]
  <2>t. row \in [Requests -> [Host -> Row]]
    BY DEF AuditInv, TypeOK
  <2>1. ASSUME NEW q \in Requests, Step(q)
        PROVE  (row[r][h] = "none" /\ row'[r][h] = "pending") \/ Life(r, h)!Next
    <3>1. q = r /\ h = hand[r] /\ Here(r, h)
      <4>1. q = r /\ h = hand[r]
        BY <2>1, StepFrame DEF Same
      <4> QED
        BY <4>1 DEF AuditInv, Point, Host
    <3>2. \/ Create(r)
          \/ Begin(r) /\ SetRow(r, "running")
          \/ Complete(r) /\ SetRow(r, "completed")
          \/ Fail(r) /\ SetRow(r, "failed")
      BY <2>1, <3>1, Zenon DEF Step, Submit, OutOfScope, Denied, Allowed, Begin, Works, Refused,
         NoneWorked, Store, Complete, Fail, Cut, rows
    <3>3. CASE Create(r)
      <4>1. row[r][h] = "none"
        BY <3>1, <3>3 DEF Create, Here, Ahead
      <4>2. row'[r][h] = "pending"
        BY <3>1, <3>3, <2>t DEF Create, H
      <4> QED
        BY <4>1, <4>2
    <3>4. ASSUME NEW status \in {"running", "completed", "failed"}, SetRow(r, status)
          PROVE  row[r][h] # "deleted" /\ row'[r][h] = status
      BY <3>1, <3>4, <2>t DEF SetRow, H
    <3>5. CASE Begin(r) /\ SetRow(r, "running")
      <4>1. row[r][h] \in {"pending", "cancelled"} /\ row'[r][h] = "running"
        BY <3>1, <3>4, <3>5 DEF Begin, Here
      <4> QED
        BY <4>1 DEF Life!Next, Life!Begin
    <3>6. CASE Complete(r) /\ SetRow(r, "completed")
      <4>1. row[r][h] \in {"running", "cancelled"} /\ row'[r][h] = "completed"
        BY <3>1, <3>4, <3>6 DEF Complete, Here, Begun
      <4> QED
        BY <4>1 DEF Life!Next, Life!Complete
    <3>7. CASE Fail(r) /\ SetRow(r, "failed")
      <4>1. row[r][h] \notin {"deleted", "none"} /\ row'[r][h] = "failed"
        BY <3>1, <3>4, <3>7 DEF Fail, Here, Begun
      <4> QED
        BY <4>1 DEF Life!Next, Life!Fail
    <3> QED
      BY <3>2, <3>3, <3>5, <3>6, <3>7
  <2>2. ASSUME NEW q \in Clickers, Click(q) PROVE Life(r, h)!Next
    <3>1. CASE Stop(q)
      <4>0. clicker[q] \in [do : {"stop"}, r : Requests, h : Host]
        BY <3>1 DEF Stop, AuditInv, TypeOK
      <4>1. PICK s \in Requests, k \in Host : clicker[q].r = s /\ clicker[q].h = k
        BY <4>0
      <4>2. row[s][k] # "none"
        BY <4>1, <3>1 DEF Stop, AuditInv
      <4>3. row' = [row EXCEPT ![s][k] = IF row[s][k] = "deleted" THEN row[s][k] ELSE "cancelled"]
        BY <3>1, <4>1 DEF Stop
      <4>4. s = r /\ k = h
        BY <4>3, <2>t, Elsewhere
      <4>5. row[r][h] \notin {"deleted", "none"} /\ row'[r][h] = "cancelled"
        BY <4>2, <4>3, <4>4, <2>t
      <4> QED
        BY <4>5 DEF Life!Next, Life!Stop
    <3>2. ASSUME NEW s \in Requests, NEW k \in Host, Delete(q, s, k) PROVE Life(r, h)!Next
      <4>1. row' = [row EXCEPT ![s][k] = "deleted"]
        BY <3>2 DEF Delete
      <4>2. s = r /\ k = h
        BY <4>1, <2>t, Elsewhere
      <4>3. row'[r][h] = "deleted"
        BY <4>1, <4>2, <2>t
      <4> QED
        BY <4>3 DEF Life!Next, Life!Delete
    <3> QED
      BY <2>2, <3>1, <3>2 DEF Click, AskStop, rows
  <2> QED
    BY <2>1, <2>2 DEF Next, vars, rows
<1> QED
  BY AuditInvariant, <1>1, PTL DEF Spec, RowLife

-----------------------------------------------------------------------------
(* The order of the logins.                                                *)

\* Every credential comes once.  The sweep over several zones drops repeated
\* ones (scan_zones_web); the sweep over one takes the list of the zone, on
\* whose page each credential has one box, but which the API keeps as sent.
EachOnce ==
  LET all == SshKeys \o (WinrmKeys \o RdpKeys) IN
  \A i, j \in DOMAIN all : all[i] = all[j] => i = j

\* What a request has tried on a host is a beginning of some list, and only
\* its last login can have worked.
Begins(seq, list) ==
  Len(seq) <= Len(list) /\ \A i \in DOMAIN seq : seq[i][1] = list[i]

InTurn(r, h) ==
  /\ \A i, j \in DOMAIN logins[r][h] : i < j => logins[r][h][i][2] = "refused"
  /\ door[r] = "zone" => \E ssh, win \in BOOLEAN : Begins(logins[r][h], ZoneKeys(ssh, win))

\* While it tries, what is left of the list follows what was tried.
Rest(seq, left, list) ==
  /\ Begins(seq, list) /\ Len(seq) + Len(left) = Len(list)
  /\ \A i \in DOMAIN left : left[i] = list[Len(seq) + i]

Trying(r) ==
  pc[r] = "try" /\ door[r] = "zone" =>
    \E ssh, win \in BOOLEAN : Rest(logins[r][hand[r]], tries[r], ZoneKeys(ssh, win))

LoginInv ==
  /\ \A r \in Requests, h \in Host : InTurn(r, h)
  /\ \A r \in Requests : Trying(r)

\* One login more: the first credential left moves to what was tried.
LEMMA RestStep ==
  ASSUME NEW list \in Seq(Keys), NEW left \in Seq(Keys), NEW seq \in Seq(Login1),
         NEW result, left # <<>>, Rest(seq, left, list)
  PROVE  Rest(Append(seq, <<Head(left), result>>), Tail(left), list)
<1> DEFINE new == Append(seq, <<Head(left), result>>)
<1>1. /\ Len(new) = Len(seq) + 1 /\ new[Len(seq) + 1] = <<Head(left), result>>
      /\ \A i \in 1..Len(seq) : new[i] = seq[i]
      /\ DOMAIN new = 1..(Len(seq) + 1)
  BY DEF Login1
<1>2. /\ DOMAIN seq = 1..Len(seq) /\ Len(seq) \in Nat
      /\ Len(left) \in Nat \ {0} /\ DOMAIN left = 1..Len(left) /\ Head(left) = left[1]
  BY DEF Login1
<1>3. /\ Len(Tail(left)) = Len(left) - 1 /\ DOMAIN Tail(left) = 1..(Len(left) - 1)
      /\ \A i \in 1..(Len(left) - 1) : Tail(left)[i] = left[i + 1]
  OBVIOUS
<1>4. Head(left) = list[Len(seq) + 1]
  <2>1. 1 \in DOMAIN left
    BY <1>2
  <2> QED
    BY <2>1, <1>2 DEF Rest
<1>5. Len(list) \in Nat
  OBVIOUS
<1> HIDE DEF new
<1>6. Begins(new, list)
  <2>1. ASSUME NEW i \in DOMAIN new PROVE new[i][1] = list[i]
    <3>1. CASE i \in 1..Len(seq)
      BY <3>1, <1>1, <1>2 DEF Rest, Begins
    <3>2. CASE i = Len(seq) + 1
      BY <3>2, <1>1, <1>4
    <3> QED
      BY <3>1, <3>2, <1>1, <1>2
  <2> QED
    BY <2>1, <1>1, <1>2, <1>5 DEF Rest, Begins
<1>7. ASSUME NEW i \in DOMAIN Tail(left) PROVE Tail(left)[i] = list[Len(new) + i]
  <2>0. i \in 1..(Len(left) - 1)
    BY <1>3
  <2>1. i + 1 \in DOMAIN left /\ Len(seq) + (i + 1) = Len(new) + i
    <3>1. i \in Nat /\ i + 1 \in 1..Len(left)
      BY <2>0, <1>2
    <3> QED
      BY <3>1, <1>1, <1>2
  <2>2. left[i + 1] = list[Len(seq) + (i + 1)]
    BY <2>1 DEF Rest
  <2> QED
    BY <2>0, <2>1, <2>2, <1>3
<1>8. Len(new) + Len(Tail(left)) = Len(list)
  BY <1>1, <1>2, <1>3 DEF Rest
<1> QED
  BY <1>6, <1>7, <1>8 DEF Rest, new

\* A list nothing of which was tried is left as a whole.
LEMMA RestAll ==
  ASSUME NEW list \in Seq(Keys) PROVE Rest(<<>>, list, list)
BY DEF Rest, Begins

\* A zone's credentials are keys.
LEMMA ZoneKeysType ==
  ASSUME NEW ssh \in BOOLEAN, NEW win \in BOOLEAN PROVE ZoneKeys(ssh, win) \in Seq(Keys)
<1>1. KeysFor("zone", TRUE, ssh, win) \in Seq(Keys)
  BY KeysType DEF Doors, Sweep
<1> QED
  BY <1>1 DEF KeysFor

\* A step of a request leaves the credentials of the others alone; its own
\* logins grow by one, or not at all.
LEMMA StepLogins ==
  ASSUME NEW r \in Requests, Step(r), TypeOK
  PROVE  /\ \A s \in Requests \ {r} : tries'[s] = tries[s]
         /\ \/ logins' = logins /\ (Begin(r) \/ pc'[r] # "try")
            \/ \E result \in {"ok", "refused"} :
                 Login(r, result) /\ (result = "ok" => pc'[r] = "store") 
                   /\ (result = "refused" => pc'[r] = pc[r])
<1>1. \A s \in Requests \ {r} : tries'[s] = tries[s]
  BY DEF TypeOK, Step, Submit, OutOfScope, Create, Denied, Allowed, Begin, Works, Refused, NoneWorked,
     Store, Complete, Fail, Cut, Login, Settle
<1>2. CASE Works(r)
  BY <1>1, <1>2 DEF Works, Goto, TypeOK
<1>3. CASE Refused(r)
  BY <1>1, <1>3 DEF Refused
<1>4. CASE Submit(r) \/ OutOfScope(r) \/ Create(r) \/ Denied(r) \/ Allowed(r)
  BY <1>1, <1>4 DEF Submit, OutOfScope, Create, Denied, Allowed, Goto, Note, Settle, TypeOK
<1>5. CASE NoneWorked(r) \/ Store(r) \/ Complete(r) \/ Fail(r) \/ Cut(r) \/ Begin(r)
  BY <1>1, <1>5 DEF NoneWorked, Store, Complete, Fail, Cut, Begin, Goto, Note, Settle, TypeOK
<1> QED
  BY <1>2, <1>3, <1>4, <1>5 DEF Step

\* A login follows those tried before it, none of which worked.
LEMMA LoginInTurn ==
  ASSUME AuditInv, LoginInv, NEW r \in Requests, NEW result \in {"ok", "refused"},
         Login(r, result), door' = door,
         NEW h, h = hand[r]
  PROVE  /\ InTurn(r, h)'
         /\ door[r] = "zone" => \E ssh, win \in BOOLEAN :
              Rest(logins'[r][h], tries'[r], ZoneKeys(ssh, win))
<1> DEFINE seq == logins[r][h]
           new == logins'[r][h]
<1>1. /\ h \in Host /\ Here(r, h) /\ pc[r] = "try"
      /\ tries[r] \in Seq(Keys) /\ tries[r] # <<>>
  <2>1. pc[r] = "try" /\ tries[r] \in Seq(Keys) /\ tries[r] # <<>>
    BY DEF Login, AuditInv, TypeOK
  <2>2. hand[r] \in 1..(NumHosts + 1) /\ hand[r] <= LastHost(r)
    BY <2>1 DEF AuditInv, TypeOK
  <2>3. NumHosts \in Nat \ {0} /\ LastHost(r) \in {1, NumHosts}
    BY HostAuditsAssumption DEF LastHost
  <2>4. hand[r] \in Host
    BY <2>2, <2>3 DEF Host
  <2> QED
    BY <2>1, <2>4 DEF AuditInv, Point
<1>2. logins \in [Requests -> [Host -> Seq(Login1)]] /\ tries \in [Requests -> Seq(Keys)]
  BY DEF AuditInv, TypeOK, Login1
<1>3. new = Append(seq, <<Head(tries[r]), result>>) /\ tries'[r] = Tail(tries[r])
  <2> HIDE DEF AuditInv
  <2> QED
    BY <1>1, <1>2 DEF Login, H
<1>4. seq \in Seq(Login1) /\ Head(tries[r]) \in Keys
  BY <1>1, <1>2
<1>5. \A i \in DOMAIN seq : seq[i][2] = "refused"
  <2>1. \A i \in DOMAIN seq : seq[i][2] # "ok"
    BY <1>1 DEF Here, Worked
  <2>2. \A i \in DOMAIN seq : seq[i] \in Login1
    BY <1>4
  <2> QED
    BY <2>1, <2>2 DEF Login1
<1> HIDE DEF AuditInv, seq, new, Login
<1>6. ASSUME NEW i \in DOMAIN new, NEW j \in DOMAIN new, i < j PROVE new[i][2] = "refused"
  <2>1. DOMAIN new = 1..(Len(seq) + 1) /\ Len(seq) \in Nat /\ DOMAIN seq = 1..Len(seq)
          /\ \A l \in 1..Len(seq) : new[l] = seq[l]
    BY <1>3, <1>4 DEF Login1
  <2>2. i \in 1..Len(seq)
    BY <1>6, <2>1
  <2> QED
    BY <2>1, <2>2, <1>5
<1>7. ASSUME door[r] = "zone"
      PROVE  \E ssh, win \in BOOLEAN : Rest(new, tries'[r], ZoneKeys(ssh, win))
  <2>1. PICK ssh \in BOOLEAN, win \in BOOLEAN : Rest(seq, tries[r], ZoneKeys(ssh, win))
    BY <1>1, <1>7 DEF LoginInv, Trying, seq
  <2>2. Rest(new, tries'[r], ZoneKeys(ssh, win))
    BY <2>1, <1>1, <1>3, <1>4, RestStep, ZoneKeysType
  <2> QED
    BY <2>2
<1>8. InTurn(r, h)' <=>
        /\ \A i, j \in DOMAIN new : i < j => new[i][2] = "refused"
        /\ door'[r] = "zone" => \E ssh, win \in BOOLEAN : Begins(new, ZoneKeys(ssh, win))
  BY DEF InTurn, new
<1> QED
  BY <1>6, <1>7, <1>8 DEF Rest, new

\* Every step keeps the logins in turn.
LEMMA StepInTurn ==
  ASSUME AuditInv, LoginInv, NEW r \in Requests, Step(r)
  PROVE  LoginInv'
<1>f. /\ door' = door /\ hand[r] \in Host /\ pc[r] # "done"
      /\ \A s \in Requests \ {r} : pc'[s] = pc[s] /\ hand'[s] = hand[s] /\ tries'[s] = tries[s]
      /\ \A s \in Requests, h \in Host : (s = r => h # hand[r]) => logins'[s][h] = logins[s][h]
  <2>1. TypeOK
    BY DEF AuditInv
  <2> QED
    BY <2>1, StepFrame, StepLogins DEF Same
<1>s. ASSUME NEW s \in Requests, NEW h \in Host, logins'[s][h] = logins[s][h]
      PROVE  InTurn(s, h)'
  BY <1>s, <1>f DEF LoginInv, InTurn
<1>h. \A s \in Requests : pc[s] = "try" => hand[s] \in Host
  <2> SUFFICES ASSUME NEW s \in Requests, pc[s] = "try" PROVE hand[s] \in Host
    OBVIOUS
  <2>1. hand[s] \in 1..(NumHosts + 1) /\ hand[s] <= LastHost(s)
    BY DEF AuditInv, TypeOK
  <2>2. NumHosts \in Nat \ {0} /\ LastHost(s) \in {1, NumHosts}
    BY HostAuditsAssumption DEF LastHost
  <2> QED
    BY <2>1, <2>2 DEF Host
<1>t. ASSUME NEW s \in Requests \ {r} PROVE Trying(s)'
  <2> SUFFICES ASSUME pc'[s] = "try", door'[s] = "zone"
               PROVE  \E ssh, win \in BOOLEAN :
                        Rest(logins'[s][hand'[s]], tries'[s], ZoneKeys(ssh, win))
    BY DEF Trying
  <2>1. /\ logins'[s][hand'[s]] = logins[s][hand[s]] /\ tries'[s] = tries[s]
        /\ pc[s] = "try" /\ door[s] = "zone"
    BY <1>f, <1>h
  <2> QED
    BY <2>1 DEF LoginInv, Trying
<1>1. CASE logins' = logins /\ pc'[r] # "try"
  <2>1. Trying(r)'
    BY <1>1 DEF Trying
  <2> QED
    BY <2>1, <1>s, <1>t, <1>1 DEF LoginInv
<1>2. CASE logins' = logins /\ Begin(r)
  <2>1. Trying(r)'
    <3> SUFFICES ASSUME door[r] = "zone"
                 PROVE  \E ssh, win \in BOOLEAN :
                          Rest(logins'[r][hand'[r]], tries'[r], ZoneKeys(ssh, win))
      BY <1>f DEF Trying
    <3>1. logins'[r][hand'[r]] = <<>>
      <4>1. hand' = hand /\ pc[r] = "begin"
        BY <1>2 DEF Begin
      <4>2. Here(r, hand[r])
        BY <1>f DEF AuditInv, Point
      <4> QED
        BY <4>1, <4>2, <1>2 DEF Here
    <3>2. PICK ssh \in BOOLEAN, win \in BOOLEAN :
             tries' = [tries EXCEPT ![r] = KeysFor(door[r], key[r], ssh, win)]
      BY <1>2 DEF Begin
    <3>3. tries'[r] = ZoneKeys(ssh, win)
      BY <3>2 DEF KeysFor, AuditInv, TypeOK
    <3>4. Rest(logins'[r][hand'[r]], tries'[r], ZoneKeys(ssh, win))
      BY <3>1, <3>3, RestAll, ZoneKeysType
    <3> QED
      BY <3>4
  <2> QED
    BY <2>1, <1>s, <1>t, <1>2 DEF LoginInv
<1>3. ASSUME NEW result \in {"ok", "refused"}, Login(r, result),
             result = "ok" => pc'[r] = "store"
      PROVE  LoginInv'
  <2>1. /\ \A h \in Host : h = hand[r] => InTurn(r, h)'
        /\ door[r] = "zone" => \E ssh, win \in BOOLEAN :
             Rest(logins'[r][hand[r]], tries'[r], ZoneKeys(ssh, win))
    BY <1>3, <1>f, LoginInTurn
  <2>2. ASSUME NEW s \in Requests, NEW h \in Host PROVE InTurn(s, h)'
    <3>1. CASE s = r /\ h = hand[r]
      BY <3>1, <2>1
    <3>2. CASE ~(s = r /\ h = hand[r])
      BY <3>2, <1>f, <1>s
    <3> QED
      BY <3>1, <3>2
  <2>3. Trying(r)'
    <3>1. pc[r] = "try" /\ hand'[r] = hand[r]
      BY <1>3 DEF Login, Step, Submit, OutOfScope, Create, Denied, Allowed, Begin, Works, Refused,
         NoneWorked, Store, Complete, Fail, Cut
    <3> QED
      BY <3>1, <2>1, <1>f DEF Trying
  <2> QED
    BY <2>2, <2>3, <1>t DEF LoginInv
<1> QED
  <2>1. TypeOK
    BY DEF AuditInv
  <2> QED
    BY <2>1, <1>1, <1>2, <1>3, StepLogins

\* Buttons log in nowhere.
LEMMA ClickInTurn ==
  ASSUME LoginInv, UNCHANGED work
  PROVE  LoginInv'
BY DEF work, LoginInv, InTurn, Trying

\* For every request, list of hosts and zone: the logins tried on a host are
\* a beginning of the zone's list, SSH credentials before those of Windows,
\* and none follows one that worked.
THEOREM LoginsInTurn == Spec => []LoginInv
<1>1. Init => LoginInv
  <2> SUFFICES ASSUME Init PROVE LoginInv
    OBVIOUS
  <2>1. \A r \in Requests : pc[r] = "idle"
    BY DEF Init
  <2>2. \A r \in Requests, h \in Host : logins[r][h] = <<>>
    BY DEF Init, Each
  <2>3. ASSUME NEW ssh \in BOOLEAN, NEW win \in BOOLEAN PROVE Begins(<<>>, ZoneKeys(ssh, win))
    <3> DEFINE list == ZoneKeys(ssh, win)
    <3>1. list \in Seq(Keys)
      BY ZoneKeysType
    <3> HIDE DEF list
    <3>2. Begins(<<>>, list)
      BY <3>1 DEF Begins
    <3> QED
      BY <3>2 DEF list
  <2>4. ASSUME NEW r \in Requests, NEW h \in Host PROVE InTurn(r, h)
    <3>1. TRUE \in BOOLEAN
      OBVIOUS
    <3>2. \E ssh, win \in BOOLEAN : Begins(<<>>, ZoneKeys(ssh, win))
      BY <2>3, <3>1
    <3>3. logins[r][h] = <<>>
      BY <2>2
    <3> QED
      BY <3>2, <3>3 DEF InTurn
  <2>5. \A r \in Requests : Trying(r)
    BY <2>1 DEF Trying
  <2> QED
    BY <2>4, <2>5 DEF LoginInv
<1>2. AuditInv /\ LoginInv /\ [Next]_vars => LoginInv'
  <2> SUFFICES ASSUME AuditInv, LoginInv, [Next]_vars PROVE LoginInv'
    OBVIOUS
  <2>1. ASSUME NEW q \in Clickers, Click(q) PROVE UNCHANGED work
    BY <2>1 DEF Click, Stop, AskStop, Delete
  <2> QED
    BY <2>1, StepInTurn, ClickInTurn DEF Next, vars
<1> QED
  BY AuditInvariant, <1>1, <1>2, PTL DEF Spec

\* The list of a zone, where each credential is listed once: no credential
\* comes twice, and only earlier SSH credentials come before an SSH one.
LEMMA ZoneOrder ==
  ASSUME EachOnce, NEW ssh \in BOOLEAN, NEW win \in BOOLEAN
  PROVE  LET list == ZoneKeys(ssh, win) IN
         /\ \A i, j \in DOMAIN list : list[i] = list[j] => i = j
         /\ \A j \in DOMAIN list, k \in DOMAIN SshKeys :
              list[j] = SshKeys[k] => j = k /\ ssh
<1> DEFINE W == WinrmKeys \o RdpKeys
           list == ZoneKeys(ssh, win)
           all == SshKeys \o W
<1>1. SshKeys \in Seq(Keys) /\ W \in Seq(Keys)
  <2> HIDE DEF Keys
  <2> QED
    BY HostAuditsAssumption
<1>2. \A i, j \in DOMAIN all : all[i] = all[j] => i = j
  BY DEF EachOnce
<1>a. ZoneKeys(ssh, win) = (IF ssh THEN SshKeys ELSE <<>>) \o (IF win THEN W ELSE <<>>)
  BY DEF ZoneKeys
<1> HIDE DEF W, list, all, Keys
<1>3. /\ DOMAIN all = 1..(Len(SshKeys) + Len(W)) /\ Len(SshKeys) \in Nat /\ Len(W) \in Nat
      /\ DOMAIN SshKeys = 1..Len(SshKeys)
      /\ \A i \in 1..Len(SshKeys) : all[i] = SshKeys[i]
      /\ \A i \in 1..Len(W) : all[Len(SshKeys) + i] = W[i]
  BY <1>1 DEF all
<1>4. CASE ssh /\ win
  <2>1. list = all
    BY <1>4, <1>a DEF list, all
  <2>2. ASSUME NEW j \in DOMAIN list, NEW k \in DOMAIN SshKeys, list[j] = SshKeys[k] PROVE j = k
    <3>1. k \in DOMAIN all /\ all[k] = SshKeys[k]
      BY <1>3
    <3> QED
      BY <3>1, <2>1, <2>2, <1>2
  <2> QED
    BY <2>1, <2>2, <1>2, <1>4 DEF list
<1>5. CASE ssh /\ ~win
  <2>1. list = SshKeys
    BY <1>5, <1>a, <1>1, ConcatEmptySeq DEF list
  <2>2. ASSUME NEW i \in DOMAIN SshKeys, NEW j \in DOMAIN SshKeys, SshKeys[i] = SshKeys[j]
        PROVE  i = j
    <3>1. i \in DOMAIN all /\ j \in DOMAIN all /\ all[i] = all[j]
      BY <2>2, <1>3
    <3> QED
      BY <3>1, <1>2
  <2> QED
    BY <2>1, <2>2, <1>5 DEF list
<1>6. CASE ~ssh /\ win
  <2>1. list = W
    BY <1>6, <1>a, <1>1, ConcatEmptySeq DEF list
  <2>2. DOMAIN W = 1..Len(W)
    BY <1>1
  <2>3. ASSUME NEW i \in DOMAIN W, NEW j \in DOMAIN W, W[i] = W[j] PROVE i = j
    <3>1. Len(SshKeys) + i \in DOMAIN all /\ Len(SshKeys) + j \in DOMAIN all
            /\ all[Len(SshKeys) + i] = all[Len(SshKeys) + j]
      BY <2>2, <2>3, <1>3
    <3>2. Len(SshKeys) + i = Len(SshKeys) + j
      BY <3>1, <1>2
    <3> QED
      BY <3>2, <2>2, <1>3
  <2>4. ASSUME NEW j \in DOMAIN W, NEW k \in DOMAIN SshKeys PROVE W[j] # SshKeys[k]
    <3>1. Len(SshKeys) + j \in DOMAIN all /\ k \in DOMAIN all /\ Len(SshKeys) + j # k
            /\ all[Len(SshKeys) + j] = W[j] /\ all[k] = SshKeys[k]
      BY <2>2, <1>3
    <3> QED
      BY <3>1, <1>2
  <2> QED
    BY <2>1, <2>3, <2>4 DEF list
<1>7. CASE ~ssh /\ ~win
  <2>1. list = <<>>
    BY <1>7, <1>a DEF list
  <2> QED
    BY <2>1 DEF list
<1> QED
  BY <1>4, <1>5, <1>6, <1>7

\* No login follows one that worked and, in a zone that lists every
\* credential once, no credential is tried twice on a host and a Windows one
\* only after every SSH credential of the zone has been refused.
THEOREM LoginsAreInOrder == EachOnce => (Spec => []LoginsInOrder)
<1> SUFFICES ASSUME EachOnce PROVE Spec => []LoginsInOrder
  OBVIOUS
<1>1. AuditInv /\ LoginInv => LoginsInOrder
  <2> SUFFICES ASSUME AuditInv, LoginInv, NEW r \in Requests, NEW h \in Host, door[r] = "zone"
               PROVE  LET seq == logins[r][h] IN
                      /\ \A i, j \in DOMAIN seq : i # j => seq[i][1] # seq[j][1]
                      /\ \A i, j \in DOMAIN seq, k \in DOMAIN SshKeys :
                           i < j /\ seq[j][1] = SshKeys[k] =>
                             \E l \in 1..k : l < k /\ seq[i][1] = SshKeys[l]
    BY DEF LoginsInOrder, LoginInv, InTurn
  <2> DEFINE seq == logins[r][h]
  <2>1. PICK ssh \in BOOLEAN, win \in BOOLEAN : Begins(seq, ZoneKeys(ssh, win))
    BY DEF LoginInv, InTurn
  <2> DEFINE list == ZoneKeys(ssh, win)
  <2>2. seq \in Seq(Login1) /\ list \in Seq(Keys)
    BY ZoneKeysType DEF AuditInv, TypeOK, Login1
  <2>z. /\ \A i, j \in DOMAIN list : list[i] = list[j] => i = j
        /\ \A j \in DOMAIN list, k \in DOMAIN SshKeys :
             list[j] = SshKeys[k] => j = k /\ ssh
    BY ZoneOrder
  <2>3. /\ DOMAIN seq \subseteq DOMAIN list /\ DOMAIN seq = 1..Len(seq) /\ Len(seq) \in Nat
        /\ \A i \in DOMAIN seq : seq[i][1] = list[i]
    <3> HIDE DEF list, seq, AuditInv, LoginInv
    <3>1. DOMAIN seq = 1..Len(seq) /\ DOMAIN list = 1..Len(list) /\ Len(seq) \in Nat /\ Len(list) \in Nat
      BY <2>2 DEF Login1
    <3> QED
      BY <3>1, <2>1 DEF Begins, list
  <2> HIDE DEF seq
  <2>4. \A i, j \in DOMAIN seq : i # j => seq[i][1] # seq[j][1]
    BY <2>3, <2>z
  <2>5. ASSUME NEW i \in DOMAIN seq, NEW j \in DOMAIN seq, NEW k \in DOMAIN SshKeys,
               i < j, seq[j][1] = SshKeys[k]
        PROVE  \E l \in 1..k : l < k /\ seq[i][1] = SshKeys[l]
    <3>1. j = k /\ ssh
      BY <2>5, <2>3, <2>z
    <3>2. SshKeys \in Seq(Keys)
      BY HostAuditsAssumption
    <3>3. i \in 1..k /\ i < k /\ i \in DOMAIN SshKeys
      BY <3>1, <3>2, <2>3, <2>5
    <3>4. list[i] = SshKeys[i]
      <4>1. WinrmKeys \o RdpKeys \in Seq(Keys)
        BY HostAuditsAssumption
      <4>2. list = SshKeys \o (IF win THEN WinrmKeys \o RdpKeys ELSE <<>>)
        BY <3>1 DEF ZoneKeys
      <4> HIDE DEF list, Keys
      <4> QED
        BY <4>1, <4>2, <3>2, <3>3
    <3> QED
      BY <3>3, <3>4, <2>3
  <2> QED
    BY <2>4, <2>5 DEF seq
<1> QED
  BY AuditInvariant, LoginsInTurn, <1>1, PTL

-----------------------------------------------------------------------------
(* The safety half of EveryHostAnswered: a request gets nearer to its end  *)
(* with every step, and when it is done no host is without its answer.     *)

\* The last host of a request that is done is behind it.
DoneMeansPast == \A r \in Requests : pc[r] = "done" => hand[r] = LastHost(r) + 1

\* A request that is done has named every host of its list in the result.
AllAnswered ==
  \A r \in Requests : pc[r] = "done" => \A h \in 1..LastHost(r) : verdict[r][h] # "none"

LEMMA DonePast ==
  ASSUME AuditInv, DoneMeansPast, [Next]_vars
  PROVE  DoneMeansPast'
<1>1. ASSUME NEW r \in Requests, pc' = pc, hand' = hand, door' = door
      PROVE  pc'[r] = "done" => hand'[r] = LastHost(r)' + 1
  BY <1>1 DEF DoneMeansPast, LastHost
<1>2. CASE UNCHANGED vars
  BY <1>1, <1>2 DEF vars, work, DoneMeansPast
<1>3. ASSUME NEW q \in Clickers, Click(q) PROVE DoneMeansPast'
  BY <1>1, <1>3 DEF Click, Stop, AskStop, Delete, work, DoneMeansPast
<1>4. ASSUME NEW s \in Requests, Step(s) PROVE DoneMeansPast'
  <2> SUFFICES ASSUME NEW r \in Requests, pc'[r] = "done" PROVE hand'[r] = LastHost(r)' + 1
    BY DEF DoneMeansPast
  <2>1. /\ door' = door /\ pc[s] # "done"
        /\ \A v \in Requests \ {s} : pc'[v] = pc[v] /\ hand'[v] = hand[v]
    BY <1>4, StepFrame
  <2>2. CASE r # s
    BY <2>1, <2>2 DEF DoneMeansPast, LastHost
  <2>3. CASE r = s
    <3>1. pc \in [Requests -> Place] /\ hand \in [Requests -> 1..(NumHosts + 1)]
      BY DEF AuditInv, TypeOK, Place
    <3>2. \A where : Goto(r, where) => where = "done"
      BY <2>3, <3>1 DEF Goto
    <3>3. pc[r] # "done" => pc' # pc
      BY DEF DoneMeansPast
    <3>4. \E what : Settle(r, what)
      BY <1>4, <2>1, <2>3, <3>2, <3>3, Zenon DEF Step, Submit, OutOfScope, Create, Denied, Allowed,
         Begin, Works, Refused, NoneWorked, Store, Complete, Fail, Cut, Note
    <3>5. hand[r] = LastHost(r) /\ hand'[r] = hand[r] + 1
      BY <3>1, <3>2, <3>4 DEF Settle, H
    <3> QED
      BY <3>5, <2>1 DEF LastHost
  <2> QED
    BY <2>2, <2>3
<1> QED
  BY <1>2, <1>3, <1>4 DEF Next

\* A request that is done has answered for every host, for any number of them (web/routes.py, the
\* loops over the hosts of a sweep and of a panel audit).
THEOREM DoneIsAnswered == Spec => []AllAnswered
<1>1. Init => DoneMeansPast
  BY DEF Init, DoneMeansPast
<1>2. AuditInv /\ DoneMeansPast => AllAnswered
  <2> SUFFICES ASSUME AuditInv, DoneMeansPast, NEW r \in Requests, pc[r] = "done",
                      NEW h \in 1..LastHost(r)
               PROVE  verdict[r][h] # "none"
    BY DEF AllAnswered
  <2>1. NumHosts \in Nat \ {0} /\ LastHost(r) \in {1, NumHosts}
    BY HostAuditsAssumption DEF LastHost
  <2>2. h \in Host /\ h < hand[r]
    BY <2>1 DEF DoneMeansPast, Host
  <2> QED
    BY <2>2 DEF AuditInv, Point, Past
<1> QED
  BY <1>1, <1>2, DonePast, AuditInvariant, PTL DEF Spec

\* How far a request has come with the host in hand.
Order(place) ==
  CASE place = "idle" -> 0 [] place = "host" -> 1 [] place = "scope" -> 2 [] place = "begin" -> 3
    [] place = "try" -> 4 [] place = "store" -> 5 [] place = "complete" -> 6 [] place = "fail" -> 6
    [] OTHER -> 7

\* A step settles the host in hand and takes the next, or brings the request further with it,
\* or uses up one of its credentials.
Nearer(r) ==
  \/ hand'[r] = hand[r] + 1 /\ verdict'[r][hand[r]] # "none"
  \/ hand'[r] = hand[r] /\ Order(pc'[r]) > Order(pc[r])
  \/ /\ hand'[r] = hand[r] /\ pc[r] = "try" /\ pc'[r] = "try"
     /\ tries[r] # <<>> /\ tries'[r] = Tail(tries[r])

\* What a step of anybody does to a request: nothing, or the request comes nearer to its end.
RequestsAdvance ==
  [][\A r \in Requests :
       <<hand[r], pc[r], tries[r]>>' = <<hand[r], pc[r], tries[r]>> \/ Nearer(r)]_vars

LEMMA StepNearer ==
  ASSUME AuditInv, NEW r \in Requests, Step(r)
  PROVE  Nearer(r)
<1>1. /\ pc \in [Requests -> Place] /\ hand \in [Requests -> 1..(NumHosts + 1)]
      /\ hand[r] \in Host /\ verdict \in [Requests -> [Host -> AnyVerdict]]
      /\ tries \in [Requests -> Seq(Keys)]
  BY StepFrame DEF AuditInv, TypeOK, Place, AnyVerdict
<1> USE DEF Nearer, Order, Goto
<1>2. ASSUME NEW what, what # "none", Settle(r, what) PROVE Nearer(r)
  BY <1>1, <1>2 DEF Settle, H
<1>3. CASE Submit(r) \/ Create(r) \/ Allowed(r)
  BY <1>1, <1>3 DEF Submit, Create, Allowed
<1>n. ASSUME NEW where \in Place, Order(where) > Order(pc[r]), Goto(r, where), hand' = hand
      PROVE  Nearer(r)
  BY <1>1, <1>n
<1>4. CASE Begin(r)
  <2>1. Order("cut") > Order("begin") /\ Order("try") > Order("begin") /\ {"cut", "try"} \subseteq Place
    BY DEF Place, Working
  <2>2. pc[r] = "begin" /\ hand' = hand /\ (Goto(r, "cut") \/ Goto(r, "try"))
    BY <1>4 DEF Begin
  <2> HIDE DEF Order, Goto, Nearer
  <2> QED
    BY <1>n, <2>1, <2>2
<1>5. CASE Denied(r) \/ NoneWorked(r) \/ Store(r)
  <2>1. /\ hand' = hand /\ pc[r] \in {"scope", "try", "store"}
        /\ \/ Goto(r, "cut") \/ Goto(r, "complete")
           \/ Goto(r, "fail")
    <3> HIDE DEF Goto
    <3> QED
      BY <1>5 DEF Denied, NoneWorked, Store, Note
  <2>2. {"cut", "complete", "fail"} \subseteq Place
        /\ \A place \in {"scope", "try", "store"} :
             Order("cut") > Order(place) /\ Order("complete") > Order(place) /\ Order("fail") > Order(place)
    BY DEF Place, Working
  <2> HIDE DEF Order, Goto, Nearer
  <2> QED
    BY <1>n, <2>1, <2>2
<1>11. CASE Works(r)
  <2>1. Order("store") > Order("try") /\ "store" \in Place
    BY DEF Place, Working
  <2>2. pc[r] = "try" /\ hand' = hand /\ Goto(r, "store")
    BY <1>11 DEF Works, Login
  <2> HIDE DEF Order, Goto, Nearer
  <2> QED
    BY <1>n, <2>1, <2>2
<1>6. CASE Refused(r)
  BY <1>1, <1>6 DEF Refused, Login
<1>7. CASE OutOfScope(r)
  BY <1>2, <1>7 DEF OutOfScope
<1>8. CASE Complete(r)
  BY <1>1, <1>2, <1>8 DEF Complete
<1>9. CASE Fail(r)
  BY <1>1, <1>2, <1>9 DEF Fail
<1>10. CASE Cut(r)
  BY <1>1, <1>10 DEF Cut, Working
<1> QED
  BY <1>3, <1>4, <1>5, <1>6, <1>7, <1>8, <1>9, <1>10, <1>11 DEF Step

\* No request turns in circles, for any number of hosts and credentials.
THEOREM RequestsDoAdvance == Spec => RequestsAdvance
<1>1. ASSUME AuditInv, [Next]_vars, NEW r \in Requests
      PROVE  <<hand[r], pc[r], tries[r]>>' = <<hand[r], pc[r], tries[r]>> \/ Nearer(r)
  <2>1. CASE UNCHANGED vars
    BY <2>1 DEF vars, work
  <2>2. ASSUME NEW q \in Clickers, Click(q)
        PROVE  <<hand[r], pc[r], tries[r]>>' = <<hand[r], pc[r], tries[r]>>
    BY <2>2 DEF Click, Stop, AskStop, Delete, work
  <2>3. ASSUME NEW s \in Requests, s # r, Step(s)
        PROVE  <<hand[r], pc[r], tries[r]>>' = <<hand[r], pc[r], tries[r]>>
    <3>1. pc'[r] = pc[r] /\ hand'[r] = hand[r]
      BY <1>1, <2>3, StepFrame
    <3>2. tries'[r] = tries[r]
      BY <1>1, <2>3 DEF AuditInv, TypeOK, Step, Submit, OutOfScope, Create, Denied, Allowed, Begin,
         Works, Refused, NoneWorked, Store, Complete, Fail, Cut, Login, Note, Settle
    <3> QED
      BY <3>1, <3>2
  <2> QED
    BY <1>1, <2>1, <2>2, <2>3, StepNearer DEF Next
<1>2. AuditInv /\ [Next]_vars =>
        \A r \in Requests :
          <<hand[r], pc[r], tries[r]>>' = <<hand[r], pc[r], tries[r]>> \/ Nearer(r)
  BY <1>1
<1> QED
  BY <1>2, AuditInvariant, PTL DEF Spec, RequestsAdvance

=============================================================================
