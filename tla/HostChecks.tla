----------------------------- MODULE HostChecks -----------------------------
(***************************************************************************)
(* What the audits of hosts conclude: each door reads facts of a device in *)
(* a fixed order of probes, turns what it read into findings, and reports  *)
(* the controls it looked at as passed or failed rows of the scan.         *)
(*                                                                         *)
(* Most probes are separate connections whose failure is swallowed: the    *)
(* fact keeps the default of its field and evaluation goes on.  A device   *)
(* is the set of facts that hold on it; a fact a probe did not obtain is   *)
(* in neither of the two sets of what was read.  Titles of checks are      *)
(* abbreviated; texts, severities and inventories are left out.            *)
(***************************************************************************)
EXTENDS Integers, Sequences, FiniteSets, FiniteSetsExt

CONSTANTS Hosts,       \* hosts audited into one scan
          UsedDoors,   \* the audits that are used
          MaxOdd,      \* bound: weaknesses and unknown settings of all devices
          MaxLost,     \* bound: probes that are not fully answered
          nobody,      \* the owner of a finding without an asset
          unseen       \* the device of a host nothing is known of

Swept == {"ssh", "winrm"}    \* the audits of a sweep, many hosts to a scan
Databases == {"postgres", "mysql", "mssql", "oracle"}
Doors == Swept \cup Databases \cup
         {"smb", "ldap", "telnet", "cisco", "esxi", "snmp", "rpc", "net", "web"}

ASSUME HostChecksAssumption ==
  /\ UsedDoors \subseteq Doors
  /\ MaxOdd \in Nat
  /\ MaxLost \in Nat
  /\ nobody \notin Hosts

VARIABLES
  device,    \* host: its audit, options, facts, unknown settings; or unseen
  phase,     \* host: todo, open, stored or failed
  at,        \* host: the probe in turn
  yes, no,   \* host: facts read as holding, as not holding
  lost,      \* probes not fully answered so far
  findings,  \* <<owner, check>>: findings of the scan
  rows,      \* <<framework, check, status, host>>: compliance rows of the scan
  stored     \* the hosts stored, in order

reading == <<device, phase, at, yes, no, lost>>
scan == <<findings, rows, stored>>
checksVars == <<reading, scan>>

-----------------------------------------------------------------------------
(* SMB.  A server that takes a null session maps a guest to it as well.    *)
(* Each session lists the shares if it may; a word list is then tried by   *)
(* name on one more session, against a share that listings show and one    *)
(* that none does.  A lost listing looks like one that shows nothing.      *)

SmbPlan(g) ==
  << {"signing"}, {"smb1"}, {"null", "anonshares"}, {"guest", "guestlist"} >>
    \o (IF "creds" \in g THEN << {"login", "list"} >> ELSE <<>>)
    \o (IF "words" \in g THEN << {"share", "hidden"} >> ELSE <<>>)

Listings == {"list", "anonshares", "guestlist"}

\* Hidden is a share that answers to its name and was in no listing.
SmbHidden(y) ==
  IF "hidden" \in y \/ ("share" \in y /\ y \cap Listings = {}) THEN {"hidden"} ELSE {}

\* mutant: a guest is reported beside the null session that lets it in
SmbFlagsBoth(y) ==
  (y \cap {"signing", "smb1", "null", "anonshares", "guest"}) \cup SmbHidden(y)

SmbFlags(y) ==
  (y \cap {"signing", "smb1", "null", "anonshares"})
    \cup (IF "null" \in y THEN {} ELSE y \cap {"guest"}) \cup SmbHidden(y)

\* Names are tried as the given account, or without one as nobody.
SmbEnters(g, H) == IF "creds" \in g THEN "login" \in H ELSE "null" \in H

\* A session of the audit lists the shares of the device.
SmbLists(g, H) ==
  \/ "creds" \in g /\ {"login", "list"} \subseteq H
  \/ {"null", "anonshares"} \subseteq H
  \/ "guestlist" \in H /\ H \cap {"null", "guest"} # {}

\* All five titles, whatever the connections gave.
SmbRan == {"signing", "smb1", "null", "guest", "anonshares"}

-----------------------------------------------------------------------------
(* LDAP.  rootDSE is read without a login, and again by a later connection *)
(* that is bound when it was not obtained; searches start from it.         *)

LdapPlan(g) ==
  << {"rootdse", "starttls"}, {"bind", "search", "rootdse", "starttls"}, {"ldaps"} >>
    \o IF "creds" \in g THEN << {"shortpw", "nolock", "rootdse", "starttls"} >> ELSE <<>>

LdapCoherent(H, y, got) ==
  /\ "starttls" \in got <=> "rootdse" \in got
  /\ "rootdse" \in got => "rootdse" \notin y
  /\ ("bind" \in H /\ "search" \in got) => "rootdse" \in y \cup got
  /\ ("search" \in got) => "bind" \in got
  /\ got \cap {"shortpw", "nolock"} # {} => "rootdse" \in y \cup got

LdapFlags(y) ==
  (y \cap {"bind", "search", "shortpw", "nolock"})
    \cup (IF "rootdse" \in y /\ y \cap {"ldaps", "starttls"} = {} THEN {"cleartext"} ELSE {})

LdapRan(y, n) ==
  {"bind", "search"} \cup (IF "rootdse" \in y THEN {"cleartext"} ELSE {})
    \cup ((y \cup n) \cap {"shortpw", "nolock"})

-----------------------------------------------------------------------------
(* Telnet, and Cisco IOS over SSH.  Both evaluate a running-config; Telnet *)
(* takes any output for one, Cisco only one that is whole.                 *)

ConfigChecks == {"nocrypt", "enablepw", "vtytelnet", "httpserver"}
CiscoChecks == ConfigChecks \cup {"sshv1", "community", "noaaa"}

TelnetPlan(g) ==
  << {"banner"} >> \o IF "creds" \in g THEN << {"config"} \cup ConfigChecks >> ELSE <<>>

\* A banner warns if a word of warning is seen, passwords are encrypted if
\* the directive is seen; the other three directives are bad when seen.
TelnetFlags(y, n) ==
  IF "telnet" \notin y THEN {}
  ELSE {"telnet"} \cup ({"banner"} \ n)
         \cup (IF "config" \in y THEN (y \cap ConfigChecks) \cup ({"nocrypt"} \ n) ELSE {})

TelnetRan(y) ==
  {"telnet"} \cup (IF "telnet" \in y THEN {"banner"} ELSE {})
             \cup (IF "config" \in y THEN ConfigChecks ELSE {})

CiscoPlan == << {"config"} \cup CiscoChecks >>

\* mutant: a running-config that was cut is evaluated like a whole one
CiscoReadCut(got) == got

\* What a running-config tells: all of it, or nothing when it was cut.
CiscoRead(got) == IF {"config"} \cup CiscoChecks \subseteq got THEN got ELSE {}

CiscoFlags(y) == IF "config" \in y THEN y \cap CiscoChecks ELSE {}

CiscoRan(y) == IF "config" \in y THEN CiscoChecks ELSE {}

-----------------------------------------------------------------------------
(* ESXi and vCenter.  Nothing is asked of a device that is not VMware.     *)
(* check_tls swallows a failed handshake, so TLS always counts as checked. *)

EsxiPlan == << {"vmware", "version"}, {"mob"}, {"weaktls"} >>

EsxiFlags(y) == IF "vmware" \in y THEN y \cap {"version", "mob", "weaktls"} ELSE {}

EsxiRan(y, n) ==
  IF "vmware" \in y THEN {"weaktls"} \cup ((y \cup n) \cap {"mob"}) ELSE {}

-----------------------------------------------------------------------------
(* Databases.  An error of the connection or of a query ends the audit.    *)

PgPlan == << {"nossl", "nolog", "md5"} >>
MysqlPlan == << {"notls"}, {"infile"}, {"native"} >>
MssqlPlan == << {"xpcmd", "ole", "clr"}, {"mixed"} >>
OraclePlan == << {"osauth", "dictionary", "sql92", "caseless"} >>

\* PostgreSQL: a setting is bad unless a good value was read.
PgFlags(n) == {"nossl", "nolog", "md5"} \ n

\* MySQL skips a variable the server does not have.
MysqlFlags(y) == y

\* SQL Server and Oracle evaluate the empty string, which is never bad.
MssqlFlags(y) == y
OracleFlags(y) == y

-----------------------------------------------------------------------------
(* SSH and WinRM with a credential: one command per check, on one          *)
(* connection for SSH; blank output is evaluated like any other.           *)

SshControls == {"rootlogin", "emptypw", "sticky", "emptyssh", "maxauth"}
AuthControls == {"updates", "nopasswd", "writable"}

PrivescPlan == << {"suid"}, {"caps"}, {"cron"} >>

SshPlan(g) ==
  << {"kernel"}, {"packages"}, {"rootlogin"}, {"emptypw"}, {"sticky"}, {"emptyssh"},
     {"maxauth"}, {"updates"}, {"nopasswd"}, {"writable"} >> \o PrivescPlan
    \o IF "attempt" \in g THEN << {"isroot", "escalates"} >> ELSE <<>>

\* MaxAuthTries is bad unless a small value was read; a login that is root
\* already makes no attempt.
SshFlags(y, n) ==
  (y \ {"escalates", "maxauth"})
    \cup ({"maxauth"} \ n)
    \cup (IF "isroot" \in y THEN {} ELSE y \cap {"escalates"})

WinControls == {"smb1", "defender", "firewall", "nla", "autologon", "admins"}

\* Every control, also of a command that failed; the escalation checks have none.
WinRan == WinControls

WinPrivescPlan == << {"privileges"}, {"elevated"}, {"unquoted"} >>

WinPlan ==
  << {"smb1"}, {"defender"}, {"firewall"}, {"nla"}, {"autologon"}, {"admins"} >> \o WinPrivescPlan

WinFlags(y) == y

-----------------------------------------------------------------------------
(* Without a credential: SNMP communities (a known one, the user's own) in *)
(* both versions, the print spooler over RPC, exposed services.            *)

SnmpPlan == << {"known2c", "known1", "own2c", "own1"} >>

SnmpFlags(y) ==
  (IF y \cap {"known2c", "known1"} # {} THEN {"community"} ELSE {})
    \cup (IF y \cap {"known2c", "own2c"} # {} THEN {"v2c"} ELSE {})
    \cup (IF y \cap {"known1", "own1"} # {} THEN {"v1"} ELSE {})
    \cup (IF y = {} THEN {"silent"} ELSE {})

RpcPlan == << {"pipe"}, {"mapper"} >>

RpcFlags(y) == IF y # {} THEN {"spooler"} ELSE {}

Exposed == {"redis", "elastic", "docker", "kubelet", "k8s", "ftp"}

NetPlan == << {"redis"}, {"elastic"}, {"docker"}, {"kubelet"}, {"k8s"}, {"ftp"} >>

-----------------------------------------------------------------------------
(* Web.  The page is fetched once; each later request may fail alone.      *)

PageFacts == {"headers", "hsts", "cookies", "cors", "versions"}
TlsFacts == {"oldtls", "cipher", "selfsigned", "expired", "wrongname"}

DirPlan == << {"catchall"}, {"dir"} >>
TlsPlan == << TlsFacts, {"tls10"} >>
ActivePlan == << {"xss"}, {"sqli"}, {"redirect"}, {"lfi"}, {"listing"} >>

WebPlan(g) ==
  << PageFacts, {"path"} >> \o (IF "dirs" \in g THEN DirPlan ELSE <<>>)
    \o (IF "https" \in g THEN TlsPlan ELSE <<>>)
    \o (IF "aggressive" \in g THEN ActivePlan ELSE <<>>)

\* check_tls on a handshake that failed is one finding that says so.
WebFlags(g, y, n) ==
  y \cup (IF "https" \in g /\ TlsFacts \cap (y \cup n) = {} THEN {"tlserror"} ELSE {})

\* The rows without a credential: TLS unless the handshake failed (the web
\* task says it checked TLS for every scheme), services and management
\* ports when exposed, HTTP when there is a web port or HSTS is missing.
NetworkRan(d, ports, flags) ==
  (IF d = "web" /\ "tlserror" \notin flags
     THEN {"oldtls", "cipher", "selfsigned", "expired"} ELSE {})
    \cup (flags \cap Exposed)
    \cup (ports \cap {"mgmt"})
    \cup (IF {"p80", "p443"} \cap ports # {} \/ "hsts" \in flags THEN {"http"} ELSE {})

\* A web scan has an asset, and by it ports, when its page showed a stack
\* with known vulnerabilities.
Ports(d, g, y, n) == IF d = "web" /\ PageFacts \cap (y \cup n) = {} THEN {} ELSE g

\* mutant: an old protocol counts only when it was the one negotiated
FailsNegotiated(ports, flags, c) ==
  CASE c = "mgmt" -> TRUE
    [] c = "http" -> "p80" \in ports \/ "hsts" \in flags
    [] OTHER      -> c \in flags

Fails(ports, flags, c) ==
  CASE c = "oldtls" -> flags \cap {"oldtls", "tls10"} # {}
    [] c = "mgmt"   -> TRUE
    [] c = "http"   -> "p80" \in ports \/ "hsts" \in flags
    [] OTHER        -> c \in flags

-----------------------------------------------------------------------------
(* The doors together.                                                     *)

\* The facts a plan asks for.
ProbesOf(plan) == UNION {plan[i] : i \in DOMAIN plan}

Plan(d, g) ==
  CASE d = "smb"  -> SmbPlan(g)     [] d = "ldap"   -> LdapPlan(g)
    [] d = "telnet" -> TelnetPlan(g) [] d = "cisco" -> CiscoPlan
    [] d = "esxi" -> EsxiPlan       [] d = "postgres" -> PgPlan
    [] d = "mysql" -> MysqlPlan     [] d = "mssql"  -> MssqlPlan
    [] d = "oracle" -> OraclePlan   [] d = "ssh"    -> SshPlan(g)
    [] d = "winrm" -> WinPlan       [] d = "snmp"   -> SnmpPlan
    [] d = "rpc"  -> RpcPlan        [] d = "net"    -> NetPlan
    [] d = "web"  -> WebPlan(g)

Flags(d, g, y, n) ==
  CASE d = "smb"  -> SmbFlags(y)    [] d = "ldap"   -> LdapFlags(y)
    [] d = "telnet" -> TelnetFlags(y, n) [] d = "cisco" -> CiscoFlags(y)
    [] d = "esxi" -> EsxiFlags(y)   [] d = "postgres" -> PgFlags(n)
    [] d = "mysql" -> MysqlFlags(y) [] d = "mssql"  -> MssqlFlags(y)
    [] d = "oracle" -> OracleFlags(y) [] d = "ssh"  -> SshFlags(y, n)
    [] d = "winrm" -> WinFlags(y)   [] d = "snmp"   -> SnmpFlags(y)
    [] d = "rpc"  -> RpcFlags(y)    [] d = "net"    -> y
    [] d = "web"  -> WebFlags(g, y, n)

\* The controls a stored audit reports on.
Ran(d, g, y, n) ==
  CASE d = "smb"  -> SmbRan         [] d = "ldap"   -> LdapRan(y, n)
    [] d = "telnet" -> TelnetRan(y) [] d = "cisco"  -> CiscoRan(y)
    [] d = "esxi" -> EsxiRan(y, n)
    [] d \in Databases -> ProbesOf(Plan(d, g))
    [] d = "ssh"  -> SshControls \cup AuthControls
    [] d = "winrm" -> WinRan
    [] d \in {"snmp", "rpc"} -> {}
    [] d \in {"net", "web"} -> NetworkRan(d, Ports(d, g, y, n), Flags(d, g, y, n))

\* The checks compliance knows a control for.
Controlled ==
  SmbRan \cup {"bind", "search", "cleartext", "shortpw", "nolock", "telnet", "banner"}
    \cup CiscoChecks \cup {"mob", "weaktls"}
    \cup {"nossl", "nolog", "md5", "notls", "infile", "native", "xpcmd", "ole", "clr", "mixed",
          "osauth", "dictionary", "sql92", "caseless"}
    \cup SshControls \cup AuthControls \cup WinControls

Framework(d) ==
  CASE d \in {"smb", "winrm"} -> "windows"
    [] d \in {"telnet", "cisco"} -> "cisco"
    [] d \in {"net", "web"} -> "network"
    [] OTHER -> d

\* Doors whose one connection carries every probe: each is answered in full,
\* or the audit fails.
Fragile == Databases \cup Swept

-----------------------------------------------------------------------------
(* Devices.                                                                *)

Options(d) ==
  CASE d \in {"ldap", "telnet"} -> {"creds"}
    [] d = "smb" -> {"creds", "words"}
    [] d = "ssh" -> {"attempt"}
    [] d = "net" -> {"mgmt", "p80", "p443"}
    [] d = "web" -> {"dirs", "https", "aggressive", "p443"}
    [] OTHER -> {}

Facts(d) == ProbesOf(Plan(d, Options(d))) \cup (IF d = "telnet" THEN {"telnet"} ELSE {})

\* Facts that are no weakness by themselves.
Side == {"rootdse", "starttls", "ldaps", "config", "vmware", "isroot",
         "guestlist", "login", "list", "share"}

\* Settings a device may not know, or may not show to the account used.
Blank(d) ==
  CASE d = "ldap" -> {"rootdse", "shortpw", "nolock"}
    [] d \in (Databases \ {"postgres"}) \cup Swept -> Facts(d)
    [] OTHER -> {}

\* What a fully answered audit should say of the device.
Weak(d, g, H, V) ==
  CASE d = "smb" ->
         (H \cap {"signing", "smb1", "null"})
           \cup (H \cap {IF "null" \in H THEN "anonshares" ELSE "guest"})
           \cup (IF /\ "words" \in g /\ SmbEnters(g, H)
                    /\ "hidden" \in H \/ ("share" \in H /\ ~SmbLists(g, H))
                 THEN {"hidden"} ELSE {})
    [] d = "ldap" ->
         (H \cap {"bind"}) \cup (IF "bind" \in H THEN H \cap {"search"} ELSE {})
           \cup (IF "rootdse" \in H /\ H \cap {"starttls", "ldaps"} = {} THEN {"cleartext"} ELSE {})
           \cup (IF "creds" \in g THEN H \cap {"shortpw", "nolock"} ELSE {})
    [] d = "telnet" ->
         IF "telnet" \notin H THEN {}
         ELSE (H \cap {"telnet", "banner"})
                \cup (IF "creds" \in g /\ "config" \in H THEN H \cap ConfigChecks ELSE {})
    [] d = "cisco" -> IF "config" \in H THEN H \cap CiscoChecks ELSE {}
    [] d = "esxi" -> IF "vmware" \in H THEN H \ Side ELSE {}
    [] d = "ssh" ->
         (H \ {"isroot", "escalates"}) \cup ({"maxauth"} \cap V)
           \cup (IF "attempt" \notin g THEN {}
                 ELSE H \cap {IF "isroot" \in H THEN "isroot" ELSE "escalates"})
    [] d = "snmp" -> SnmpFlags(H)
    [] d = "rpc" -> RpcFlags(H)
    [] d = "web" -> H \cap ProbesOf(Plan(d, g))
    [] OTHER -> H

\* The devices an audit may meet: few weaknesses and unknown settings.
Few(n, S) ==
  LET few[k \in 0..MaxOdd] ==
        IF k = 0 THEN {{}} ELSE {A \cup B : A \in few[k - 1], B \in {{}} \cup {{x} : x \in S}}
  IN IF n < 0 THEN {} ELSE few[n]

Odd(dev) == Cardinality(dev.holds \ Side) + Cardinality(dev.void)

Oddities(d) == ({"holds"} \X (Facts(d) \ Side)) \cup ({"void"} \X Blank(d))

Devices(d, n) ==
  {dev \in {[door |-> d, given |-> g, listed |-> l, void |-> {f \in Blank(d) : <<"void", f>> \in odd},
             holds |-> T \cup {f \in Facts(d) : <<"holds", f>> \in odd}] :
               odd \in Few(n, Oddities(d)), T \in SUBSET (Facts(d) \cap Side),
               g \in SUBSET Options(d),
               l \in IF d \in Swept THEN BOOLEAN ELSE {d \in {"net", "rpc"}}} :
     /\ dev.holds \cap dev.void = {}
     /\ d = "ldap" => "rootdse" \in dev.holds \cup dev.void}

\* What a device is, and that no device is the one nothing is known of.
Device ==
  [door : Doors, given : SUBSET UNION {Options(d) : d \in Doors}, listed : BOOLEAN,
   void : SUBSET UNION {Facts(d) : d \in Doors}, holds : SUBSET UNION {Facts(d) : d \in Doors}]

ASSUME UnseenAssumption == unseen \notin Device

\* What of a probe is seen of a device: shares only on an open session,
\* a guest wherever null is let in, the directory only once bound, and every
\* word as a path while a server that answers to all is not known.
Shows(d, g, H, y, f) ==
  CASE d = "smb" /\ f = "anonshares" -> {"null", "anonshares"} \subseteq H
    [] d = "smb" /\ f = "guest"      -> H \cap {"null", "guest"} # {}
    [] d = "smb" /\ f = "guestlist"  -> "guestlist" \in H /\ H \cap {"null", "guest"} # {}
    [] d = "smb" /\ f = "list"       -> {"login", "list"} \subseteq H
    [] d = "smb" /\ f \in {"share", "hidden"} -> f \in H /\ SmbEnters(g, H)
    [] d = "ldap" /\ f = "search"    -> {"bind", "search"} \subseteq H
    [] d = "web" /\ f = "dir"        -> "dir" \in H \/ ("catchall" \in H /\ "catchall" \notin y)
    [] OTHER                         -> f \in H

\* A configuration is read until the device is silent, whole or not.
TelnetCoherent(got) == got \cap ConfigChecks # {} => "config" \in got

WebCoherent(got) == \A group \in {PageFacts, TlsFacts} : group \cap got \in {{}, group}

\* The ways a probe of a device may be answered.
Coherent(d, H, y, got) ==
  CASE d = "smb"  -> /\ "anonshares" \in got => "null" \in got
                     /\ "guestlist" \in got => "guest" \in got
                     /\ "list" \in got => "login" \in got
    [] d = "ldap" -> LdapCoherent(H, y, got)
    [] d = "telnet" -> TelnetCoherent(got)
    [] d = "esxi" -> {"version"} \cap got \cap H # {} => "vmware" \in got
    [] d = "rpc"  -> "mapper" \in got => "pipe" \notin y
    [] d = "web"  -> WebCoherent(got)
    [] OTHER      -> TRUE

Answers(dev, y, probe) ==
  {got \in SUBSET (probe \ dev.void) : Coherent(dev.door, dev.holds, y, got)}

\* A probe may go unanswered, alone; of a login only the look-up of its
\* packages at OSV, which is another connection.
MayLose(d, probe) == d \notin Fragile \/ probe = {"packages"}

\* What is kept of an answer.
Kept(d, got) == IF d = "cisco" THEN CiscoRead(got) ELSE got

-----------------------------------------------------------------------------
ChecksInit ==
  /\ device = [h \in Hosts |-> unseen]
  /\ phase = [h \in Hosts |-> "todo"]
  /\ at = [h \in Hosts |-> 1]
  /\ yes = [h \in Hosts |-> {}]
  /\ no = [h \in Hosts |-> {}]
  /\ lost = 0
  /\ findings = {}
  /\ rows = {}
  /\ stored = <<>>

PlanOf(h) == Plan(device[h].door, device[h].given)

\* Nothing more is asked of a closed Telnet port, nor of what is not VMware.
Over(h) ==
  \/ at[h] > Len(PlanOf(h))
  \/ device[h].door = "telnet" /\ "telnet" \notin yes[h]
  \/ device[h].door = "esxi" /\ at[h] > 1 /\ "vmware" \notin yes[h]

\* Only the audits of a sweep go into one scan, host after host; a second
\* host counts as one oddity.
Audited == {h \in Hosts : device[h] # unseen}
MayFollow(d) == \A h \in Audited : {d, device[h].door} \subseteq Swept
OddLeft == MaxOdd - MapThenSumSet(LAMBDA h : 1 + Odd(device[h]), Audited)

\* An audit opens its connection; a Telnet port that refuses it is closed.
Connect(h) ==
  /\ phase[h] = "todo"
  /\ \A g \in Hosts : phase[g] # "open"
  /\ \E d \in {x \in UsedDoors : MayFollow(x)} : \E dev \in Devices(d, OddLeft) :
       /\ device' = [device EXCEPT ![h] = dev]
       /\ yes' = [yes EXCEPT ![h] = {"telnet"} \cap dev.holds]
       /\ no' = [no EXCEPT ![h] = IF d = "telnet" THEN {"telnet"} \ dev.holds ELSE {}]
  /\ phase' = [phase EXCEPT ![h] = "open"]
  /\ UNCHANGED <<at, lost, scan>>

\* One probe: what it is told, what shows of it, and what of it is kept.
Probe(h) ==
  /\ phase[h] = "open"
  /\ ~Over(h)
  /\ LET dev == device[h]
         answers == Answers(dev, yes[h], PlanOf(h)[at[h]])
     IN \E got \in answers :
          LET whole == \A more \in answers : got \subseteq more => more = got
              kept == Kept(dev.door, got)
              shown == {f \in kept : Shows(dev.door, dev.given, dev.holds, yes[h], f)}
          IN /\ ~whole => lost < MaxLost /\ MayLose(dev.door, PlanOf(h)[at[h]])
             /\ lost' = IF whole THEN lost ELSE lost + 1
             /\ yes' = [yes EXCEPT ![h] = @ \cup shown]
             /\ no' = [no EXCEPT ![h] = @ \cup (kept \ shown)]
  /\ at' = [at EXCEPT ![h] = @ + 1]
  /\ UNCHANGED <<device, phase, scan>>

\* The connection is not made, or breaks: nothing of the audit is kept.
Break(h) ==
  /\ \/ phase[h] = "todo" /\ \A g \in Hosts : phase[g] # "open"
     \/ phase[h] = "open" /\ device[h].door \in Fragile \cup {"telnet"}
  /\ phase' = [phase EXCEPT ![h] = "failed"]
  /\ device' = [device EXCEPT ![h] = unseen]
  /\ at' = [at EXCEPT ![h] = 1]
  /\ yes' = [yes EXCEPT ![h] = {}]
  /\ no' = [no EXCEPT ![h] = {}]
  /\ UNCHANGED <<lost, scan>>

Flagged(h) == Flags(device[h].door, device[h].given, yes[h], no[h])

PortsOf(h) == Ports(device[h].door, device[h].given, yes[h], no[h])

Owner(h) == IF device[h].listed THEN h ELSE nobody

Reported(h) ==
  LET ran == Ran(device[h].door, device[h].given, yes[h], no[h])
  IN IF Framework(device[h].door) = "network" THEN ran ELSE ran \cap Controlled

RowsOf(h) ==
  {<<Framework(device[h].door), c,
     IF Fails(PortsOf(h), Flagged(h), c) THEN "fail" ELSE "pass", h>> : c \in Reported(h)}

\* Rows of a framework replace those of the same framework in the scan.
Replaced(old, new) ==
  {r \in old : \A s \in new : s[1] # r[1]} \cup new

\* Findings are created once per owner and check, then the rows replaced.
Store(h) ==
  /\ phase[h] = "open"
  /\ Over(h)
  /\ findings' = findings \cup ({Owner(h)} \X Flagged(h))
  /\ rows' = Replaced(rows, RowsOf(h))
  /\ stored' = Append(stored, h)
  /\ phase' = [phase EXCEPT ![h] = "stored"]
  /\ UNCHANGED <<device, at, yes, no, lost>>

ChecksNext == \E h \in Hosts : Connect(h) \/ Probe(h) \/ Break(h) \/ Store(h)

ChecksSpec == ChecksInit /\ [][ChecksNext]_checksVars

-----------------------------------------------------------------------------
(* Properties.                                                             *)

\* The types of the variables; nothing is kept of a host that is not audited,
\* and no fact is read both ways.
ChecksTypeOK ==
  /\ phase \in [Hosts -> {"todo", "open", "stored", "failed"}]
  /\ lost \in 0..MaxLost
  /\ \A h \in Hosts :
       /\ device[h] = unseen <=> phase[h] \in {"todo", "failed"}
       /\ device[h] = unseen => at[h] = 1 /\ yes[h] = {} /\ no[h] = {}
       /\ device[h] # unseen => /\ at[h] \in 1..Len(PlanOf(h)) + 1
                               /\ yes[h] \cup no[h] \subseteq Facts(device[h].door)
       /\ yes[h] \cap no[h] = {}
       /\ phase[h] = "stored" <=> \E i \in DOMAIN stored : stored[i] = h
  /\ \A f \in findings : f[1] \in Hosts \cup {nobody}
  /\ \A r \in rows : r[3] \in {"pass", "fail"} /\ phase[r[4]] = "stored"

Stored == {h \in Hosts : phase[h] = "stored"}

Unread(h) == (UNION {PlanOf(h)[i] : i \in 1..at[h] - 1}) \ (yes[h] \cup no[h])

\* An audit whose every probe was answered reports exactly the weaknesses of
\* the device: order of the probes, early ends and defaults of the fields
\* neither hide one nor invent one.
FullReadIsExact ==
  \A h \in Stored :
    Unread(h) \subseteq device[h].void =>
      Flagged(h) = Weak(device[h].door, device[h].given, device[h].holds, device[h].void)

\* The checks that take an unread fact for a bad one, and the facts they need.
Presumed(d) ==
  CASE d = "smb"    -> [guest |-> {"null"}, hidden |-> Listings]
    [] d = "ldap"   -> [cleartext |-> {"ldaps"}]
    [] d = "telnet" -> [banner |-> {"banner"}, nocrypt |-> {"nocrypt"}]
    [] d = "snmp"   -> [silent |-> UNION {SnmpPlan[1]}]
    [] d = "web"    -> [dir |-> {"catchall"}, tlserror |-> TlsFacts]
    [] OTHER        -> <<>>

\* A weakness reported of a device that does not have it is one of eight
\* whose check presumes the worst, and the fact it presumes was not read.
FalseAlarmExplained ==
  \A h \in Stored :
    \A c \in Flagged(h) \ Weak(device[h].door, device[h].given, device[h].holds, device[h].void) :
      /\ c \in DOMAIN Presumed(device[h].door)
      /\ Presumed(device[h].door)[c] \cap Unread(h) # {}

\* The passes that do not come from the device: SMB reports all its titles,
\* Telnet believes a cut configuration, ESXi an unmade handshake, LDAP a bind
\* that broke off, the web task an http target, databases and logins blank
\* output; HTTPS alone passes the HTTP control.
PassedUnread(dev) ==
  CASE dev.door = "smb"    -> SmbRan
    [] dev.door = "ldap"   -> {"bind", "search"}
    [] dev.door = "telnet" -> ConfigChecks \ {"nocrypt"}
    [] dev.door = "esxi"   -> {"weaktls"}
    [] dev.door \in Databases \cup Swept -> dev.void
    [] dev.door = "net"    -> {"http"}
    [] dev.door = "web"    -> IF "https" \in dev.given THEN {} ELSE TlsFacts
    [] OTHER -> {}

\* What shows a control to be kept.
Evidence(c) ==
  CASE c = "cleartext" -> {"ldaps", "starttls"} [] c = "http" -> {"hsts"} [] OTHER -> {c}

\* A control passes only on what was read of the device, but for the listed
\* ones: a cut Cisco configuration, an unread MOB page, rootDSE or password
\* policy, a PostgreSQL setting never pass.
NoBlindPass ==
  \A r \in rows : r[3] = "pass" =>
    \/ Evidence(r[2]) \cap (IF r[2] = "cleartext" THEN yes[r[4]] ELSE no[r[4]]) # {}
    \/ r[2] \in PassedUnread(device[r[4]])

\* The findings that speak of a control.
Speaks(c) ==
  CASE c = "oldtls" -> {"oldtls", "tls10"} [] c = "http" -> {"hsts"} [] OTHER -> {c}

\* Rows and findings of a scan tell the same: a failed control has a finding
\* of its host unless it failed for a port, a passed one has none unless
\* another host without an asset has it, and a weakness with a control has
\* its row as long as the rows of the host are there.
VerdictsMatchFindings ==
  /\ \A r \in rows :
       LET said == ({Owner(r[4])} \X Speaks(r[2])) \cap findings
       IN /\ r[3] = "fail" => said # {} \/ r[2] \in {"mgmt", "http"}
          /\ r[3] = "pass" /\ said # {} =>
               \E h \in Stored \ {r[4]} : Owner(h) = nobody /\ Owner(r[4]) = nobody
  /\ \A r \in rows : \A c \in Flagged(r[4]) \cap Controlled :
       r[1] # "network" => <<r[1], c, "fail", r[4]>> \in rows

\* The rows of a framework are those of the host stored last among the ones
\* that reported on it, one to a control: a sweep keeps the verdicts of one
\* host only.
LastHostSpeaks ==
  \A i \in DOMAIN stored :
    \/ RowsOf(stored[i]) \subseteq rows
         /\ \A r \in rows, s \in RowsOf(stored[i]) : r[1] = s[1] => r[4] = stored[i]
    \/ \E j \in i + 1..Len(stored) :
         Framework(device[stored[j]].door) = Framework(device[stored[i]].door)

\* What a sweep leaves in the database: findings and rows of the same device,
\* whichever host is stored last.
CheckInv == ChecksTypeOK /\ VerdictsMatchFindings /\ LastHostSpeaks

\* Neither an alarm nor a pass comes from what was not read, but for the
\* listed checks that presume the worst or the best.
NoBlindVerdict == FalseAlarmExplained /\ NoBlindPass

\* tasks/web_scan.py says of its TLS rows that the scan did inspect TLS.
TlsPassMeansInspected ==
  \A r \in rows : r[3] = "pass" /\ r[2] \in TlsFacts => r[2] \in yes[r[4]] \cup no[r[4]]
=============================================================================
