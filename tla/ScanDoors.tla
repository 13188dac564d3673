------------------------------ MODULE ScanDoors ------------------------------
(***************************************************************************)
(* The doors through which a person starts a scan: the forms of the web    *)
(* interface and the endpoints of the REST API.  What each of them asks of *)
(* the user it loaded, and which intensity the scan gets that it creates.  *)
(*                                                                         *)
(* A form is what the person sent: a mode, the scan type the older forms   *)
(* send beside it, whether the consent box was ticked, whether stored      *)
(* credentials were added, and whether a web target may be external.       *)
(***************************************************************************)

Roles == {"admin", "analyst", "viewer"}

(***************************************************************************)
(* Modes.  Wizard maps a mode key to what it starts; Effective folds the   *)
(* fields of the quick-scan form into one key.                             *)
(***************************************************************************)
Keys == {"network", "ping", "cve_safe", "cve_aggressive", "exploit"}
WebKeys == {"web", "web_aggressive"}
Typed == Keys \cup WebKeys \cup {"safe", "aggressive", "credentialed"}
TypedKinds == {"network", "ping", "vuln", "web"}

Forms == [mode : Typed, kind : TypedKinds, ack : BOOLEAN, creds : BOOLEAN, external : BOOLEAN]

Intensities == {"safe", "aggressive", "exploit"}
IsAggressive(i) == i \in {"aggressive", "exploit"}

Wizard(key) ==
  CASE key = "cve_aggressive" -> [intensity |-> "aggressive", guarded |-> TRUE]
    [] key = "exploit"        -> [intensity |-> "exploit", guarded |-> TRUE]
    [] OTHER                  -> [intensity |-> "safe", guarded |-> FALSE]

Effective(f) ==
  CASE f.mode \in Keys \cup WebKeys -> f.mode
    [] f.kind = "web"  -> IF f.mode = "aggressive" THEN "web_aggressive" ELSE "web"
    [] f.kind = "ping" -> "ping"
    [] f.kind = "vuln" -> IF f.mode = "aggressive" THEN "cve_aggressive" ELSE "cve_safe"
    [] OTHER           -> IF f.mode = "aggressive" THEN "cve_aggressive" ELSE "network"

\* parse_mode: what the zone forms and the API make of the mode.
Parsed(f) == IF f.mode \in {"aggressive", "exploit"} THEN f.mode ELSE "safe"

-----------------------------------------------------------------------------
(***************************************************************************)
(* One rule per door.  role is the role the request loaded, allow is       *)
(* ALLOW_AGGRESSIVE_SCANS.                                                 *)
(***************************************************************************)
MayScan(role) == role \in {"admin", "analyst"}
KillSwitchPassed(i, allow) == IsAggressive(i) => allow
AdminIfAggressive(role, i) == IsAggressive(i) => role = "admin"

WebIntensity(f) == IF Effective(f) = "web_aggressive" THEN "aggressive" ELSE "safe"

WebFormOpens(role, f, allow) ==
  /\ AdminIfAggressive(role, WebIntensity(f))
  /\ IsAggressive(WebIntensity(f)) => f.ack /\ allow
  /\ f.external => role = "admin"

\* Mutant: the consent box is only looked at for credentials.
IpFormUnasked(role, f, allow) ==
  LET spec == Wizard(Effective(f)) IN
  /\ spec.guarded => role = "admin"
  /\ KillSwitchPassed(spec.intensity, allow)
  /\ f.creds => role = "admin" /\ f.ack

IpFormOpens(role, f, allow) ==
  LET spec == Wizard(Effective(f)) IN
  /\ spec.guarded => role = "admin" /\ f.ack
  /\ KillSwitchPassed(spec.intensity, allow)
  /\ f.creds => role = "admin"

StartOpens(role, f, allow) ==
  /\ MayScan(role)
  /\ IF Effective(f) \in WebKeys THEN WebFormOpens(role, f, allow) ELSE IpFormOpens(role, f, allow)

StartIntensity(f) ==
  IF Effective(f) \in WebKeys THEN WebIntensity(f) ELSE Wizard(Effective(f)).intensity

\* Zone forms: with a credential zone the mode is not looked at.
ZoneOpens(role, f, allow) ==
  /\ MayScan(role)
  /\ IF f.creds
     THEN role = "admin"
     ELSE AdminIfAggressive(role, Parsed(f)) /\ KillSwitchPassed(Parsed(f), allow)

ZoneIntensity(f) == IF f.creds THEN "safe" ELSE Parsed(f)

\* A rescan repeats the mode of a stored row.
RescanOpens(role, f, allow) ==
  /\ MayScan(role)
  /\ AdminIfAggressive(role, Parsed(f)) /\ KillSwitchPassed(Parsed(f), allow)

ApiScanOpens(role, f, allow) ==
  /\ MayScan(role) /\ f.kind \in {"network", "web"}
  /\ f.kind = "network" => AdminIfAggressive(role, Parsed(f)) /\ KillSwitchPassed(Parsed(f), allow)

ApiScanIntensity(f) == IF f.kind = "network" THEN Parsed(f) ELSE "safe"

ApiZoneOpens(role, f, allow) ==
  /\ MayScan(role)
  /\ AdminIfAggressive(role, Parsed(f)) /\ KillSwitchPassed(Parsed(f), allow)

ScaOpens(role)   == MayScan(role)
AuditOpens(role) == role = "admin"

-----------------------------------------------------------------------------
WebDoors == {"start", "zone", "rescan", "sca", "audit"}
ApiDoors == {"api_scan", "api_zone", "api_sca", "api_admin"}
Doors    == WebDoors \cup ApiDoors

Opens(door, role, f, allow) ==
  CASE door = "start"  -> StartOpens(role, f, allow)
    [] door = "zone"   -> ZoneOpens(role, f, allow)
    [] door = "rescan" -> RescanOpens(role, f, allow)
    [] door = "api_scan" -> ApiScanOpens(role, f, allow)
    [] door = "api_zone" -> ApiZoneOpens(role, f, allow)
    [] door \in {"sca", "api_sca"} -> ScaOpens(role)
    [] door \in {"audit", "api_admin"} -> AuditOpens(role)

\* The intensity of the scan a door creates.
Intensity(door, f) ==
  CASE door = "start" -> StartIntensity(f)
    [] door = "zone"  -> ZoneIntensity(f)
    [] door \in {"rescan", "api_zone"} -> Parsed(f)
    [] door = "api_scan" -> ApiScanIntensity(f)
    [] OTHER -> "safe"

\* Whether the scan uses stored or given credentials.
UsesCredentials(door, f) ==
  \/ door = "start" /\ Effective(f) \notin WebKeys \cup {"ping"} /\ f.creds
  \/ door = "zone" /\ f.creds
  \/ door \in {"audit", "api_admin"}

=============================================================================
