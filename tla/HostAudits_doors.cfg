CONSTANTS
  r1 = r1
  q1 = q1
  q2 = q2
  ssh1 = ssh1
  ssh2 = ssh2
  winrm1 = winrm1
  rdp1 = rdp1
  Requests <- OneRequest
  NumHosts = 2
  UsedDoors = {"db", "snmp", "smb", "ldap", "telnet", "cisco", "esxi", "inline", "zone", "credentialed", "hardening"}
  SshKeys <- TwoSsh
  WinrmKeys <- OneWinrm
  RdpKeys <- OneRdp
  Clickers <- TwoClickers
SPECIFICATION Spec
INVARIANTS
  DoorInv
  LoginsInOrder
PROPERTIES
  RowLife
  EveryHostAnswered
CHECK_DEADLOCK FALSE
