---------------------------- MODULE MCHostAudits ----------------------------
EXTENDS HostAudits

CONSTANTS r1, q1, q2, ssh1, ssh2, winrm1, rdp1

OneRequest  == {r1}
TwoClickers == {q1, q2}
TwoSsh      == <<ssh1, ssh2>>
OneWinrm    == <<winrm1>>
OneRdp      == <<rdp1>>

=============================================================================
