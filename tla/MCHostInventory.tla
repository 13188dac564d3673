--------------------------- MODULE MCHostInventory ---------------------------
(* HostInventory on two hosts, three TCP ports and one UDP port. *)
EXTENDS HostInventory, TLC

MCHosts  == {1, 2}
MCTcp    == {1, 2, 3}
MCUdp    == {4}
MCCommon == {1, 2}
MCTop    == {1, 3}

\* One request for each way through the code.
Ask(explicit, block, list, given, udp, fanout) ==
  [explicit |-> explicit, block |-> block, list |-> list, given |-> given,
   udp |-> udp, fanout |-> fanout]
MCRequests ==
  {Ask({1}, {}, "default", {}, FALSE, TRUE),      \* one host, dealt by port
   Ask({1}, {}, "given", {2}, FALSE, TRUE),       \* one port, one nmap
   Ask({1, 2}, {}, "default", {}, TRUE, FALSE),   \* with UDP, one nmap
   Ask({1}, {1, 2}, "all", {}, FALSE, TRUE),      \* a CIDR and a host of it
   Ask({}, {2}, "all", {}, FALSE, TRUE)}          \* a CIDR with one host

\* Two ghosts to begin with, one of them beyond Common; or nothing is known.
MCTruths   == {{<<1, 1>>, <<1, 4>>, <<2, 3>>}}
MCKept     == {{}, {<<1, 1>>, <<1, 2>>, <<1, 3>>}}
MCVolatile == {<<1, 1>>}

\* Scans are alike until the requests are dealt.
MCSymmetry == Permutations(Scans)
=============================================================================
