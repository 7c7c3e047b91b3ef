----------------------------- MODULE MCSockets -----------------------------
(* SpeedwireSocketFactory for TLC: addresses of two octets of two bits, hosts *)
(* with up to two interfaces                                                  *)
EXTENDS SpeedwireSocketFactory

Address(a, b) == [o \in 1..2 |-> IF o = 1 THEN a ELSE b]
Interface(f, a, b, p, r, z) ==
    [family |-> f, addr |-> Address(a, b), prefix |-> p, reported |-> r, zone |-> z, port |-> 0]
Zone == <<"%", "e">>

Ether == Interface("v4", 2, 1, 2, TRUE, <<>>)
Ether6 == Interface("v6", 2, 3, 2, TRUE, Zone)
MCHosts == { <<>>,
             <<Interface("v4", 2, 1, 4, TRUE, <<>>), Ether6, Interface("v4", 2, 2, 2, TRUE, <<>>)>>,
             <<Ether>> }
MCPeers == [family : {"v4"}, addr : InAddress, zone : {<<>>}, port : {0, 3}]
           \union [family : {"v6"}, addr : {Address(2, 2)}, zone : {<<>>, Zone}, port : {0, 3}]
MCOwnAddrs == V6Addrs \union {BadAddr}
MCV4Addrs == InAddress
Symmetry == Permutations(Holders)
=============================================================================
