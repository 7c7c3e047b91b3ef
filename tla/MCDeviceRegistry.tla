-------------------------- MODULE MCDeviceRegistry --------------------------
(* Two inverters and an energy meter that shares the ip address of one of  *)
(* them. ip1 is on the subnet of interface if1; ip2 is on no local subnet. *)
EXTENDS DeviceRegistry

CONSTANTS ip1, ip2, if1

MCPeers == {[susy |-> 1, serial |-> 1, ip |-> ip1],
            [susy |-> 1, serial |-> 2, ip |-> ip2],
            [susy |-> 2, serial |-> 3, ip |-> ip1]}

MCLocalInterface == ip1 :> if1 @@ ip2 :> None

(* A user registers the device with serial number 1 at its two addresses.  *)
MCGiven == {[susy |-> 1, serial |-> 1, typed |-> TRUE, ip |-> ip, interface |-> if1] :
               ip \in {ip1, ip2}}

=============================================================================
