------------------------ MODULE MCSpeedwireDiscovery ------------------------
(* Three local interfaces, one of them on a subnet that is too large to be *)
(* scanned; an inverter on the subnet of if1 and one beyond the subnets.   *)
EXTENDS SpeedwireDiscovery, TLC

CONSTANTS ip1, ip2, if1

MCPeers == {[susy |-> 1, serial |-> 1, ip |-> ip1],
            [susy |-> 1, serial |-> 2, ip |-> ip2]}

MCLocalInterface == ip1 :> if1 @@ ip2 :> None

MCSubnets == <<3, 7, 4>>

(* A device that the user registers without its class and model.           *)
MCGiven == {[susy |-> 1, serial |-> 1, typed |-> FALSE, ip |-> ip1, interface |-> None]}

=============================================================================
