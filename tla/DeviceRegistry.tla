--------------------------- MODULE DeviceRegistry ---------------------------
(***************************************************************************)
(* The device list of SpeedwireDiscovery (src/SpeedwireDiscovery.cpp) and  *)
(* the SpeedwireDevice records in it (include/SpeedwireDevice.hpp). Users  *)
(* announce devices by ip address or by serial number, and packets that    *)
(* devices send turn the announcements into fully known devices.           *)
(*                                                                         *)
(* A record holds the susy id and the serial number (0: not known), the ip *)
(* address of the device and that of the local interface (None: not known) *)
(* and whether both its class and its model are known.                     *)
(***************************************************************************)
EXTENDS Integers, SequencesExt

CONSTANTS IPs,             \* ip addresses of devices
          None,            \* the empty string
          Serials,         \* serial numbers that users require
          Peers,           \* devices that send packets: susy id, serial number, ip
          LocalInterface,  \* the local interface on the subnet of an ip, or None
          Sockets,         \* interfaces of the sockets, None for INADDR_ANY
          Given,           \* records that users register or unregister
          MaxDevices       \* bound: entries of the list

Device == [susy : Nat, serial : Nat, typed : BOOLEAN, ip : IPs \cup {None},
           interface : Range(LocalInterface) \cup Sockets \cup {None}]

ASSUME NoneAssumption == None \notin IPs
ASSUME SerialsAssumption == Serials \subseteq Nat \ {0}
ASSUME PeersAssumption == Peers \subseteq [susy : Nat \ {0}, serial : Nat \ {0}, ip : IPs]
ASSUME InterfaceAssumption == DOMAIN LocalInterface = IPs
ASSUME GivenAssumption ==
    /\ Given \subseteq Device
    /\ \A d \in Given : d.susy # 0 /\ d.serial # 0 /\ d.ip \in IPs

VARIABLES devices,   \* speedwireDevices
          op,        \* the loop that is erasing entries, or "idle"
          target     \* the device to unregister

vars == <<devices, op, target>>

(* SpeedwireDevice: operator== and the three predicates.                   *)
Same(d, e) == d.susy = e.susy /\ d.serial = e.serial /\ d.ip = e.ip
addressComplete(d) == d.susy # 0 /\ d.serial # 0
hasIPAddressOnly(d) == d.ip # None /\ ~addressComplete(d)
hasSerialNumberOnly(d) == d.ip = None /\ d.susy = 0 /\ d.serial # 0
isComplete(d) == addressComplete(d) /\ d.typed /\ d.ip # None /\ d.interface # None

Unknown == [susy |-> 0, serial |-> 0, typed |-> FALSE, ip |-> None, interface |-> None]

(* getMatchingLocalIPAddress.                                              *)
MatchingInterface(ip) == IF ip \in IPs THEN LocalInterface[ip] ELSE None

(* The record that recvDiscoveryPackets makes of an emeter packet or of an *)
(* inverter's response: without a matching local address it takes the      *)
(* interface of the socket, unless that is bound to any interface.         *)
DeviceInfo(p, socket) ==
    [susy |-> p.susy, serial |-> p.serial, typed |-> TRUE, ip |-> p.ip,
     interface |-> IF MatchingInterface(p.ip) # None THEN MatchingInterface(p.ip) ELSE socket]

Reports == {DeviceInfo(p, s) : p \in Peers, s \in Sockets}

(* completeDeviceInformation fills in the interface.                       *)
Filled(d) == IF d.interface = None THEN [d EXCEPT !.interface = MatchingInterface(d.ip)] ELSE d

(* What a device answers to queryDeviceType is its class and model.        *)
Queried(d) == [d EXCEPT !.typed = TRUE]

Infos == Given \cup Reports \cup {Queried(Filled(d)) : d \in Given}

-----------------------------------------------------------------------------
preRegisterDevice(ip) ==
    /\ op = "idle"
    /\ IF \E i \in DOMAIN devices : devices[i].ip = ip
       THEN UNCHANGED devices
       ELSE /\ Len(devices) < MaxDevices
            /\ devices' = Append(devices, [Unknown EXCEPT !.ip = ip])
    /\ UNCHANGED <<op, target>>

requireDevice(serial) ==
    /\ op = "idle"
    /\ IF \E i \in DOMAIN devices : devices[i].serial = serial
       THEN UNCHANGED devices
       ELSE /\ Len(devices) < MaxDevices
            /\ devices' = Append(devices, [Unknown EXCEPT !.serial = serial])
    /\ UNCHANGED <<op, target>>

(* The entries that registerDevice overwrites with info.                   *)
Updates(d, info) ==
    \/ hasIPAddressOnly(d) /\ info.ip = d.ip
    \/ hasSerialNumberOnly(d) /\ info.serial = d.serial
    \/ isComplete(d) /\ Same(info, d)

(* Mutant: the first loop stops at the first entry it overwrites.          *)
registerDeviceOnce(info) ==
    /\ op = "idle"
    /\ LET hits == {i \in DOMAIN devices : Updates(devices[i], info)}
       IN  IF hits # {}
           THEN devices' = [devices EXCEPT ![Min(hits)] = info] /\ op' = "register"
           ELSE /\ Len(devices) < MaxDevices
                /\ devices' = Append(devices, info)
                /\ UNCHANGED op
    /\ UNCHANGED target

(* The first loop of registerDevice. If it overwrites an entry, the second *)
(* loop erases the duplicates of earlier entries; otherwise info is new.   *)
registerDevice(info) ==
    /\ op = "idle"
    /\ IF \E i \in DOMAIN devices : Updates(devices[i], info)
       THEN /\ devices' = [i \in DOMAIN devices |->
                              IF Updates(devices[i], info) THEN info ELSE devices[i]]
            /\ op' = "register"
       ELSE /\ Len(devices) < MaxDevices
            /\ devices' = Append(devices, info)
            /\ UNCHANGED op
    /\ UNCHANGED target

unregisterDevice(info) ==
    /\ op = "idle"
    /\ op' = "unregister"
    /\ target' = info
    /\ UNCHANGED devices

(* Mutant: the inner iterator starts at the outer one.                     *)
ToEraseItself(j) ==
    \/ op = "register" /\ \E i \in 1..j : Same(devices[i], devices[j])
    \/ op = "unregister" /\ Same(devices[j], target)

ToErase(j) ==
    \/ op = "register" /\ \E i \in 1..(j - 1) : Same(devices[i], devices[j])
    \/ op = "unregister" /\ Same(devices[j], target)

(* One erase of either loop, and the end of the loop.                      *)
eraseNext ==
    /\ \E j \in DOMAIN devices :
          /\ ToErase(j)
          /\ \A k \in 1..(j - 1) : ~ToErase(k)
          /\ devices' = RemoveAt(devices, j)
    /\ UNCHANGED <<op, target>>

eraseDone ==
    /\ op # "idle"
    /\ \A j \in DOMAIN devices : ~ToErase(j)
    /\ op' = "idle"
    /\ target' = Unknown
    /\ UNCHANGED devices

(* completeDeviceInformation writes the interface into entry i.            *)
fillInterface(i) ==
    /\ op = "idle"
    /\ devices' = [devices EXCEPT ![i] = Filled(@)]
    /\ UNCHANGED <<op, target>>

Init == devices = <<>> /\ op = "idle" /\ target = Unknown

Next ==
    \/ \E ip \in IPs : preRegisterDevice(ip)
    \/ \E s \in Serials : requireDevice(s)
    \/ \E info \in Infos : registerDevice(info)
    \/ \E info \in Given \cup Range(devices) : unregisterDevice(info)
    \/ eraseNext
    \/ eraseDone
    \/ \E i \in DOMAIN devices : fillInterface(i)

Spec == Init /\ [][Next]_vars

-----------------------------------------------------------------------------
(***************************************************************************)
(* Properties.                                                             *)
(***************************************************************************)

(* Every variable has its type.                                            *)
TypeOK ==
    /\ devices \in Seq(Device)
    /\ op \in {"idle", "register", "unregister"}
    /\ target \in Device

(* The list holds no device twice: "assume that if SusyID, Serial and IP   *)
(* is the same, it is the same device" (include/SpeedwireDevice.hpp).      *)
NoDuplicates ==
    op = "idle" => \A i, j \in DOMAIN devices : i < j => ~Same(devices[i], devices[j])

(* An announcement disappears as soon as a device answers to it: no other  *)
(* entry has the ip address of an entry that is announced by ip, or the    *)
(* serial number of one that is required. So getNumberOfMissingDevices     *)
(* counts devices that are missing.                                        *)
AnnouncementsOpen ==
    \A i, j \in DOMAIN devices : i # j =>
        /\ hasIPAddressOnly(devices[i]) => devices[i].ip # devices[j].ip
        /\ hasSerialNumberOnly(devices[i]) => devices[i].serial # devices[j].serial

(* The list is consistent: no device twice, and no announcement of a       *)
(* device that is there.                                                   *)
ListConsistent == TypeOK /\ NoDuplicates /\ AnnouncementsOpen

(* A device that is fully known stays so until it is unregistered: neither *)
(* a later packet nor the erasing of duplicates loses what is known.       *)
KnownStaysKnown ==
    [][op # "unregister" =>
         \A i \in DOMAIN devices : isComplete(devices[i]) =>
             \E j \in DOMAIN devices' :
                 Same(devices'[j], devices[i]) /\ isComplete(devices'[j])]_vars

=============================================================================
