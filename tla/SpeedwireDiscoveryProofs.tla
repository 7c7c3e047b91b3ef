---------------------- MODULE SpeedwireDiscoveryProofs ----------------------
(***************************************************************************)
(* Proofs about SpeedwireDiscovery, for any interfaces, subnets, retries   *)
(* and poll times that satisfy its assumptions, and any packets.           *)
(***************************************************************************)
EXTENDS SpeedwireDiscovery, FiniteSetTheorems, SequenceTheorems, TLAPS

(* What DeviceRegistryProofs proves about the list.                        *)
RegistryFacts == INSTANCE DeviceRegistryProofs

(* In a call, the users' unregisterDevice is over, and the only loop over  *)
(* the list is the one that completes it or the one of registerDevice.     *)
CallInv ==
    /\ phase # "idle" => op \in {"idle", "register"}
    /\ pos \in Nat \ {0}
    /\ phase = "query" => op = "idle" /\ pos <= Len(devices)

(* A burst of one send is a round of multicast requests or of requests to  *)
(* announced devices, and a longer one scans or finds nothing to send.     *)
BurstInv ==
    phase = "send" =>
        /\ num_retries > 0 /\ sends >= 1 /\ sends <= num_sends
        /\ num_sends = IF broadcast_counter = 0 \/ prereg_counter = 0 THEN 1 ELSE Burst

(* The rounds so far: one per retry, and one more if the counter says so.  *)
RoundsInv ==
    IF NumIfs = 0 THEN rounds = <<0, 0>>
    ELSE IF num_retries = 0 THEN rounds = <<NumRetries, NumRetries>>
    ELSE rounds = <<NumRetries - num_retries + (IF broadcast_counter = 0 THEN 0 ELSE 1),
                    NumRetries - num_retries + (IF prereg_counter = 0 THEN 0 ELSE 1)>>

(* The hosts before the current one, interface by interface.               *)
Passed(host) ==
    \/ host[1] < socket_counter
    \/ host[1] = socket_counter /\ host[2] < subnet_counter

(* The scan goes through the hosts in their order, and a retry is over     *)
(* only when the scan is.                                                  *)
ScanInv ==
    /\ IsFiniteSet(scanned) /\ scans = Cardinality(scanned)
    /\ subnet_counter >= 1
    /\ num_retries < NumRetries => socket_counter >= NumIfs
    /\ socket_counter # NoScan => scanned = {host \in ScanHosts : Passed(host)}

(* While no packet prolongs a poll too much, the time since the last send  *)
(* stays within the wait, until no retry is left.                          *)
QuietInv ==
    quiet /\ NumIfs > 0 /\ num_retries > 0 =>
        /\ phase \notin {"complete", "query"}
        /\ phase = "poll" =>
              \/ elapsed < Tolerance
              \/ broadcast_counter = 0 /\ num_sends = Burst /\ elapsed < Tolerance + LongPoll
        /\ phase \in {"loop", "send"} =>
              \/ elapsed < Tolerance + LongPoll
              \/ broadcast_counter = 0 /\ elapsed < MaxWait

(* An ip address that was announced has an entry, and is asked in the      *)
(* first round of requests to announced devices unless it has answered.    *)
WantedInv ==
    phase # "idle" =>
        \A ip \in wanted :
            /\ \E i \in DOMAIN devices : devices[i].ip = ip
            /\ rounds[2] > 0 => ip \in asked \/ ip \notin AnnouncedIPs

(* What keeps the list, and what steers the loop.                          *)
ListInv == CallInv /\ Registry!TypeOK /\ RegistryFacts!TypedInv
LoopInv == TypeOK /\ BurstInv /\ RoundsInv /\ ScanInv /\ QuietInv

IInv == ListInv /\ LoopInv /\ WantedInv

-----------------------------------------------------------------------------
(* The facts of DeviceRegistryProofs hold for the list of this module.     *)

LEMMA SameRegistry ==
    /\ Registry!Device = RegistryFacts!Device
    /\ Registry!TypeOK <=> RegistryFacts!TypeOK
    /\ Registry!Init <=> RegistryFacts!Init
    /\ \A d : Registry!hasIPAddressOnly(d) <=> RegistryFacts!hasIPAddressOnly(d)
    /\ \A d : Registry!isComplete(d) <=> RegistryFacts!isComplete(d)
    /\ \A d : Registry!Queried(d) = RegistryFacts!Queried(d)
    /\ Registry!Infos = RegistryFacts!Infos
    /\ Registry!vars = RegistryFacts!vars
    /\ Registry!Next <=> RegistryFacts!Next
<1>1. /\ Registry!Device = RegistryFacts!Device
      /\ Registry!TypeOK <=> RegistryFacts!TypeOK
      /\ Registry!Init <=> RegistryFacts!Init
      /\ Registry!vars = RegistryFacts!vars
  BY DEF Registry!Device, RegistryFacts!Device, Registry!Range, RegistryFacts!Range,
         Registry!TypeOK, RegistryFacts!TypeOK, Registry!Init,
         RegistryFacts!Init, Registry!Unknown, RegistryFacts!Unknown,
         Registry!vars, RegistryFacts!vars
<1>2. /\ \A d : Registry!hasIPAddressOnly(d) <=> RegistryFacts!hasIPAddressOnly(d)
      /\ \A d : Registry!isComplete(d) <=> RegistryFacts!isComplete(d)
      /\ \A d : Registry!Queried(d) = RegistryFacts!Queried(d)
  BY DEF Registry!hasIPAddressOnly, RegistryFacts!hasIPAddressOnly,
         Registry!isComplete, RegistryFacts!isComplete, Registry!Queried,
         RegistryFacts!Queried, Registry!addressComplete,
         RegistryFacts!addressComplete
<1>3. Registry!Infos = RegistryFacts!Infos
  BY DEF Registry!Infos, RegistryFacts!Infos, Registry!Reports,
         RegistryFacts!Reports, Registry!DeviceInfo, RegistryFacts!DeviceInfo,
         Registry!MatchingInterface, RegistryFacts!MatchingInterface,
         Registry!Filled, RegistryFacts!Filled, Registry!Queried,
         RegistryFacts!Queried
<1>4. Registry!Next <=> RegistryFacts!Next
  BY DEF Registry!Device, RegistryFacts!Device, Registry!Same, RegistryFacts!Same,
         Registry!addressComplete, RegistryFacts!addressComplete,
         Registry!hasIPAddressOnly, RegistryFacts!hasIPAddressOnly,
         Registry!hasSerialNumberOnly, RegistryFacts!hasSerialNumberOnly,
         Registry!isComplete, RegistryFacts!isComplete, Registry!Unknown,
         RegistryFacts!Unknown, Registry!MatchingInterface,
         RegistryFacts!MatchingInterface, Registry!DeviceInfo,
         RegistryFacts!DeviceInfo, Registry!Reports, RegistryFacts!Reports,
         Registry!Filled, RegistryFacts!Filled, Registry!Queried,
         RegistryFacts!Queried, Registry!Infos, RegistryFacts!Infos,
         Registry!preRegisterDevice, RegistryFacts!preRegisterDevice,
         Registry!requireDevice, RegistryFacts!requireDevice, Registry!Updates,
         RegistryFacts!Updates, Registry!registerDevice,
         RegistryFacts!registerDevice, Registry!unregisterDevice,
         RegistryFacts!unregisterDevice, Registry!ToErase,
         RegistryFacts!ToErase, Registry!eraseNext, RegistryFacts!eraseNext,
         Registry!eraseDone, RegistryFacts!eraseDone, Registry!fillInterface,
         RegistryFacts!fillInterface, Registry!Next, RegistryFacts!Next,
         Registry!vars, RegistryFacts!vars, Registry!RemoveAt,
         RegistryFacts!RemoveAt, Registry!Range, RegistryFacts!Range
<1> QED BY <1>1, <1>2, <1>3, <1>4

(* Every step of DeviceRegistry keeps the list typed, and the users'       *)
(* records are the only ones of unknown type.                              *)
LEMMA RegistryKeeps ==
    ASSUME Registry!TypeOK, RegistryFacts!TypedInv, [Registry!Next]_(Registry!vars)
    PROVE  Registry!TypeOK' /\ RegistryFacts!TypedInv'
<1>1. RegistryFacts!TypeOK /\ [RegistryFacts!Next]_(RegistryFacts!vars)
  BY SameRegistry DEF Registry!vars, RegistryFacts!vars
<1>2. RegistryFacts!TypeOK'
  BY <1>1, RegistryFacts!TypeStep, RegistryAssumption, SameRegistry
<1>3. RegistryFacts!TypedInv'
  BY <1>1, RegistryFacts!TypedStep, RegistryAssumption, SameRegistry
<1>4. Registry!TypeOK' <=> RegistryFacts!TypeOK'
  BY SameRegistry, PTL
<1> QED BY <1>2, <1>3, <1>4

LEMMA ListDomain ==
    ASSUME Registry!TypeOK
    PROVE  /\ Len(devices) \in Nat /\ DOMAIN devices = 1..Len(devices)
           /\ \A i \in 1..Len(devices) : devices[i] \in Registry!Device
BY LenProperties, ElementOfSeq DEF Registry!TypeOK

(* Only known ip addresses are announced.                                  *)
LEMMA AnnouncedAreIPs ==
    ASSUME Registry!TypeOK
    PROVE  AnnouncedIPs \subseteq IPs
<1>1. \A d \in Registry!Device : Registry!hasIPAddressOnly(d) => d.ip \in IPs
  BY DEF Registry!Device, Registry!hasIPAddressOnly
<1> QED BY <1>1, ListDomain DEF AnnouncedIPs

-----------------------------------------------------------------------------
(* Every step is a step of DeviceRegistry, or leaves the list alone.       *)

(* The actions that send.                                                  *)
Sends ==
    \/ sendMulticastDiscoveryRequestToSockets
    \/ sendUnicastDiscoveryRequestToDevices
    \/ sendUnicastDiscoveryRequestToSockets

LEMMA RegistrySteps ==
    ASSUME ListInv, [Next]_vars
    PROVE  [Registry!Next]_(Registry!vars)
<1>1. CASE UNCHANGED registry
  BY <1>1 DEF registry, Registry!vars
<1>2. ASSUME NEW full_scan, discoverDevices(full_scan) PROVE UNCHANGED registry
  BY <1>2 DEF discoverDevices
<1>3. CASE loopTurn
  BY <1>1, <1>3 DEF loopTurn
<1>4. CASE Sends
  BY <1>1, <1>4 DEF Sends, sendMulticastDiscoveryRequestToSockets,
       sendUnicastDiscoveryRequestToDevices, sendUnicastDiscoveryRequestToSockets, Sent
<1>5. CASE sendNothing
  BY <1>1, <1>5 DEF sendNothing
<1>6. CASE pollEnds
  BY <1>1, <1>6 DEF pollEnds
<1>7. CASE recvDiscoveryPackets
  <2>1. \A p \in Peers : p.ip \in IPs
    BY RegistryAssumption
  <2>2. Registry!Reports \subseteq Registry!Infos
    BY DEF Registry!Infos
  <2> QED BY <1>1, <1>7, <2>1, <2>2 DEF recvDiscoveryPackets, Registry!Next
<1>8. CASE completeInterface
  <2>1. pos <= Len(devices) => pos \in DOMAIN devices
    BY ListDomain DEF ListInv, CallInv
  <2> QED BY <1>1, <1>8, <2>1 DEF completeInterface, Registry!Next
<1>9. CASE queryDeviceType
  <2>1. CASE UNCHANGED registry
    BY <1>1, <2>1
  <2>2. ASSUME ~Registry!isComplete(devices[pos]), devices[pos].interface # None,
               Registry!isComplete(Registry!Queried(devices[pos])),
               Registry!registerDevice(Registry!Queried(devices[pos]))
        PROVE  Registry!Next
    <3>1. pos \in 1..Len(devices)
      BY <1>9, ListDomain DEF queryDeviceType, ListInv, CallInv
    <3>2. Registry!Queried(devices[pos]) = RegistryFacts!Queried(devices[pos])
      BY SameRegistry
    <3>3. RegistryFacts!TypeOK /\ RegistryFacts!TypedInv
      BY SameRegistry DEF ListInv
    <3>4. RegistryFacts!Queried(devices[pos]) \in RegistryFacts!Infos
      BY <2>2, <3>1, <3>2, <3>3, RegistryFacts!QueriedIsInfo, RegistryAssumption, SameRegistry
    <3>5. Registry!Queried(devices[pos]) \in Registry!Infos
      BY <3>2, <3>4, SameRegistry
    <3> QED BY <2>2, <3>5 DEF Registry!Next
  <2> QED BY <1>9, <2>1, <2>2 DEF queryDeviceType
<1>10. CASE User
  <2>1. Given \subseteq Registry!Infos
    BY DEF Registry!Infos
  <2>2. {devices[i] : i \in DOMAIN devices} = Registry!Range(devices)
    BY DEF Registry!Range
  <2> QED BY <1>10, <2>1, <2>2 DEF User, Registry!Next
<1>11. CASE Erase
  BY <1>11 DEF Erase, Registry!Next
<1>12. CASE UNCHANGED vars
  BY <1>1, <1>12 DEF vars
<1> QED BY <1>1, <1>2, <1>3, <1>4, <1>5, <1>6, <1>7, <1>8, <1>9, <1>10, <1>11, <1>12
        DEF Next, Step, Sends

(* What registerDevice, preRegisterDevice and the loops do to op.          *)
LEMMA CallStep ==
    ASSUME ListInv, [Next]_vars
    PROVE  CallInv'
<1> USE DEF CallInv
<1>1. ASSUME NEW full_scan, discoverDevices(full_scan) PROVE CallInv'
  BY <1>1 DEF discoverDevices, registry, ListInv
<1>2. CASE loopTurn
  BY <1>2 DEF loopTurn, registry, counters, ListInv
<1>3. CASE Sends
  BY <1>3 DEF Sends, sendMulticastDiscoveryRequestToSockets, Sending,
       sendUnicastDiscoveryRequestToDevices, sendUnicastDiscoveryRequestToSockets, Sent,
       registry, ListInv
<1>4. CASE sendNothing
  BY <1>4 DEF sendNothing, Sending, registry, ListInv
<1>5. CASE pollEnds
  BY <1>5 DEF pollEnds, Polling, registry, ListInv
<1>6. CASE recvDiscoveryPackets
  BY <1>6 DEF recvDiscoveryPackets, Polling, registry, ListInv,
       Registry!preRegisterDevice, Registry!registerDevice
<1>7. CASE completeInterface
  <2>1. pos <= Len(devices) => Len([devices EXCEPT ![pos] = Registry!Filled(@)]) = Len(devices)
    <3> SUFFICES ASSUME pos <= Len(devices)
                 PROVE  Len([devices EXCEPT ![pos] = Registry!Filled(@)]) = Len(devices)
      OBVIOUS
    <3>1. pos \in 1..Len(devices)
      BY ListDomain DEF ListInv
    <3>2. Registry!Filled(devices[pos]) \in Registry!Device \cup {Registry!Filled(devices[pos])}
      OBVIOUS
    <3>3. devices \in Seq(Registry!Device \cup {Registry!Filled(devices[pos])})
      BY SeqMonotonic DEF ListInv, Registry!TypeOK
    <3> QED BY <3>1, <3>2, <3>3, ExceptSeq
  <2> QED BY <1>7, <2>1 DEF completeInterface, Registry!fillInterface, registry, ListInv
<1>8. CASE queryDeviceType
  BY <1>8, ListDomain DEF queryDeviceType, registry, ListInv, Registry!registerDevice
<1>9. CASE User
  BY <1>9 DEF User, ListInv
<1>10. CASE Erase
  BY <1>10 DEF Erase, Registry!eraseNext, Registry!eraseDone, Registry!ToErase, ListInv
<1>11. CASE UNCHANGED vars
  BY <1>11 DEF vars, registry, ListInv
<1> QED BY <1>1, <1>2, <1>3, <1>4, <1>5, <1>6, <1>7, <1>8, <1>9, <1>10, <1>11
        DEF Next, Step, Sends

LEMMA ListStep == ListInv /\ [Next]_vars => ListInv'
BY RegistrySteps, CallStep, RegistryKeeps DEF ListInv

LEMMA ListInit == Init => ListInv
<1> SUFFICES ASSUME Init PROVE ListInv
  OBVIOUS
<1>1. devices = <<>> /\ Registry!TypeOK
  BY DEF Init, Registry!Init, Registry!TypeOK, Registry!Unknown, Registry!Device
<1>2. RegistryFacts!TypedInv
  BY <1>1 DEF RegistryFacts!TypedInv
<1>3. CallInv
  BY DEF Init, CallInv
<1> QED BY <1>1, <1>2, <1>3 DEF ListInv

LEMMA ListAlways == Spec => []ListInv
BY ListInit, ListStep, PTL DEF Spec

(* Whatever discoverDevices, its packets and its users do to the list of   *)
(* devices is what DeviceRegistry allows.                                  *)
THEOREM DiscoveryImplementsRegistry == Spec => ImplementsRegistry
<1>1. Init => Registry!Init
  BY DEF Init
<1>2. ListInv /\ [Next]_vars => [Registry!Next]_(Registry!vars)
  BY RegistrySteps
<1> QED BY <1>1, <1>2, ListAlways, PTL DEF Spec, ImplementsRegistry, Registry!Spec

-----------------------------------------------------------------------------
(* The counters, the retries and the time.                                 *)

LEMMA Numbers ==
    /\ NumIfs \in Nat /\ NoScan = NumIfs + 1
    /\ \A s \in 1..NumIfs : Subnets[s] \in Nat
    /\ NumRetries \in Nat \ {0} /\ Burst \in Nat /\ Burst > 1
    /\ ShortPoll \in Nat \ {0} /\ LongPoll \in Nat /\ ShortPoll <= LongPoll
    /\ MaxWait \in Nat /\ ScanLimit \in Nat /\ MaxPackets \in Nat
    /\ Tolerance \in Nat /\ Tolerance > 0 /\ Tolerance + LongPoll + ShortPoll = MaxWait
BY SubnetsAssumption, BoundsAssumption, TimesAssumption, LenProperties, ElementOfSeq
   DEF NumIfs, NoScan, Tolerance

(* The time does not run beyond the wait, and no poll is longer than the   *)
(* longer timeout, or than the shorter one after a burst.                  *)
LEMMA Waits ==
    ASSUME NEW e \in Nat, NEW t \in Nat
    PROVE  /\ AtMostWait(e + t) \in 0..MaxWait
           /\ AtMostWait(e + t) <= e + t
BY Numbers DEF AtMostWait

LEMMA PollTimes ==
    ASSUME num_sends \in {1, Burst}
    PROVE  /\ PollTime \in Nat \ {0} /\ PollTime <= LongPoll
           /\ num_sends = Burst => PollTime = ShortPoll
BY Numbers DEF PollTime

(* The types of the machine's own variables.                               *)
MachineOK ==
    /\ phase \in {"idle", "loop", "send", "poll", "complete", "query"}
    /\ broadcast_counter \in {0, NumIfs} /\ prereg_counter \in {0, NumIfs}
    /\ subnet_counter \in Nat /\ socket_counter \in 0..NoScan
    /\ num_retries \in 0..NumRetries
    /\ sends \in 0..Burst /\ num_sends \in {1, Burst} /\ elapsed \in 0..MaxWait
    /\ packets \in 0..MaxPackets /\ pos \in Nat
    /\ scanned \in SUBSET (Nat \X Nat) /\ scans \in Nat /\ rounds \in Nat \X Nat
    /\ wanted \subseteq IPs /\ asked \subseteq IPs /\ quiet \in BOOLEAN

LEMMA TypeParts == TypeOK <=> Registry!TypeOK /\ MachineOK
BY DEF TypeOK, MachineOK

(* Outside of the loop nothing but the phase, pos and the list changes.    *)
Outside ==
    \/ completeInterface
    \/ queryDeviceType
    \/ User
    \/ Erase

LEMMA OutsideKeeps ==
    ASSUME Outside, CallInv
    PROVE  /\ UNCHANGED <<counters, sends, num_sends, elapsed, packets, history>>
           /\ pos' \in Nat
           /\ \/ phase' = phase
              \/ phase \in {"complete", "query"} /\ phase' \in {"idle", "complete", "query"}
BY DEF Outside, CallInv, completeInterface, queryDeviceType, User, Erase, Machine

LEMMA NextParts ==
    ASSUME [Next]_vars
    PROVE  \/ \E full_scan \in BOOLEAN : discoverDevices(full_scan)
           \/ loopTurn \/ sendMulticastDiscoveryRequestToSockets
           \/ sendUnicastDiscoveryRequestToDevices \/ sendUnicastDiscoveryRequestToSockets
           \/ sendNothing \/ pollEnds \/ recvDiscoveryPackets \/ Outside
           \/ UNCHANGED vars
BY DEF Next, Step, Outside

(* The next host of the scan, or the next interface.                       *)
LEMMA ScanTypes ==
    ASSUME MachineOK, sendUnicastDiscoveryRequestToSockets
    PROVE  /\ subnet_counter' \in Nat /\ socket_counter' \in 0..NoScan
           /\ scanned' \in SUBSET (Nat \X Nat) /\ scans' \in Nat
<1>1. socket_counter + 1 \in 1..NumIfs /\ socket_counter \in Nat
  BY Numbers DEF MachineOK, sendUnicastDiscoveryRequestToSockets
<1>2. Subnets[socket_counter + 1] \in Nat
  BY <1>1, Numbers
<1> DEFINE max == Subnets[socket_counter + 1]
           next == IF max > ScanLimit THEN max ELSE subnet_counter
<1>3. next \in Nat
  BY <1>2 DEF MachineOK
<1>4. IF next < max
      THEN /\ scanned' = scanned \cup {<<socket_counter, next>>}
           /\ scans' = scans + 1
           /\ subnet_counter' = next + 1
           /\ socket_counter' = socket_counter
      ELSE /\ subnet_counter' = 1
           /\ socket_counter' = socket_counter + 1
           /\ scanned' = scanned /\ scans' = scans
  BY DEF sendUnicastDiscoveryRequestToSockets
<1> HIDE DEF next, max
<1> QED BY <1>1, <1>3, <1>4, Numbers DEF MachineOK

LEMMA RoundTypes ==
    ASSUME rounds \in Nat \X Nat
    PROVE  /\ [rounds EXCEPT ![1] = @ + 1] = <<rounds[1] + 1, rounds[2]>>
           /\ [rounds EXCEPT ![2] = @ + 1] = <<rounds[1], rounds[2] + 1>>
OBVIOUS

LEMMA MachineStep ==
    ASSUME MachineOK, CallInv, BurstInv, Registry!TypeOK, [Next]_vars
    PROVE  MachineOK'
<1> USE Numbers
<1>1. ASSUME NEW full_scan \in BOOLEAN, discoverDevices(full_scan) PROVE MachineOK'
  BY <1>1, AnnouncedAreIPs DEF discoverDevices, MachineOK
<1>2. CASE loopTurn
  BY <1>2 DEF loopTurn, MachineOK, counters, history
<1>3. CASE sendMulticastDiscoveryRequestToSockets
  BY <1>3, RoundTypes DEF sendMulticastDiscoveryRequestToSockets, Sending, Sent, BurstInv, MachineOK
<1>4. CASE sendUnicastDiscoveryRequestToDevices
  BY <1>4, RoundTypes, AnnouncedAreIPs
     DEF sendUnicastDiscoveryRequestToDevices, Sending, Sent, BurstInv, MachineOK
<1>5. CASE sendUnicastDiscoveryRequestToSockets
  <2>1. /\ subnet_counter' \in Nat /\ socket_counter' \in 0..NoScan
        /\ scanned' \in SUBSET (Nat \X Nat) /\ scans' \in Nat
    BY <1>5, ScanTypes
  <2>2. /\ phase' \in {"send", "poll"} /\ sends' = sends - 1 /\ sends >= 1 /\ elapsed' = 0
        /\ UNCHANGED <<num_retries, num_sends, packets, pos, wanted, quiet, broadcast_counter,
                       prereg_counter, rounds, asked>>
    BY <1>5 DEF sendUnicastDiscoveryRequestToSockets, Sending, Sent, BurstInv
  <2> QED BY <2>1, <2>2 DEF MachineOK
<1>6. CASE sendNothing
  BY <1>6 DEF sendNothing, Sending, BurstInv, MachineOK, history
<1>7. CASE pollEnds
  <2>1. \A t \in {ShortPoll, PollTime} : t \in Nat /\ AtMostWait(elapsed + t) \in 0..MaxWait
    BY PollTimes, Waits DEF MachineOK
  <2> QED BY <1>7, <2>1 DEF pollEnds, MachineOK, counters, history
<1>8. CASE recvDiscoveryPackets
  <2>1. \A t \in 0..(PollTime - 1) : t \in Nat /\ AtMostWait(elapsed + t) \in 0..MaxWait
    BY PollTimes, Waits DEF MachineOK
  <2> QED BY <1>8, <2>1 DEF recvDiscoveryPackets, MachineOK, counters
<1>9. CASE Outside
  BY <1>9, OutsideKeeps DEF MachineOK, counters, history
<1>10. CASE UNCHANGED vars
  BY <1>10 DEF vars, counters, history, MachineOK
<1> QED BY <1>1, <1>2, <1>3, <1>4, <1>5, <1>6, <1>7, <1>8, <1>9, <1>10, NextParts

LEMMA BurstStep ==
    ASSUME MachineOK, BurstInv, CallInv, [Next]_vars
    PROVE  BurstInv'
<1> USE Numbers
<1>1. ASSUME NEW full_scan \in BOOLEAN, discoverDevices(full_scan) PROVE BurstInv'
  BY <1>1 DEF discoverDevices, BurstInv
<1>2. CASE loopTurn
  BY <1>2 DEF loopTurn, BurstInv, MachineOK, counters
<1>3. CASE sendMulticastDiscoveryRequestToSockets
  BY <1>3 DEF sendMulticastDiscoveryRequestToSockets, Sending, Sent, BurstInv, MachineOK
<1>4. CASE sendUnicastDiscoveryRequestToDevices
  BY <1>4 DEF sendUnicastDiscoveryRequestToDevices, Sending, Sent, BurstInv, MachineOK
<1>5. CASE sendUnicastDiscoveryRequestToSockets
  <2>1. /\ phase = "send" /\ phase' = (IF sends = 1 THEN "poll" ELSE "send") /\ sends' = sends - 1
        /\ UNCHANGED <<num_retries, num_sends, broadcast_counter, prereg_counter>>
    BY <1>5 DEF sendUnicastDiscoveryRequestToSockets, Sending, Sent
  <2> QED BY <2>1 DEF BurstInv, MachineOK
<1>6. CASE sendNothing
  BY <1>6 DEF sendNothing, BurstInv
<1>7. CASE pollEnds
  BY <1>7 DEF pollEnds, BurstInv
<1>8. CASE recvDiscoveryPackets
  BY <1>8 DEF recvDiscoveryPackets, Polling, BurstInv
<1>9. CASE Outside
  BY <1>9, OutsideKeeps DEF BurstInv, counters, history
<1>10. CASE UNCHANGED vars
  BY <1>10 DEF vars, counters, history, BurstInv
<1> QED BY <1>1, <1>2, <1>3, <1>4, <1>5, <1>6, <1>7, <1>8, <1>9, <1>10, NextParts

LEMMA RoundsStep ==
    ASSUME MachineOK, BurstInv, CallInv, RoundsInv, [Next]_vars
    PROVE  RoundsInv'
<1> USE Numbers DEF RoundsInv
<1>0. rounds[1] \in Nat /\ rounds[2] \in Nat /\ rounds = <<rounds[1], rounds[2]>>
  BY DEF MachineOK
<1>1. ASSUME NEW full_scan \in BOOLEAN, discoverDevices(full_scan) PROVE RoundsInv'
  BY <1>1 DEF discoverDevices
<1>2. CASE loopTurn
  BY <1>2 DEF loopTurn, MachineOK, counters, history
<1>3. CASE sendMulticastDiscoveryRequestToSockets
  <2>1. /\ NumIfs > 0 /\ broadcast_counter = 0 /\ broadcast_counter' = NumIfs /\ num_retries > 0
        /\ rounds' = <<rounds[1] + 1, rounds[2]>>
        /\ UNCHANGED <<prereg_counter, num_retries>>
    BY <1>3, RoundTypes
       DEF sendMulticastDiscoveryRequestToSockets, Sending, Sent, BurstInv, MachineOK
  <2> QED BY <2>1 DEF MachineOK
<1>4. CASE sendUnicastDiscoveryRequestToDevices
  <2>1. /\ NumIfs > 0 /\ prereg_counter = 0 /\ prereg_counter' = NumIfs /\ num_retries > 0
        /\ rounds' = <<rounds[1], rounds[2] + 1>>
        /\ UNCHANGED <<broadcast_counter, num_retries>>
    BY <1>4, RoundTypes
       DEF sendUnicastDiscoveryRequestToDevices, Sending, Sent, BurstInv, MachineOK
  <2> QED BY <2>1 DEF MachineOK
<1>5. CASE sendUnicastDiscoveryRequestToSockets
  BY <1>5 DEF sendUnicastDiscoveryRequestToSockets, Sent
<1>6. CASE sendNothing
  <2>1. /\ num_retries > 0 /\ num_retries' = num_retries - 1
        /\ broadcast_counter = NumIfs /\ prereg_counter = NumIfs
        /\ broadcast_counter' = 0 /\ prereg_counter' = 0 /\ rounds' = rounds
    BY <1>6 DEF sendNothing, Sending, BurstInv, MachineOK, history
  <2> QED BY <2>1 DEF MachineOK
<1>7. CASE pollEnds
  BY <1>7 DEF pollEnds, counters, history
<1>8. CASE recvDiscoveryPackets
  BY <1>8 DEF recvDiscoveryPackets, counters
<1>9. CASE Outside
  BY <1>9, OutsideKeeps DEF counters, history
<1>10. CASE UNCHANGED vars
  BY <1>10 DEF vars, counters, history
<1> QED BY <1>1, <1>2, <1>3, <1>4, <1>5, <1>6, <1>7, <1>8, <1>9, <1>10, NextParts

(* A send starts the wait again; only the poll after a burst that found    *)
(* nothing to send may use up what is left of it.                          *)
LEMMA QuietStep ==
    ASSUME MachineOK, BurstInv, CallInv, QuietInv, [Next]_vars
    PROVE  QuietInv'
<1> USE Numbers DEF QuietInv
<1>1. ASSUME NEW full_scan \in BOOLEAN, discoverDevices(full_scan) PROVE QuietInv'
  BY <1>1 DEF discoverDevices
<1>2. CASE loopTurn
  BY <1>2 DEF loopTurn, MachineOK, counters, history
<1>3. CASE Sends
  <2>1. /\ phase = "send" /\ phase' \in {"poll", "send"} /\ elapsed' = 0
    BY <1>3 DEF Sends, sendMulticastDiscoveryRequestToSockets, Sending, Sent,
         sendUnicastDiscoveryRequestToDevices, sendUnicastDiscoveryRequestToSockets
  <2> QED BY <2>1 DEF MachineOK
<1>4. CASE sendNothing
  <2>1. /\ phase = "send" /\ phase' = "poll" /\ num_retries > 0
        /\ broadcast_counter = NumIfs /\ prereg_counter = NumIfs /\ broadcast_counter' = 0
        /\ UNCHANGED <<elapsed, num_sends, quiet>>
    BY <1>4 DEF sendNothing, Sending, BurstInv, MachineOK, history
  <2>2. NumIfs > 0 => num_sends = Burst
    BY <2>1 DEF BurstInv
  <2> QED BY <2>1, <2>2 DEF MachineOK
<1>5. CASE pollEnds
  <2>1. PICK t \in {ShortPoll, PollTime} : elapsed' = AtMostWait(elapsed + t)
    BY <1>5 DEF pollEnds
  <2>2. /\ t <= LongPoll /\ elapsed' \in Nat /\ elapsed' <= elapsed + t
        /\ num_sends = Burst => t = ShortPoll
    BY <2>1, PollTimes, Waits DEF MachineOK
  <2>3. /\ phase = "poll" /\ phase' = "loop"
        /\ UNCHANGED <<broadcast_counter, num_retries, num_sends, quiet>>
    BY <1>5 DEF pollEnds, Polling, counters, history
  <2>4. t \in Nat /\ elapsed \in Nat
    BY PollTimes DEF MachineOK
  <2> QED BY <2>2, <2>3, <2>4
<1>6. CASE recvDiscoveryPackets
  <2>1. /\ phase = "poll" /\ phase' = "poll" /\ num_retries' = num_retries
        /\ quiet' => num_retries = 0 \/ elapsed' < Tolerance
    BY <1>6 DEF recvDiscoveryPackets, Polling, counters
  <2> QED BY <2>1
<1>7. CASE Outside
  BY <1>7, OutsideKeeps DEF counters, history
<1>8. CASE UNCHANGED vars
  BY <1>8 DEF vars, counters, history
<1> QED BY <1>1, <1>2, <1>3, <1>4, <1>5, <1>6, <1>7, <1>8, NextParts DEF Sends

-----------------------------------------------------------------------------
(* The scan.                                                               *)

(* The hosts by interface and host number.                                 *)
LEMMA ScanHostsByInterface ==
    /\ ScanHosts \subseteq Nat \X Nat
    /\ \A a, b \in Nat :
          <<a, b>> \in ScanHosts <=>
              /\ a + 1 \in 1..NumIfs /\ Subnets[a + 1] <= ScanLimit
              /\ b \in 1..(Subnets[a + 1] - 1)
<1> DEFINE small == {k \in 1..NumIfs : Subnets[k] <= ScanLimit}
           hosts(s) == {<<s - 1, h>> : h \in 1..(Subnets[s] - 1)}
<1>1. \A host : host \in ScanHosts <=> \E s \in small : host \in hosts(s)
  BY DEF ScanHosts
<1>2. ASSUME NEW host \in ScanHosts PROVE host \in Nat \X Nat
  <2>1. PICK s \in small : host \in hosts(s)
    BY <1>1, <1>2
  <2>2. PICK h \in 1..(Subnets[s] - 1) : host = <<s - 1, h>>
    BY <2>1
  <2>3. s \in 1..NumIfs /\ Subnets[s] \in Nat
    BY Numbers
  <2> QED BY <2>2, <2>3, Numbers
<1>3. ASSUME NEW a \in Nat, NEW b \in Nat
      PROVE  <<a, b>> \in ScanHosts <=>
                 a + 1 \in small /\ b \in 1..(Subnets[a + 1] - 1)
  <2>1. ASSUME <<a, b>> \in ScanHosts
        PROVE  a + 1 \in small /\ b \in 1..(Subnets[a + 1] - 1)
    <3>1. PICK s \in small : <<a, b>> \in hosts(s)
      BY <1>1, <2>1
    <3>2. PICK h \in 1..(Subnets[s] - 1) : <<a, b>> = <<s - 1, h>>
      BY <3>1
    <3>3. a = s - 1 /\ b = h /\ s \in Int
      BY <3>2, Numbers
    <3>4. a + 1 = s
      BY <3>3
    <3> QED BY <3>1, <3>2, <3>3, <3>4
  <2>2. ASSUME a + 1 \in small, b \in 1..(Subnets[a + 1] - 1)
        PROVE  <<a, b>> \in ScanHosts
    <3>1. (a + 1) - 1 = a
      OBVIOUS
    <3>2. <<a, b>> \in hosts(a + 1)
      BY <2>2, <3>1
    <3> QED BY <1>1, <2>2, <3>2
  <2> QED BY <2>1, <2>2
<1> QED BY <1>2, <1>3

LEMMA ScanStep ==
    ASSUME MachineOK, BurstInv, CallInv, ScanInv, [Next]_vars
    PROVE  ScanInv'
<1> USE Numbers
<1> DEFINE Kept == UNCHANGED <<subnet_counter, socket_counter, num_retries, scanned, scans>>
<1>1. CASE Kept
  BY <1>1 DEF ScanInv, Passed
<1>2. ASSUME NEW full_scan \in BOOLEAN, discoverDevices(full_scan) PROVE ScanInv'
  <2>1. /\ scanned' = {} /\ scans' = 0 /\ subnet_counter' = 1 /\ num_retries' = NumRetries
        /\ socket_counter' \in {0, NoScan}
    BY <1>2 DEF discoverDevices
  <2>2. \A host \in ScanHosts : socket_counter' = 0 => ~Passed(host)'
    <3> SUFFICES ASSUME NEW host \in ScanHosts, socket_counter' = 0 PROVE ~Passed(host)'
      OBVIOUS
    <3>1. host[1] \in Nat /\ host[2] \in Nat /\ <<host[1], host[2]>> \in ScanHosts
      BY ScanHostsByInterface
    <3>2. host[2] >= 1
      BY <3>1, ScanHostsByInterface
    <3> QED BY <2>1, <3>1, <3>2 DEF Passed
  <2>3. IsFiniteSet({}) /\ Cardinality({}) = 0
    BY FS_EmptySet
  <2> QED BY <2>1, <2>2, <2>3 DEF ScanInv
<1>3. CASE loopTurn
  BY <1>1, <1>3 DEF loopTurn, counters, history
<1>4. CASE sendMulticastDiscoveryRequestToSockets
  BY <1>1, <1>4 DEF sendMulticastDiscoveryRequestToSockets, Sent
<1>5. CASE sendUnicastDiscoveryRequestToDevices
  BY <1>1, <1>5 DEF sendUnicastDiscoveryRequestToDevices, Sent
<1>6. CASE sendUnicastDiscoveryRequestToSockets
  <2>1. socket_counter + 1 \in 1..NumIfs /\ socket_counter \in Nat /\ socket_counter < NumIfs
    BY <1>6 DEF MachineOK, sendUnicastDiscoveryRequestToSockets
  <2> DEFINE max == Subnets[socket_counter + 1]
             here == <<socket_counter, subnet_counter>>
             done == {host \in ScanHosts : Passed(host)}
  <2>2. max \in Nat
    BY <2>1
  <2>3. /\ num_retries' = num_retries
        /\ IF max <= ScanLimit /\ subnet_counter < max
           THEN /\ scanned' = scanned \cup {here}
                /\ scans' = scans + 1
                /\ subnet_counter' = subnet_counter + 1
                /\ socket_counter' = socket_counter
           ELSE /\ subnet_counter' = 1
                /\ socket_counter' = socket_counter + 1
                /\ scanned' = scanned /\ scans' = scans
    BY <1>6, <2>2 DEF sendUnicastDiscoveryRequestToSockets, Sent, MachineOK
  <2>4. /\ scanned = done /\ IsFiniteSet(scanned) /\ scans = Cardinality(scanned)
        /\ subnet_counter \in Nat /\ subnet_counter >= 1
        /\ num_retries < NumRetries => socket_counter >= NumIfs
    BY <2>1 DEF ScanInv, MachineOK
  <2>5. ASSUME NEW host \in ScanHosts
        PROVE  /\ host[1] \in Nat /\ host[2] \in Nat /\ host = <<host[1], host[2]>>
               /\ host[1] = socket_counter => max <= ScanLimit /\ host[2] \in 1..(max - 1)
    <3>1. host[1] \in Nat /\ host[2] \in Nat /\ host = <<host[1], host[2]>>
      BY ScanHostsByInterface
    <3> QED BY <3>1, ScanHostsByInterface
  <2>6. here \in ScanHosts <=> max <= ScanLimit /\ subnet_counter \in 1..(max - 1)
    BY <2>1, <2>4, ScanHostsByInterface
  <2> HIDE DEF max
  <2>7. CASE max <= ScanLimit /\ subnet_counter < max
    <3>1. here \in ScanHosts
      BY <2>2, <2>4, <2>6, <2>7
    <3>2. here \notin done
      BY <2>1, <2>4 DEF Passed
    <3>3. \A host \in ScanHosts : Passed(host)' <=> Passed(host) \/ host = here
      <4> SUFFICES ASSUME NEW host \in ScanHosts
                   PROVE  Passed(host)' <=> Passed(host) \/ host = here
        OBVIOUS
      <4>1. host = here <=> host[1] = socket_counter /\ host[2] = subnet_counter
        BY <2>5
      <4> QED BY <2>1, <2>3, <2>4, <2>5, <2>7, <4>1 DEF Passed
    <3>4. scanned' = {host \in ScanHosts : Passed(host)'}
      BY <2>3, <2>4, <2>7, <3>1, <3>3
    <3>5. IsFiniteSet(scanned') /\ scans' = Cardinality(scanned')
      <4>1. scanned' = scanned \cup {here} /\ here \notin scanned /\ scans' = scans + 1
        BY <2>3, <2>4, <2>7, <3>2
      <4>2. /\ IsFiniteSet(scanned \cup {here})
            /\ Cardinality(scanned \cup {here}) = Cardinality(scanned) + 1
        <5> HIDE DEF here
        <5> QED BY <2>4, <4>1, FS_AddElement
      <4> QED BY <2>4, <4>1, <4>2
    <3> QED BY <2>1, <2>3, <2>4, <2>7, <3>4, <3>5 DEF ScanInv
  <2>8. CASE ~(max <= ScanLimit /\ subnet_counter < max)
    <3>1. \A host \in ScanHosts : Passed(host)' <=> Passed(host)
      <4> SUFFICES ASSUME NEW host \in ScanHosts PROVE Passed(host)' <=> Passed(host)
        OBVIOUS
      <4>1. host[1] \in Nat /\ host[2] \in Nat
            /\ (host[1] = socket_counter => max <= ScanLimit /\ host[2] \in 1..(max - 1))
        BY <2>5
      <4>2. host[1] = socket_counter => host[2] < subnet_counter
        BY <2>2, <2>4, <2>8, <4>1
      <4>3. host[1] = socket_counter + 1 => <<host[1], host[2]>> \in ScanHosts /\ host[2] >= 1
        BY <2>1, <2>5, <4>1, ScanHostsByInterface
      <4> QED BY <2>1, <2>3, <2>8, <4>1, <4>2, <4>3 DEF Passed
    <3>2. scanned' = {host \in ScanHosts : Passed(host)'}
      BY <2>3, <2>4, <2>8, <3>1
    <3> QED BY <2>1, <2>3, <2>4, <2>8, <3>2 DEF ScanInv
  <2> QED BY <2>7, <2>8
<1>7. CASE sendNothing
  <2>1. socket_counter >= NumIfs /\ UNCHANGED <<subnet_counter, socket_counter, scanned, scans>>
    BY <1>7 DEF sendNothing, history
  <2> QED BY <2>1 DEF ScanInv, Passed
<1>8. CASE pollEnds
  BY <1>1, <1>8 DEF pollEnds, counters, history
<1>9. CASE recvDiscoveryPackets
  BY <1>1, <1>9 DEF recvDiscoveryPackets, counters
<1>10. CASE Outside
  BY <1>1, <1>10, OutsideKeeps DEF counters, history
<1>11. CASE UNCHANGED vars
  BY <1>1, <1>11 DEF vars, counters, history
<1> QED BY <1>2, <1>3, <1>4, <1>5, <1>6, <1>7, <1>8, <1>9, <1>10, <1>11, NextParts

-----------------------------------------------------------------------------
(* The announced devices.                                                  *)

AnnouncedByEntries ==
    \A ip : ip \in AnnouncedIPs <=>
        \E i \in 1..Len(devices) :
            RegistryFacts!hasIPAddressOnly(devices[i]) /\ devices[i].ip = ip

LEMMA AnnouncedMembers == Registry!TypeOK => AnnouncedByEntries
<1> SUFFICES ASSUME Registry!TypeOK, NEW ip
             PROVE  ip \in AnnouncedIPs <=>
                        \E i \in 1..Len(devices) :
                            RegistryFacts!hasIPAddressOnly(devices[i]) /\ devices[i].ip = ip
  BY DEF AnnouncedByEntries
<1>1. DOMAIN devices = 1..Len(devices)
  BY ListDomain
<1> QED BY <1>1, SameRegistry DEF AnnouncedIPs

(* In a call, no step takes the last entry of an ip address away, or       *)
(* announces the ip address again.                                         *)
LEMMA WantedKept ==
    ASSUME ListInv, MachineOK, WantedInv, phase # "idle", [Next]_vars, NEW ip \in wanted
    PROVE  /\ \E i \in DOMAIN devices' : devices'[i].ip = ip
           /\ ip \notin AnnouncedIPs => ip \notin AnnouncedIPs'
<1>1. /\ Registry!TypeOK /\ Registry!TypeOK' /\ DOMAIN devices = 1..Len(devices)
      /\ [Registry!Next]_(Registry!vars) /\ op # "unregister"
  BY RegistrySteps, ListStep, ListDomain DEF ListInv, CallInv
<1>2. DOMAIN devices' = 1..Len(devices')
  BY <1>1, LenProperties DEF Registry!TypeOK
<1>3. RegistryFacts!TypeOK /\ [RegistryFacts!Next]_(RegistryFacts!vars)
  BY <1>1, SameRegistry DEF Registry!vars, RegistryFacts!vars
<1>4. PICK i \in 1..Len(devices) : devices[i].ip = ip
  BY <1>1 DEF WantedInv
<1>5. ip \in IPs
  BY DEF MachineOK
<1>6. /\ \E j \in 1..Len(devices') : devices'[j].ip = ip
      /\ \A j \in 1..Len(devices') :
            RegistryFacts!hasIPAddressOnly(devices'[j]) /\ devices'[j].ip = ip =>
                \E l \in 1..Len(devices) :
                    RegistryFacts!hasIPAddressOnly(devices[l]) /\ devices[l].ip = ip
  BY <1>1, <1>3, <1>4, <1>5, RegistryFacts!AddressesKept, RegistryAssumption, SameRegistry
<1>7. ip \in AnnouncedIPs' <=>
          \E j \in 1..Len(devices') :
              RegistryFacts!hasIPAddressOnly(devices'[j]) /\ devices'[j].ip = ip
  <2>1. Registry!TypeOK' => AnnouncedByEntries'
    BY AnnouncedMembers, PTL
  <2> QED BY <1>1, <2>1
          DEF AnnouncedByEntries, RegistryFacts!hasIPAddressOnly, RegistryFacts!addressComplete
<1> QED BY <1>1, <1>2, <1>6, <1>7, AnnouncedMembers DEF AnnouncedByEntries

LEMMA WantedStep ==
    ASSUME ListInv, MachineOK, WantedInv, [Next]_vars
    PROVE  WantedInv'
<1>1. ASSUME NEW full_scan \in BOOLEAN, discoverDevices(full_scan) PROVE WantedInv'
  <2>1. wanted' = AnnouncedIPs /\ rounds' = <<0, 0>> /\ devices' = devices
    BY <1>1 DEF discoverDevices, registry
  <2>2. \A ip \in AnnouncedIPs : \E i \in DOMAIN devices : devices[i].ip = ip
    BY DEF AnnouncedIPs
  <2> QED BY <2>1, <2>2 DEF WantedInv
<1>2. ASSUME phase = "idle", phase' # "idle"
      PROVE  \E full_scan \in BOOLEAN : discoverDevices(full_scan)
  BY <1>2 DEF Next, Step, loopTurn, sendMulticastDiscoveryRequestToSockets,
       sendUnicastDiscoveryRequestToDevices, sendUnicastDiscoveryRequestToSockets, sendNothing,
       Sending, pollEnds, recvDiscoveryPackets, Polling, completeInterface, queryDeviceType, User,
       Erase, vars
<1>3. CASE sendUnicastDiscoveryRequestToDevices
  <2>1. /\ phase = "send" /\ wanted' = wanted /\ asked' = asked \cup AnnouncedIPs
        /\ devices' = devices
    BY <1>3 DEF sendUnicastDiscoveryRequestToDevices, Sending, Sent, registry
  <2>2. AnnouncedIPs' = AnnouncedIPs
    BY <2>1 DEF AnnouncedIPs, Registry!hasIPAddressOnly, Registry!addressComplete
  <2> QED BY <2>1, <2>2 DEF WantedInv
<1>4. ASSUME phase # "idle", wanted' = wanted, asked' = asked, rounds'[2] = rounds[2]
      PROVE  WantedInv'
  BY <1>4, WantedKept DEF WantedInv
<1>5. CASE phase = "idle" /\ phase' = "idle"
  BY <1>5 DEF WantedInv
<1>6. CASE phase # "idle" /\ ~sendUnicastDiscoveryRequestToDevices
  <2>1. ~\E full_scan \in BOOLEAN : discoverDevices(full_scan)
    BY <1>6 DEF discoverDevices
  <2>2. CASE loopTurn
    BY <1>4, <1>6, <2>2 DEF loopTurn, history
  <2>3. CASE sendMulticastDiscoveryRequestToSockets
    <3>1. rounds'[2] = rounds[2]
      BY <2>3, RoundTypes DEF sendMulticastDiscoveryRequestToSockets, MachineOK
    <3> QED BY <1>4, <1>6, <2>3, <3>1 DEF sendMulticastDiscoveryRequestToSockets, Sent
  <2>4. CASE sendUnicastDiscoveryRequestToSockets
    BY <1>4, <1>6, <2>4 DEF sendUnicastDiscoveryRequestToSockets, Sent
  <2>5. CASE sendNothing
    BY <1>4, <1>6, <2>5 DEF sendNothing, history
  <2>6. CASE pollEnds
    BY <1>4, <1>6, <2>6 DEF pollEnds, history
  <2>7. CASE recvDiscoveryPackets
    BY <1>4, <1>6, <2>7 DEF recvDiscoveryPackets
  <2>8. CASE Outside
    BY <1>4, <1>6, <2>8, OutsideKeeps DEF history, ListInv
  <2>9. CASE UNCHANGED vars
    BY <1>4, <1>6, <2>9 DEF vars, history
  <2> QED BY <1>6, <2>1, <2>2, <2>3, <2>4, <2>5, <2>6, <2>7, <2>8, <2>9, NextParts
<1> QED BY <1>1, <1>2, <1>3, <1>5, <1>6

-----------------------------------------------------------------------------
(* The results.                                                            *)

LEMMA InitIInv == Init => IInv
<1> SUFFICES ASSUME Init PROVE IInv
  OBVIOUS
<1> USE Numbers
<1>1. ListInv
  BY ListInit
<1>2. MachineOK
  BY DEF Init, MachineOK
<1>3. BurstInv /\ RoundsInv /\ QuietInv /\ WantedInv
  BY DEF Init, BurstInv, RoundsInv, QuietInv, WantedInv
<1>4. ScanInv
  BY FS_EmptySet DEF Init, ScanInv
<1> QED BY <1>1, <1>2, <1>3, <1>4, TypeParts DEF IInv, LoopInv, ListInv

LEMMA IInvStep == IInv /\ [Next]_vars => IInv'
<1> SUFFICES ASSUME IInv, [Next]_vars PROVE IInv'
  OBVIOUS
<1>1. ListInv /\ MachineOK /\ CallInv /\ Registry!TypeOK /\ BurstInv /\ RoundsInv /\ ScanInv
      /\ QuietInv /\ WantedInv
  BY TypeParts DEF IInv, LoopInv, ListInv
<1>2. ListInv' /\ Registry!TypeOK'
  BY <1>1, ListStep DEF ListInv
<1>3. MachineOK'
  BY <1>1, MachineStep
<1>4. TypeOK'
  <2>1. TypeOK' <=> Registry!TypeOK' /\ MachineOK'
    BY TypeParts, PTL
  <2> QED BY <1>2, <1>3, <2>1
<1>5. BurstInv' /\ RoundsInv' /\ ScanInv' /\ QuietInv' /\ WantedInv'
  BY <1>1, BurstStep, RoundsStep, ScanStep, QuietStep, WantedStep
<1> QED BY <1>2, <1>4, <1>5 DEF IInv, LoopInv

LEMMA IInvAlways == Spec => []IInv
BY InitIInv, IInvStep, PTL DEF Spec

(* A quiet call comes to completing the list only when no retry is left.   *)
LEMMA QuietCallEnds ==
    ASSUME IInv, phase = "complete", quiet, NumIfs > 0
    PROVE  num_retries = 0 /\ rounds = <<NumRetries, NumRetries>> /\ socket_counter >= NumIfs
BY Numbers, TypeParts DEF IInv, LoopInv, QuietInv, RoundsInv, ScanInv, MachineOK

(* For any number and size of subnets: whatever packets arrive within the  *)
(* tolerance, each call repeats both rounds of requests once per retry and *)
(* a full scan sends one request to each host, none twice and none left    *)
(* out.                                                                    *)
THEOREM DiscoveryLoopCovers == Spec => []LoopCovers
<1>1. ASSUME IInv PROVE LoopCovers
  <2> USE Numbers
  <2>1. TypeOK /\ MachineOK /\ ScanInv /\ RoundsInv
    BY <1>1, TypeParts DEF IInv, LoopInv
  <2>2. RoundsComplete
    BY <1>1, <2>1, QuietCallEnds DEF RoundsComplete, RoundsInv
  <2>3. ASSUME phase = "complete", quiet, socket_counter # NoScan
        PROVE  scanned = ScanHosts /\ scans = Cardinality(ScanHosts)
    <3>1. socket_counter = NumIfs
      BY <1>1, <2>1, <2>3, QuietCallEnds DEF MachineOK
    <3>2. \A host \in ScanHosts : Passed(host)
      <4> SUFFICES ASSUME NEW host \in ScanHosts PROVE Passed(host)
        OBVIOUS
      <4>1. host[1] \in Nat /\ host[2] \in Nat /\ <<host[1], host[2]>> \in ScanHosts
        BY ScanHostsByInterface
      <4>2. host[1] + 1 \in 1..NumIfs
        BY <4>1, ScanHostsByInterface
      <4> QED BY <3>1, <4>1, <4>2 DEF Passed
    <3> QED BY <2>1, <2>3, <3>2 DEF ScanInv
  <2> QED BY <2>1, <2>2, <2>3 DEF LoopCovers, ScanCovers
<1> QED BY <1>1, IInvAlways, PTL

(* Each device that was announced by ip address before the call is asked   *)
(* or has shown itself, whatever is announced, registered and erased       *)
(* meanwhile.                                                              *)
THEOREM AnnouncedDevicesAsked == Spec => []AnnouncedAsked
<1>1. ASSUME IInv PROVE AnnouncedAsked
  BY <1>1, Numbers, QuietCallEnds DEF AnnouncedAsked, IInv, WantedInv
<1> QED BY <1>1, IInvAlways, PTL

(* During discovery, too, no announcement stays in the list of a device    *)
(* that is there.                                                          *)
THEOREM DiscoveryKeepsAnnouncementsOpen == Spec => []Registry!AnnouncementsOpen
<1> DEFINE Inv == ListInv /\ RegistryFacts!EntriesInv /\ RegistryFacts!AnnouncementsOpen
<1>1. Init => Inv
  <2> SUFFICES ASSUME Init PROVE Inv
    OBVIOUS
  <2>1. devices = <<>>
    BY DEF Init, Registry!Init
  <2> QED BY <2>1, ListInit DEF RegistryFacts!EntriesInv, RegistryFacts!AnnouncementsOpen
<1>2. Inv /\ [Next]_vars => Inv'
  <2> SUFFICES ASSUME Inv, [Next]_vars PROVE Inv'
    OBVIOUS
  <2>1. ListInv'
    BY ListStep
  <2>2. RegistryFacts!TypeOK /\ [RegistryFacts!Next]_(RegistryFacts!vars)
    BY RegistrySteps, SameRegistry DEF ListInv, Registry!vars, RegistryFacts!vars
  <2>3. RegistryFacts!EntriesInv' /\ RegistryFacts!AnnouncementsOpen'
    BY <2>2, RegistryFacts!EntriesStep, RegistryAssumption, SameRegistry
  <2> QED BY <2>1, <2>3
<1>3. Inv => Registry!AnnouncementsOpen
  BY DEF Registry!AnnouncementsOpen, RegistryFacts!AnnouncementsOpen,
     Registry!hasIPAddressOnly, RegistryFacts!hasIPAddressOnly,
     Registry!hasSerialNumberOnly, RegistryFacts!hasSerialNumberOnly,
     Registry!addressComplete, RegistryFacts!addressComplete
<1> HIDE DEF Inv
<1> QED BY <1>1, <1>2, <1>3, PTL DEF Spec

=============================================================================
