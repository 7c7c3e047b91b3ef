------------------------- MODULE SpeedwireDiscovery -------------------------
(***************************************************************************)
(* discoverDevices (src/SpeedwireDiscovery.cpp): the state machine that    *)
(* sends multicast requests, then unicast requests to announced devices,   *)
(* then unicast requests to all hosts of the local subnets, polls for the  *)
(* answers in between, and finally completes the device list. The list is  *)
(* the one of DeviceRegistry.                                              *)
(*                                                                         *)
(* Time is counted in units of the shortest poll. Packets that arrive      *)
(* during a poll prolong it, because poll starts again with its timeout    *)
(* after each of them.                                                     *)
(***************************************************************************)
EXTENDS Integers, Sequences, FiniteSets

CONSTANTS IPs, None, Serials, Peers, LocalInterface, Sockets, Given, MaxDevices,
          Subnets,      \* per local interface: 2^(32 - prefix length) - 1
          ScanLimit,    \* the largest subnet that is scanned, 0xff
          NumRetries,   \* 3
          Burst,        \* num_sends once the announced devices are asked, 10
          MaxWait,      \* maxWaitTimeInMillis, 2000
          LongPoll,     \* the poll timeout after a single send, 200
          ShortPoll,    \* the poll timeout after a burst, 10
          MaxPackets    \* bound: packets that arrive during one poll

ASSUME SubnetsAssumption == Subnets \in Seq(Nat)
ASSUME BoundsAssumption == MaxPackets \in Nat /\ ScanLimit \in Nat

(* What the numbers in the code have in common: some retries, more than    *)
(* one send per burst, and a wait that outlasts a poll of either length.   *)
ASSUME TimesAssumption ==
    /\ NumRetries \in Nat \ {0} /\ Burst \in Nat /\ Burst > 1
    /\ ShortPoll \in Nat \ {0} /\ LongPoll \in Nat /\ ShortPoll <= LongPoll
    /\ MaxWait \in Nat /\ LongPoll + ShortPoll < MaxWait

VARIABLES devices, op, target,    \* the device list, see DeviceRegistry
          phase,                  \* where discoverDevices is
          broadcast_counter, prereg_counter, subnet_counter, socket_counter,
          num_retries,
          sends,                  \* sends left in the current burst
          num_sends,              \* decides the poll timeout
          elapsed,                \* time since startTimeInMillis
          packets,                \* packets of the current poll
          pos,                    \* the entry that is being completed
          scanned,                \* history: hosts that were scanned
          scans,                  \* history: requests sent to them
          rounds,                 \* history: multicast and announced device rounds
          wanted,                 \* history: ips announced before the call
          asked,                  \* history: ips that unicast requests went to
          quiet                   \* history: no packet prolonged a poll too much

registry == <<devices, op, target>>
counters == <<broadcast_counter, prereg_counter, subnet_counter, socket_counter, num_retries>>
history  == <<scanned, scans, rounds, wanted, asked, quiet>>
vars == <<registry, phase, counters, sends, num_sends, elapsed, packets, pos, history>>

Registry == INSTANCE DeviceRegistry

(* The assumptions of DeviceRegistry about its constants.                  *)
ASSUME RegistryAssumption ==
    /\ None \notin IPs
    /\ Serials \subseteq Nat \ {0}
    /\ Peers \subseteq [susy : Nat \ {0}, serial : Nat \ {0}, ip : IPs]
    /\ DOMAIN LocalInterface = IPs
    /\ Given \subseteq Registry!Device
    /\ \A d \in Given : d.susy # 0 /\ d.serial # 0 /\ d.ip \in IPs

NumIfs == Len(Subnets)           \* localIPs.size()
NoScan == NumIfs + 1             \* 0xffffffff in the code
AtMostWait(t) == IF t < MaxWait THEN t ELSE MaxWait
Tolerance == MaxWait - LongPoll - ShortPoll
PollTime == IF num_sends > 1 THEN ShortPoll ELSE LongPoll
AnnouncedIPs == {devices[i].ip : i \in {k \in DOMAIN devices : Registry!hasIPAddressOnly(devices[k])}}

-----------------------------------------------------------------------------
(***************************************************************************)
(* discoverDevices up to the loop, and one turn of the loop.               *)
(***************************************************************************)
discoverDevices(full_scan) ==
    /\ phase = "idle" /\ op = "idle"
    /\ phase' = "loop"
    /\ broadcast_counter' = 0 /\ prereg_counter' = 0 /\ subnet_counter' = 1
    /\ socket_counter' = IF full_scan THEN 0 ELSE NoScan
    /\ num_retries' = NumRetries
    /\ elapsed' = 0
    /\ scanned' = {} /\ scans' = 0 /\ rounds' = <<0, 0>>
    /\ wanted' = AnnouncedIPs /\ asked' = {} /\ quiet' = TRUE
    /\ UNCHANGED <<registry, sends, num_sends, packets, pos>>

(* The loop condition, and the choice between sending and only polling.    *)
loopTurn ==
    /\ phase = "loop" /\ op = "idle"
    /\ num_sends' = IF broadcast_counter = 0 \/ prereg_counter = 0 THEN 1 ELSE Burst
    /\ sends' = num_sends'
    /\ packets' = 0
    /\ IF elapsed >= MaxWait
       THEN /\ phase' = "complete"
            /\ pos' = 1
            /\ UNCHANGED counters
       ELSE IF num_retries > 0
       THEN phase' = "send" /\ UNCHANGED <<counters, pos>>
       ELSE /\ phase' = "poll"
            /\ broadcast_counter' = NumIfs
            /\ prereg_counter' = NumIfs
            /\ UNCHANGED <<subnet_counter, socket_counter, num_retries, pos>>
    /\ UNCHANGED <<registry, elapsed, history>>

(* The rest of the for loop after a request was sent.                      *)
Sent ==
    /\ elapsed' = 0
    /\ sends' = sends - 1
    /\ phase' = IF sends = 1 THEN "poll" ELSE "send"
    /\ UNCHANGED <<registry, num_retries, num_sends, packets, pos, wanted, quiet>>

Sending == phase = "send" /\ op = "idle"

(* Mutant: the multicast round also sets the counter of the next round.    *)
sendMulticastOnly ==
    /\ Sending
    /\ broadcast_counter < NumIfs
    /\ broadcast_counter' = NumIfs
    /\ prereg_counter' = NumIfs
    /\ rounds' = [rounds EXCEPT ![1] = @ + 1]
    /\ Sent
    /\ UNCHANGED <<subnet_counter, socket_counter, scanned, scans, asked>>

(* sendNextDiscoveryPacket, branch by branch.                              *)
sendMulticastDiscoveryRequestToSockets ==
    /\ Sending
    /\ broadcast_counter < NumIfs
    /\ broadcast_counter' = NumIfs
    /\ rounds' = [rounds EXCEPT ![1] = @ + 1]
    /\ Sent
    /\ UNCHANGED <<prereg_counter, subnet_counter, socket_counter, scanned, scans, asked>>

sendUnicastDiscoveryRequestToDevices ==
    /\ Sending
    /\ broadcast_counter >= NumIfs
    /\ prereg_counter < NumIfs
    /\ prereg_counter' = NumIfs
    /\ rounds' = [rounds EXCEPT ![2] = @ + 1]
    /\ asked' = asked \cup AnnouncedIPs
    /\ Sent
    /\ UNCHANGED <<broadcast_counter, subnet_counter, socket_counter, scanned, scans>>

(* Mutant: the next interface goes on with the host of the last one.       *)
scanWithoutRestart ==
    /\ Sending
    /\ broadcast_counter >= NumIfs /\ prereg_counter >= NumIfs
    /\ socket_counter < NumIfs
    /\ LET max == Subnets[socket_counter + 1]
       IN  IF max <= ScanLimit /\ subnet_counter < max
           THEN /\ scanned' = scanned \cup {<<socket_counter, subnet_counter>>}
                /\ scans' = scans + 1
                /\ subnet_counter' = subnet_counter + 1
                /\ UNCHANGED socket_counter
           ELSE /\ socket_counter' = socket_counter + 1
                /\ UNCHANGED <<subnet_counter, scanned, scans>>
    /\ Sent
    /\ UNCHANGED <<broadcast_counter, prereg_counter, rounds, asked>>

(* Mutant: the scan stays at a subnet that is too large.                   *)
scanWithoutSkip ==
    /\ Sending
    /\ broadcast_counter >= NumIfs /\ prereg_counter >= NumIfs
    /\ socket_counter < NumIfs
    /\ LET max == Subnets[socket_counter + 1]
       IN  IF max > ScanLimit
           THEN UNCHANGED <<subnet_counter, socket_counter, scanned, scans>>
           ELSE IF subnet_counter < max
           THEN /\ scanned' = scanned \cup {<<socket_counter, subnet_counter>>}
                /\ scans' = scans + 1
                /\ subnet_counter' = subnet_counter + 1
                /\ UNCHANGED socket_counter
           ELSE /\ subnet_counter' = 1
                /\ socket_counter' = socket_counter + 1
                /\ UNCHANGED <<scanned, scans>>
    /\ Sent
    /\ UNCHANGED <<broadcast_counter, prereg_counter, rounds, asked>>

(* One host of one subnet; behind the last host, or when the subnet is too *)
(* large, the next interface.                                              *)
sendUnicastDiscoveryRequestToSockets ==
    /\ Sending
    /\ broadcast_counter >= NumIfs /\ prereg_counter >= NumIfs
    /\ socket_counter < NumIfs
    /\ LET max == Subnets[socket_counter + 1]
           next == IF max > ScanLimit THEN max ELSE subnet_counter
       IN  IF next < max
           THEN /\ scanned' = scanned \cup {<<socket_counter, next>>}
                /\ scans' = scans + 1
                /\ subnet_counter' = next + 1
                /\ UNCHANGED socket_counter
           ELSE /\ subnet_counter' = 1
                /\ socket_counter' = socket_counter + 1
                /\ UNCHANGED <<scanned, scans>>
    /\ Sent
    /\ UNCHANGED <<broadcast_counter, prereg_counter, rounds, asked>>

(* Nothing is left to send: one retry less, and both rounds start again.   *)
sendNothing ==
    /\ Sending
    /\ broadcast_counter >= NumIfs /\ prereg_counter >= NumIfs /\ socket_counter >= NumIfs
    /\ num_retries' = num_retries - 1
    /\ broadcast_counter' = 0
    /\ prereg_counter' = 0
    /\ phase' = "poll"
    /\ UNCHANGED <<registry, subnet_counter, socket_counter, sends, num_sends, elapsed,
                   packets, pos, history>>

-----------------------------------------------------------------------------
(***************************************************************************)
(* pollSockets.                                                            *)
(***************************************************************************)
Polling == phase = "poll" /\ op = "idle"

(* poll times out, or fails.                                               *)
pollEnds ==
    /\ Polling
    /\ phase' = "loop"
    /\ \E t \in {ShortPoll, PollTime} : elapsed' = AtMostWait(elapsed + t)
    /\ UNCHANGED <<registry, counters, sends, num_sends, packets, pos, history>>

(* A packet arrives before the timeout: a discovery response with an ip    *)
(* address, a packet that tells the device, or anything else.              *)
recvDiscoveryPackets ==
    /\ Polling
    /\ packets < MaxPackets
    /\ packets' = packets + 1
    /\ \E t \in 0..(PollTime - 1) : elapsed' = AtMostWait(elapsed + t)
    /\ quiet' = (quiet /\ (num_retries = 0 \/ elapsed' < Tolerance))
    /\ \/ \E p \in Peers : Registry!preRegisterDevice(p.ip)
       \/ \E info \in Registry!Reports : Registry!registerDevice(info)
       \/ UNCHANGED registry
    /\ UNCHANGED <<phase, counters, sends, num_sends, pos, scanned, scans, rounds, wanted,
                   asked>>

-----------------------------------------------------------------------------
(***************************************************************************)
(* completeDeviceInformation: a range based for loop over the list.        *)
(***************************************************************************)
Machine == <<counters, sends, num_sends, elapsed, packets, history>>

(* Mutant: an interface that is known is overwritten, too.                 *)
completeEveryInterface ==
    /\ phase = "complete" /\ op = "idle"
    /\ IF pos <= Len(devices)
       THEN /\ devices' = [devices EXCEPT ![pos].interface =
                              Registry!MatchingInterface(devices[pos].ip)]
            /\ UNCHANGED <<op, target>>
            /\ phase' = "query"
       ELSE UNCHANGED registry /\ phase' = "idle"
    /\ UNCHANGED <<pos, Machine>>

completeInterface ==
    /\ phase = "complete" /\ op = "idle"
    /\ IF pos <= Len(devices)
       THEN Registry!fillInterface(pos) /\ phase' = "query"
       ELSE UNCHANGED registry /\ phase' = "idle"
    /\ UNCHANGED <<pos, Machine>>

(* A device with known ip address and interface is asked for its type. If  *)
(* it answers and is fully known now, it is registered inside of the loop. *)
queryDeviceType ==
    /\ phase = "query" /\ op = "idle"
    /\ \/ UNCHANGED registry
       \/ LET d == devices[pos]
          IN  /\ ~Registry!isComplete(d) /\ d.ip # None /\ d.interface # None
              /\ Registry!isComplete(Registry!Queried(d))
              /\ Registry!registerDevice(Registry!Queried(d))
    /\ phase' = "complete"
    /\ pos' = pos + 1
    /\ UNCHANGED Machine

-----------------------------------------------------------------------------
(* What users do between two calls, and the loops of the device list.      *)
User ==
    /\ phase = "idle"
    /\ \/ \E ip \in IPs : Registry!preRegisterDevice(ip)
       \/ \E s \in Serials : Registry!requireDevice(s)
       \/ \E info \in Given : Registry!registerDevice(info)
       \/ \E info \in Given \cup {devices[i] : i \in DOMAIN devices} :
             Registry!unregisterDevice(info)
    /\ UNCHANGED <<phase, pos, Machine>>

Erase ==
    /\ Registry!eraseNext \/ Registry!eraseDone
    /\ UNCHANGED <<phase, pos, Machine>>

Init ==
    /\ Registry!Init
    /\ phase = "idle"
    /\ broadcast_counter = 0 /\ prereg_counter = 0 /\ subnet_counter = 1
    /\ socket_counter = NoScan /\ num_retries = NumRetries
    /\ sends = 0 /\ num_sends = 1 /\ elapsed = 0 /\ packets = 0 /\ pos = 1
    /\ scanned = {} /\ scans = 0 /\ rounds = <<0, 0>> /\ wanted = {} /\ asked = {}
    /\ quiet = TRUE

Step ==
    \/ loopTurn
    \/ sendMulticastDiscoveryRequestToSockets
    \/ sendUnicastDiscoveryRequestToDevices
    \/ sendUnicastDiscoveryRequestToSockets
    \/ sendNothing
    \/ pollEnds
    \/ recvDiscoveryPackets
    \/ completeInterface
    \/ queryDeviceType
    \/ Erase

Next ==
    \/ \E full_scan \in BOOLEAN : discoverDevices(full_scan)
    \/ User
    \/ Step

Spec == Init /\ [][Next]_vars

(* The thread that runs discoverDevices is scheduled, and poll returns.    *)
FairSpec == Spec /\ WF_vars(Step)

-----------------------------------------------------------------------------
(***************************************************************************)
(* Properties.                                                             *)
(***************************************************************************)

(* Every variable has its type; the retries do not run below zero.         *)
TypeOK ==
    /\ Registry!TypeOK
    /\ phase \in {"idle", "loop", "send", "poll", "complete", "query"}
    /\ broadcast_counter \in {0, NumIfs} /\ prereg_counter \in {0, NumIfs}
    /\ subnet_counter \in Nat /\ socket_counter \in 0..NoScan
    /\ num_retries \in 0..NumRetries
    /\ sends \in 0..Burst /\ num_sends \in {1, Burst} /\ elapsed \in 0..MaxWait
    /\ packets \in 0..MaxPackets /\ pos \in Nat
    /\ scanned \in SUBSET (Nat \X Nat) /\ scans \in Nat /\ rounds \in Nat \X Nat
    /\ wanted \subseteq IPs /\ asked \subseteq IPs /\ quiet \in BOOLEAN

(* Hosts of the interfaces whose subnet is small enough for a scan; host 0 *)
(* and the broadcast address are none.                                     *)
ScanHosts ==
    UNION {{<<s - 1, h>> : h \in 1..(Subnets[s] - 1)} :
              s \in {k \in 1..NumIfs : Subnets[k] <= ScanLimit}}

(* Packets that keep coming can hold one poll until the maximum wait time  *)
(* is over, and then the call ends early. The following three hold when no *)
(* packet comes later than Tolerance after the request before it.          *)

(* When a call with a full scan comes to completing the list, each host of *)
(* the subnets was sent exactly one request.                               *)
ScanCovers ==
    phase = "complete" /\ quiet /\ socket_counter # NoScan =>
        scanned = ScanHosts /\ scans = Cardinality(ScanHosts)

(* Multicast requests and requests to announced devices are repeated the   *)
(* same number of times, as often as there are retries, also when packets  *)
(* arrive and the counters start again in between.                         *)
RoundsComplete ==
    phase = "complete" /\ quiet => rounds = IF NumIfs = 0 THEN <<0, 0>> ELSE <<NumRetries, NumRetries>>

(* The four counters and the retries steer the loop through all rounds of  *)
(* requests and the scan through all hosts, each once.                     *)
LoopCovers == TypeOK /\ ScanCovers /\ RoundsComplete

(* "A pre-registered device is explicitly queried during the device        *)
(* discovery process" (src/SpeedwireDiscovery.cpp), or has shown itself    *)
(* before, if there is an interface to ask from.                           *)
AnnouncedAsked ==
    phase = "complete" /\ quiet /\ NumIfs > 0 =>
        \A ip \in wanted : ip \in asked \/ ip \notin AnnouncedIPs

(* The loop of completeDeviceInformation holds iterators into the list: it *)
(* neither grows nor shrinks while the loop runs.                          *)
ListKeepsIterators ==
    [][(phase \in {"complete", "query"}) => Len(devices') = Len(devices)]_vars

(* What discovery does to the device list is what DeviceRegistry allows.   *)
ImplementsRegistry == Registry!Spec

(* discoverDevices returns.                                                *)
DiscoveryReturns == (phase # "idle") ~> (phase = "idle")

=============================================================================
