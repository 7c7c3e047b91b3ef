-------------------------- MODULE ReceiveDispatcher --------------------------
(***************************************************************************)
(* SpeedwireReceiveDispatcher (src/SpeedwireReceiveDispatcher.cpp): one    *)
(* call of dispatch polls all sockets once, receives one packet from each  *)
(* socket that is ready into a buffer shared by all of them, and calls the *)
(* receivers that are registered for the packet's protocol.                *)
(*                                                                         *)
(* A packet is a number, in the order of arrival; kinds says what dispatch *)
(* takes it for:                                                           *)
(*   other      a discovery packet or a data2 packet of another protocol   *)
(*   emeter     an emeter packet                                           *)
(*   inverter   an inverter or an encryption packet                        *)
(*   malformed  an inverter packet that fails the checks of its length     *)
(*   invalid    anything else                                              *)
(***************************************************************************)
EXTENDS Integers, Sequences, FiniteSets

CONSTANTS NumSockets,    \* the sockets that the application passes
          MaxReceivers,  \* bound: receivers
          MaxPackets,    \* bound: packets that arrive
          MaxFailures,   \* bound: failures of recvfrom
          Forms          \* the packets that arrive: a kind, and whether the
                         \* packet's tags go on to an end-of-data tag

ASSUME NumSocketsAssumption == NumSockets \in Nat
ASSUME DispatchBounds == MaxReceivers \in Nat /\ MaxPackets \in Nat /\ MaxFailures \in Nat

Kinds == {"other", "emeter", "inverter", "malformed", "invalid"}

ASSUME FormsAssumption == Forms \subseteq Kinds \X BOOLEAN

VARIABLES receivers,   \* the protocol id of each registered receiver
          queue,       \* the packets that wait in each socket
          kinds,       \* the kind of each packet that has arrived
          whole,       \* the packets whose tags go on to an end-of-data tag
          phase,       \* where dispatch is
          ready,       \* the sockets with POLLIN, as poll returned them
          j,           \* the socket that dispatch is at
          k,           \* the receiver that is called next
          buffer,      \* the packet in udp_packet, 0: none of this model
          seen,        \* the kind of the packet that is being delivered
          npackets,    \* packets counted in this call
          result,      \* what dispatch returned last
          failures,    \* history: failures of recvfrom
          reread,      \* history: the packets evaluated after a failure
          taken,       \* history: receivers at the time each packet was received
          read,        \* history: the sockets read in this call
          counted,     \* history: the packets of this call that count
          delivered    \* history: how often each receiver got each packet

sockets == <<queue, kinds, whole>>
call    == <<phase, ready, j, k, buffer, seen, npackets, result, read, counted>>
vars    == <<receivers, sockets, call, failures, reread, taken, delivered>>

Protocols == {"any", "emeter", "inverter"}    \* 0x0000, 0x6069, 0x6065

Ids == DOMAIN kinds

(* The kinds counted by npackets, those of valid_emeter_packet and of      *)
(* valid_inverter_packet.                                                  *)
Counts(kind) == kind \in {"emeter", "inverter"}

(* What the buffer is taken for when recvfrom fails: its result -1, taken  *)
(* as an unsigned size, holds back no walk over the tags. The walk ends    *)
(* with the packet if that has an end-of-data tag, and else goes on with   *)
(* whatever lies behind; a buffer without a packet holds anything.         *)
Evaluations(id) == IF id \in whole THEN {kinds[id]} ELSE Kinds

(* The receivers that a packet is passed to: receivers for protocol 0x0000 *)
(* get everything that is valid.                                           *)
Matches(protocol, kind) ==
    \/ protocol = "any" /\ kind \notin {"malformed", "invalid"}
    \/ protocol = kind

-----------------------------------------------------------------------------
registerReceiver(protocol) ==
    /\ phase = "idle"
    /\ Len(receivers) < MaxReceivers
    /\ receivers' = Append(receivers, protocol)
    /\ delivered' = Append(delivered, [id \in 1..MaxPackets |-> 0])
    /\ UNCHANGED <<sockets, call, failures, reread, taken>>

(* The network.                                                            *)
arrive(s, kind, hasEnd) ==
    /\ Len(kinds) < MaxPackets
    /\ kinds' = Append(kinds, kind)
    /\ whole' = IF hasEnd THEN whole \cup {Len(kinds')} ELSE whole
    /\ queue' = [queue EXCEPT ![s] = Append(@, Len(kinds'))]
    /\ taken' = Append(taken, 0)
    /\ UNCHANGED <<receivers, call, failures, reread, delivered>>

Return(value) == phase' = "idle" /\ result' = value /\ j' = 1

(* dispatch up to and including poll: the buffer is not initialized, so it *)
(* may hold what an earlier call left on the stack. Events other than      *)
(* POLLIN make poll return with no socket ready.                           *)
dispatch ==
    /\ phase = "idle"
    /\ npackets' = 0
    /\ ready' = {s \in 1..NumSockets : queue[s] # <<>>}
    /\ read' = {} /\ counted' = {}
    /\ \/ ready' = {} /\ Return(0) /\ UNCHANGED buffer
       \/ Return(-1) /\ UNCHANGED buffer
       \/ phase' = "scan" /\ j' = 1 /\ buffer' \in {0, buffer} /\ UNCHANGED result
    /\ UNCHANGED <<receivers, sockets, failures, reread, taken, delivered, k, seen>>

(* Mutant: a packet that is not valid ends the call.                       *)
ClassifyEnds(kind) ==
    /\ npackets' = IF Counts(kind) THEN npackets + 1 ELSE npackets
    /\ CASE kind = "malformed" -> Return(-1) /\ UNCHANGED <<k, seen>>
         [] kind = "invalid" -> Return(npackets) /\ UNCHANGED <<k, seen>>
         [] OTHER -> phase' = "deliver" /\ seen' = kind /\ UNCHANGED <<result, j, k>>

(* What dispatch does with a buffer that it takes for that kind.           *)
Classify(kind) ==
    /\ npackets' = IF Counts(kind) THEN npackets + 1 ELSE npackets
    /\ CASE kind = "malformed" -> Return(-1) /\ UNCHANGED <<k, seen>>
         [] kind = "invalid" -> j' = j + 1 /\ UNCHANGED <<phase, result, k, seen>>
         [] OTHER -> phase' = "deliver" /\ seen' = kind /\ UNCHANGED <<result, j, k>>

(* recvfrom takes a packet from the socket; it blocks while there is none. *)
receive ==
    /\ phase = "scan"
    /\ j \in ready
    /\ queue[j] # <<>>
    /\ buffer' = Head(queue[j])
    /\ queue' = [queue EXCEPT ![j] = Tail(@)]
    /\ taken' = [taken EXCEPT ![buffer'] = Len(receivers)]
    /\ counted' = IF Counts(kinds[buffer']) THEN counted \cup {buffer'} ELSE counted
    /\ read' = read \cup {j}
    /\ Classify(kinds[buffer'])
    /\ UNCHANGED <<receivers, kinds, whole, ready, failures, reread, delivered>>

(* recvfrom fails; the result is not looked at, and what is in the buffer  *)
(* is evaluated, once more or for the first time.                          *)
receiveFails ==
    /\ phase = "scan"
    /\ j \in ready
    /\ failures < MaxFailures
    /\ failures' = failures + 1
    /\ reread' = reread \cup {buffer}
    /\ read' = read \cup {j}
    /\ \E kind \in Evaluations(buffer) : Classify(kind)
    /\ UNCHANGED <<receivers, sockets, ready, buffer, taken, counted, delivered>>

(* A socket that is not ready, and the end of the loop.                    *)
nextSocket ==
    /\ phase = "scan"
    /\ j \notin ready
    /\ IF j <= NumSockets
       THEN j' = j + 1 /\ UNCHANGED <<phase, result>>
       ELSE Return(npackets)
    /\ UNCHANGED <<receivers, sockets, ready, k, buffer, seen, npackets, failures, reread,
                   taken, read, counted, delivered>>

(* The receiver's callback is called with the buffer's packet; the buffer  *)
(* may hold none that this model numbers.                                  *)
Callback(r) ==
    delivered' = IF buffer = 0 THEN delivered ELSE [delivered EXCEPT ![r][buffer] = @ + 1]

AllServed(next) == phase' = "scan" /\ j' = next /\ k' = 1 /\ seen' = "invalid"

(* Mutants: the first receiver that gets the packet is the only one; the   *)
(* loop stays at the socket as long as it has packets; the break behind    *)
(* the receivers for all protocols is missing.                             *)
deliverFirst ==
    /\ phase = "deliver"
    /\ IF k <= Len(receivers)
       THEN IF Matches(receivers[k], seen)
            THEN Callback(k) /\ AllServed(j + 1)
            ELSE k' = k + 1 /\ UNCHANGED <<phase, j, seen, delivered>>
       ELSE AllServed(j + 1) /\ UNCHANGED delivered
    /\ UNCHANGED <<receivers, sockets, ready, buffer, npackets, result, failures, reread,
                   taken, read, counted>>

deliverStays ==
    /\ phase = "deliver"
    /\ IF k <= Len(receivers)
       THEN /\ IF Matches(receivers[k], seen) THEN Callback(k) ELSE UNCHANGED delivered
            /\ k' = k + 1
            /\ UNCHANGED <<phase, j, seen>>
       ELSE AllServed(j) /\ UNCHANGED delivered
    /\ UNCHANGED <<receivers, sockets, ready, buffer, npackets, result, failures, reread,
                   taken, read, counted>>

deliverFallsThrough ==
    /\ phase = "deliver"
    /\ IF k <= Len(receivers)
       THEN /\ IF Matches(receivers[k], seen)
               THEN IF receivers[k] = "any" /\ seen = "emeter" /\ buffer # 0
                    THEN delivered' = [delivered EXCEPT ![k][buffer] = @ + 2]
                    ELSE Callback(k)
               ELSE UNCHANGED delivered
            /\ k' = k + 1
            /\ UNCHANGED <<phase, j, seen>>
       ELSE AllServed(j + 1) /\ UNCHANGED delivered
    /\ UNCHANGED <<receivers, sockets, ready, buffer, npackets, result, failures, reread,
                   taken, read, counted>>

(* One turn of the loop over the receivers, with the receiver's callback.  *)
deliver ==
    /\ phase = "deliver"
    /\ IF k <= Len(receivers)
       THEN /\ IF Matches(receivers[k], seen) THEN Callback(k) ELSE UNCHANGED delivered
            /\ k' = k + 1
            /\ UNCHANGED <<phase, j, seen>>
       ELSE AllServed(j + 1) /\ UNCHANGED delivered
    /\ UNCHANGED <<receivers, sockets, ready, buffer, npackets, result, failures, reread,
                   taken, read, counted>>

-----------------------------------------------------------------------------
Init ==
    /\ receivers = <<>>
    /\ queue = [s \in 1..NumSockets |-> <<>>]
    /\ kinds = <<>> /\ whole = {}
    /\ phase = "idle" /\ ready = {} /\ j = 1 /\ k = 1 /\ buffer = 0 /\ seen = "invalid"
    /\ npackets = 0 /\ result = 0
    /\ failures = 0 /\ reread = {} /\ taken = <<>> /\ read = {} /\ counted = {} /\ delivered = <<>>

Network == \E s \in 1..NumSockets, form \in Forms : arrive(s, form[1], form[2])

Step == receive \/ receiveFails \/ nextSocket \/ deliver

Next ==
    \/ \E protocol \in Protocols : registerReceiver(protocol)
    \/ Network
    \/ dispatch
    \/ Step

Spec == Init /\ [][Next]_vars

(* The thread that called dispatch is scheduled.                           *)
FairSpec == Spec /\ WF_vars(Step)

-----------------------------------------------------------------------------
(***************************************************************************)
(* Properties.                                                             *)
(***************************************************************************)

(* Every variable has its type; the loop stays within the sockets.         *)
TypeOK ==
    /\ receivers \in Seq(Protocols)
    /\ kinds \in Seq(Kinds) /\ whole \subseteq Ids
    /\ queue \in [1..NumSockets -> Seq(Ids)]
    /\ phase \in {"idle", "scan", "deliver"}
    /\ ready \subseteq 1..NumSockets
    /\ j \in 1..(NumSockets + 1) /\ k \in Nat
    /\ buffer \in {0} \cup Ids /\ seen \in Kinds /\ reread \subseteq {0} \cup Ids
    /\ npackets \in Nat /\ result \in {-1} \cup Nat /\ failures \in Nat
    /\ taken \in [Ids -> Nat]
    /\ read \subseteq ready /\ counted \subseteq Ids
    /\ delivered \in [DOMAIN receivers -> [1..MaxPackets -> Nat]]

(* Once dispatch is through with a packet, all receivers that were         *)
(* registered for it have got it. Receivers of other protocols never get   *)
(* it, whatever packets share the buffer before and after it, with one     *)
(* exception: a packet without an end-of-data tag that a failed recvfrom   *)
(* has dispatch evaluate again.                                            *)
ReceiversServed ==
    \A r \in DOMAIN receivers, id \in Ids :
        /\ r <= taken[id] /\ Matches(receivers[r], kinds[id]) /\ phase # "deliver" =>
              delivered[r][id] >= 1
        /\ ~Matches(receivers[r], kinds[id]) /\ (id \in whole \/ id \notin reread) =>
              delivered[r][id] = 0

(* Each failure of recvfrom can make one receiver get one packet once more *)
(* by evaluating the buffer's old content; nothing else repeats a packet.  *)
NoRepeat ==
    \A r \in DOMAIN receivers, id \in Ids : delivered[r][id] <= 1 + failures

(* The number that dispatch returns is that of the meter, inverter and     *)
(* encryption packets of this call; failures can only make it larger. It   *)
(* is less than "the number of received packets" that dispatch is          *)
(* documented to return (SpeedwireReceiveDispatcher.cpp:45): the other     *)
(* packets are received and delivered, but not counted.                    *)
CountsPackets ==
    phase = "idle" /\ result >= 0 =>
        /\ npackets = result
        /\ Cardinality(counted) <= result
        /\ result <= Cardinality(counted) + failures

(* A call that does not return an error has read each socket that was      *)
(* ready when it polled.                                                   *)
ReadySocketsRead ==
    phase = "idle" /\ result >= 0 => read = ready

(* A call returns an error when poll fails, before it has read anything,   *)
(* or at a malformed inverter packet: behind the socket of that packet     *)
(* nothing has been read, before it everything. A packet of another kind   *)
(* does so only if a failed recvfrom made dispatch evaluate it again.      *)
ErrorReturns ==
    phase = "idle" /\ result = -1 /\ read # {} =>
        /\ \E last \in read : read = {s \in ready : s <= last}
        /\ \/ buffer = 0
           \/ buffer \in Ids /\ kinds[buffer] = "malformed"
           \/ buffer \in reread \ whole

(* What the call has not read still waits: recvfrom is not called on an    *)
(* empty socket, and an error return loses no packet of the other sockets. *)
SkippedWait ==
    \A s \in ready \ read : queue[s] # <<>>

(* A call of dispatch is accounted for: what it returns, what it has read  *)
(* of what poll told it, and what it leaves for the next call.             *)
CallAccounted == TypeOK /\ CountsPackets /\ ReadySocketsRead /\ ErrorReturns /\ SkippedWait

(* dispatch returns: "A timeout can be provided to cancel the receive      *)
(* after some given time period" (src/SpeedwireReceiveDispatcher.cpp).     *)
DispatchReturns == (phase # "idle") ~> (phase = "idle")

=============================================================================
