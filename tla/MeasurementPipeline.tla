------------------------ MODULE MeasurementPipeline ------------------------
(***************************************************************************)
(* The processing chain behind the packet receivers: ObisFilter and the    *)
(* speedwire map feed the AveragingProcessor, which passes on to the       *)
(* CalculatedValueProcessor. The receivers belong to the application: they *)
(* call consume for each element of a packet, and then endOfObisData or    *)
(* endOfSpeedwireData. Packets are lost as whole packets, and repeated.    *)
(***************************************************************************)
EXTENDS CalculatedValueProcessor, AveragingProcessor, FiniteSets

CONSTANTS Elements,        \* the obis elements of an emeter packet, a sequence
          Replies(_),      \* the elements of an inverter's replies, sequences of keys
          Filters,         \* the sets of filters that the application may set up
          Batteries,       \* the inverters that are battery inverters
          StartClock, MaxClock,     \* bounds of the epoch time in ms
          MaxPackets, ReplyCost     \* and of the packets, a reply counts for more

(* Emeters and inverters have different serial numbers; the signed powers  *)
(* are calculated, no emeter sends them. Of the other powers a packet has  *)
(* one number each.                                                        *)
ASSUME PacketAssumption ==
    /\ Emeters \cap Inverters = {}
    /\ Elements \in Seq(ObisKeys \ {Signed(p) : p \in Phases})
    /\ Total \in Phases
    /\ \A key \in {Positive(p) : p \in Phases} \cup {Negative(p) : p \in Phases} :
          key \in ObisKeys =>
             /\ key \notin TextKeys
             /\ \E i \in DOMAIN Elements : \A j \in DOMAIN Elements : Elements[j] = key <=> i = j
    /\ ReplyCost \in Nat \ {0} /\ MaxPackets \in Nat
ASSUME ClockAssumption == StartClock \in Epochs /\ MaxClock \in Epochs

VARIABLES clock,           \* epoch time in ms
          packet,          \* the packet in work: a sequence of at most one
          decided,         \* the averaging decisions on its elements so far
          began, latest,   \* device to the epoch time of its first and latest element
          late,            \* history: devices with elements a turn over or more apart
          received         \* number of packets

pipelineVars == <<filterMap, states, speedwireMap, last_time, produced, clock, packet,
                  decided, began, latest, late, received>>

PipelineInit ==
    /\ filterMap = [k \in {} |-> << >>]
    /\ InitStates
    /\ InitCalculated
    /\ speedwireMap = [k \in Keys |-> -1]
    /\ clock = StartClock
    /\ packet = << >>
    /\ decided = {}
    /\ began = [d \in {} |-> 0] /\ latest = began
    /\ late = {}
    /\ received = 0

tick ==
    /\ clock < MaxClock
    /\ packet = << >>
    /\ clock' = clock + 1
    /\ produced' = {}
    /\ UNCHANGED <<filterMap, states, speedwireMap, last_time, packet, decided,
                   began, latest, late, received>>

(* The application sets up its filters before it listens.                  *)
configure ==
    /\ received = 0
    /\ clock = StartClock
    /\ \E key \in ObisKeys : (key \notin DOMAIN filterMap /\ addFilter(key)) \/ removeFilter(key)
    /\ DOMAIN filterMap' \in Filters
    /\ UNCHANGED <<states, speedwireMap, last_time, produced, clock, packet, decided,
                   began, latest, late, received>>

receivePacket(serial, elements) ==
    /\ packet = << >>
    /\ packet' = <<[serial |-> serial, rest |-> elements]>>
    /\ decided' = {}
    /\ produced' = {}
    /\ UNCHANGED <<filterMap, states, speedwireMap, last_time, clock, began, latest, late>>

receiveEmeterPacket ==
    /\ received + 1 <= MaxPackets
    /\ received' = received + 1
    /\ \E serial \in Emeters : receivePacket(serial, Elements)

receiveReply ==
    /\ received + ReplyCost <= MaxPackets
    /\ received' = received + ReplyCost
    /\ \E serial \in Inverters : \E reply \in Replies(serial) : receivePacket(serial, reply)

InWork(devices) == packet # << >> /\ packet[1].serial \in devices

(* An element of the packet goes through the averaging processor.          *)
average(time, epoch) ==
    LET serial == packet[1].serial
    IN  /\ process(serial, time)
        /\ decided' = decided \cup {states'[serial].averagingTimeReached}
        /\ latest' = [d \in DOMAIN latest \cup {serial} |-> IF d = serial THEN epoch ELSE latest[d]]
        /\ began' = [d \in DOMAIN latest' |-> IF d \in DOMAIN began THEN began[d] ELSE epoch]
        /\ late' = IF serial \in DOMAIN latest /\ epoch - latest[serial] >= TimeMax
                   THEN late \cup {serial} ELSE late

NextElement == packet' = <<[packet[1] EXCEPT !.rest = Tail(@)]>>

consumeObis ==
    /\ InWork(Emeters) /\ packet[1].rest # << >>
    /\ NextElement
    /\ LET key == Head(packet[1].rest)
       IN  IF key \in DOMAIN filterMap
           THEN /\ addElement(key, clock)
                /\ average(NewestTime(filterMap'[key]), clock)
           ELSE UNCHANGED <<filterMap, states, decided, began, latest, late>>
    /\ UNCHANGED <<speedwireMap, last_time, produced, clock, received>>

(* The application adds the measurement if it has asked for the value.     *)
consumeSpeedwire ==
    /\ InWork(Inverters) /\ packet[1].rest # << >>
    /\ NextElement
    /\ LET key == Head(packet[1].rest)
           sec == clock \div MsPerSecond
       IN  IF key \in DOMAIN speedwireMap
           THEN /\ speedwireMap' = [speedwireMap EXCEPT ![key] = sec]
                /\ average(sec % TimeMax, sec)
           ELSE UNCHANGED <<speedwireMap, states, decided, began, latest, late>>
    /\ UNCHANGED <<filterMap, last_time, produced, clock, received>>

endOfPacket ==
    /\ packet # << >> /\ packet[1].rest = << >>
    /\ packet' = << >>
    /\ LET serial == packet[1].serial
       IN  IF ~PassesEnd(serial) THEN UNCHANGED <<filterMap, speedwireMap, last_time, produced>>
           ELSE IF serial \in Emeters THEN endOfObisData
           ELSE endOfSpeedwireData(serial \in Batteries, clock)
    /\ UNCHANGED <<states, clock, decided, began, latest, late, received>>

PipelineNext ==
    \/ tick
    \/ configure
    \/ receiveEmeterPacket
    \/ receiveReply
    \/ consumeObis
    \/ consumeSpeedwire
    \/ endOfPacket

PipelineSpec == PipelineInit /\ [][PipelineNext]_pipelineVars

-----------------------------------------------------------------------------
(***************************************************************************)
(* Properties.                                                             *)
(***************************************************************************)

(* Every variable has its type; buffers hold no more than the ring buffers *)
(* they stand for.                                                         *)
PipelineTypeOK ==
    /\ AveragingTypeOK
    /\ DOMAIN filterMap \subseteq ObisKeys
    /\ \A k \in DOMAIN filterMap : Len(filterMap[k]) <= MaxElements
    /\ \A k \in DOMAIN speedwireMap : speedwireMap[k] \in Int
    /\ last_time \in Times
    /\ packet # << >> => packet[1].serial \in Devices
    /\ decided \subseteq BOOLEAN

NumericOnly == TextKeys \cap DOMAIN filterMap = {}

(* The elements of a packet and its end share the decision whether the     *)
(* averaging time is reached, as long as no element is a string: consumers *)
(* get packets as a whole or not at all.                                   *)
BlocksWhole ==
    packet # << >> /\ NumericOnly =>
        \A d \in decided : d = PassesEnd(packet[1].serial)

(* Buffers, timers and maps are consistent, each timer with less than one  *)
(* averaging time left over, wherever the times turn over.                 *)
PipelineConsistent == PipelineTypeOK /\ RemainderSmall

(* The timer of each device keeps the pace of its clock: what remains is   *)
(* the time since its first packet, less whole averaging times, through    *)
(* lost and repeated packets, those of others, and turn overs, unless a    *)
(* device was silent for so long that its time turned over unnoticed.      *)
PaceKept ==
    NumericOnly => \A d \in DOMAIN states \ late :
        states[d].averagingTime # 0 =>
            states[d].remainder = (latest[d] - began[d]) % states[d].averagingTime

(* The signed values of a phase are the differences of all the positive    *)
(* and negative values in the buffers, each of one packet, also when the   *)
(* emeters take turns, the ring overwrites, and packets share a time; so   *)
(* the segmentation never runs without values.                             *)
SignedComplete ==
    [][endOfPacket /\ InWork(Emeters) /\ PassesEnd(packet[1].serial) =>
         \A p \in Phases : Calculated(p) =>
             LET pos == filterMap[Positive(p)]
                 neg == filterMap[Negative(p)]
             IN  /\ filterMap[Signed(p)]' = [i \in DOMAIN pos |-> <<pos[i], neg[i]>>]
                 /\ pos = neg /\ pos # << >>
      ]_pipelineVars

(* The segments that are fed cover every measurement that is newer than    *)
(* those fed before once, and no older one, and last_time moves on to the  *)
(* newest, whatever the segmentation was, as long as the buffer spans less *)
(* than half a turn.                                                       *)
FeedCoversOnce ==
    [][LET sig == IF Signed(Total) \in DOMAIN filterMap' THEN filterMap[Signed(Total)]' ELSE << >>
           New == {i \in DOMAIN sig : calculateTimeDifference(sig[i][1] % TimeMax, last_time) > 0}
       IN  endOfPacket /\ InWork(Emeters) /\ PassesEnd(packet[1].serial) /\ sig # << >> =>
             /\ last_time' = sig[Len(sig)][1] % TimeMax
             /\ Len(sig) \in New /\ sig[Len(sig)][1] - sig[1][1] < Half =>
                  /\ UNION {s.from..s.to : s \in produced'} = New
                  /\ \A s, t \in produced' : s = t \/ s.to < t.from \/ t.to < s.from
      ]_pipelineVars

Households == {h \in produced : "kind" \in DOMAIN h /\ h.kind = "HouseholdPowerTotal"}

(* The household's power combines the inverter's with the grid's power at  *)
(* the same time: the inverter's seconds become the emeter's milliseconds, *)
(* although the two turn over at different times. A value that is half a   *)
(* turn over old or more is taken for a younger one.                       *)
HouseholdAligned ==
    LET sec == speedwireMap[ACPower[1]]
    IN  \A h \in Households :
            h.at # -1 /\ sec # -1 /\ (clock \div MsPerSecond) - sec < Half =>
                h.at = (sec * MsPerSecond) % TimeMax

(* It is calculated only when the grid's newest measurement is younger     *)
(* than the maximum age, or half a turn over old or more.                  *)
HouseholdFresh ==
    \A h \in Households :
        LET grid == filterMap[Negative(Total)]
        IN  grid # << >> /\ clock - grid[Len(grid)] < Half =>
                clock - grid[Len(grid)] < MaxAge * MsPerSecond

(* The power of the household is calculated from values of one time and of *)
(* the present.                                                            *)
HouseholdMatched == HouseholdAligned /\ HouseholdFresh

(* Every device time within half of the range of the current time is       *)
(* expanded to the epoch time that it is the lower word of, and an emeter  *)
(* time becomes the inverter time of the second that it lies in.           *)
ExpandsToNearest ==
    LET second == clock \div MsPerSecond
    IN  /\ \A epoch \in ((clock + 1 - Half)..(clock + Half - 1)) \cap Epochs :
             /\ convertEmeterTimeToUnixEpochTime(convertUnixEpochTimeToEmeterTimer(epoch), clock) = epoch
             /\ convertEmeterToInverterTime(epoch % TimeMax, clock) = (epoch \div MsPerSecond) % TimeMax
        /\ \A sec \in ((second + 1 - Half)..(second + Half - 1)) \cap 0..(EpochMax \div MsPerSecond - 1) :
             \A ms \in 0..(MsPerSecond - 1) :
                convertInverterTimeToUnixEpochTime(
                    convertUnixEpochTimeToInverterTimer(sec * MsPerSecond + ms), clock) = sec * MsPerSecond

=============================================================================
