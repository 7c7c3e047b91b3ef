---------------------- MODULE CalculatedValueProcessor ----------------------
(***************************************************************************)
(* CalculatedValueProcessor (src/CalculatedValueProcessor.cpp): at the end *)
(* of a packet it derives values from the buffers of the obis map and the  *)
(* speedwire map and hands them to the producer. Which values it derives,  *)
(* and from which measurements, is modelled; their doubles are not.        *)
(***************************************************************************)
EXTENDS ObisFilter, LineSegmentEstimator

CONSTANTS Phases,        \* Total, and those of L1, L2, L3 that are filtered
          Total,
          MaxAge         \* max_age, in seconds

VARIABLES speedwireMap,  \* inverter data key to the epoch second of its newest
                         \* measurement, or -1 for an empty buffer
          last_time,     \* the static last_time of endOfObisData
          produced       \* what the producer got in this callback

Positive(phase) == <<"PositiveActivePower", phase>>
Negative(phase) == <<"NegativeActivePower", phase>>
Signed(phase) == <<"SignedActivePower", phase>>

InitCalculated == last_time = 0 /\ produced = {}

(* The time of element i of a buffer, by the checked operator[].           *)
TimeAt(buffer, i) == IF i \in 1..Len(buffer) THEN buffer[i] % TimeMax ELSE 0

(* Mutant: the negative values are counted from 1.                         *)
calculateValueDiffsShifted(pos, neg) ==
    LET diff[i \in 0..Len(pos)] ==
          IF i = 0 THEN << >>
          ELSE IF TimeAt(pos, i) # TimeAt(neg, i + 1) THEN diff[i - 1]
          ELSE Added(diff[i - 1], <<pos[i], IF i < Len(neg) THEN neg[i + 1] ELSE -1>>)
    IN  diff[Len(pos)]

(* The differences of values with the same index and time, as pairs of     *)
(* measurements; -1 is the element out of bounds. diff[i] is the buffer    *)
(* after the first i values.                                               *)
calculateValueDiffs(pos, neg) ==
    LET diff[i \in 0..Len(pos)] ==
          IF i = 0 THEN << >>
          ELSE IF TimeAt(pos, i) # TimeAt(neg, i) THEN diff[i - 1]
          ELSE Added(diff[i - 1], <<pos[i], IF i <= Len(neg) THEN neg[i] ELSE -1>>)
    IN  diff[Len(pos)]

Calculated(phase) == {Positive(phase), Negative(phase), Signed(phase)} \subseteq DOMAIN filterMap

(* Mutant: intervals that were sent before are sent again.                 *)
FedAgain(times, segment, last) ==
    {[from |-> segment.start_index + 1, to |-> segment.end_index + 1]}

(***************************************************************************)
(* What is fed of a segment (its indices start at 0): nothing if it ends   *)
(* at or before the last time, otherwise it begins behind that time.       *)
(***************************************************************************)
Fed(times, segment, last) ==
    LET New(i) == calculateTimeDifference(times[i], last) > 0
        begin  == {i \in (segment.start_index + 1)..Len(times) : New(i) \/ i = Len(times)}
    IN  IF New(segment.end_index + 1)
        THEN {[from |-> CHOOSE i \in begin : \A j \in begin : i <= j,
               to   |-> segment.end_index + 1]}
        ELSE {}

(***************************************************************************)
(* The phases, which share no keys, are calculated one after the other;    *)
(* the segments of the total are fed to the producer.                      *)
(***************************************************************************)
endOfObisData ==
    LET diffs == [p \in {q \in Phases : Calculated(q)} |->
                     calculateValueDiffs(filterMap[Positive(p)], filterMap[Negative(p)])]
        times == [i \in 1..Len(diffs[Total]) |-> diffs[Total][i][1] % TimeMax]
    IN  /\ filterMap' = [k \in DOMAIN filterMap |->
              IF \E p \in DOMAIN diffs : k = Signed(p)
              THEN diffs[CHOOSE p \in DOMAIN diffs : k = Signed(p)] ELSE filterMap[k]]
        /\ IF Total \in DOMAIN diffs /\ diffs[Total] # << >>
           THEN \E segments \in findPiecewiseConstantIntervals(Len(times)) :
                  /\ produced' = UNION {Fed(times, s, last_time) : s \in segments}
                  /\ \E s \in segments :
                        /\ \A t \in segments : t.start_index <= s.start_index
                        /\ last_time' = times[s.end_index + 1]
           ELSE produced' = {} /\ UNCHANGED last_time
        /\ UNCHANGED speedwireMap

-----------------------------------------------------------------------------
InverterTime(key) ==
    IF speedwireMap[key] = -1 THEN 0 ELSE convertUnixEpochTimeToInverterTimer(speedwireMap[key] * MsPerSecond)

(* All keys are in the map and as old as the first, to a second.           *)
Together(keys) ==
    /\ \A i \in DOMAIN keys : keys[i] \in DOMAIN speedwireMap
    /\ \A i \in DOMAIN keys :
          calculateAbsTimeDifference(InverterTime(keys[1]), InverterTime(keys[i])) <= 1

BatteryPower == <<"BatteryPowerL1", "BatteryPowerL2", "BatteryPowerL3">>
DCPower == <<"InverterPowerMPP1", "InverterPowerMPP2">>
ACPower == <<"InverterPowerL1", "InverterPowerL2", "InverterPowerL3">>
Keys == {BatteryPower[i] : i \in 1..3} \cup {DCPower[i] : i \in 1..2}
            \cup {ACPower[i] : i \in 1..3} \cup {"BatteryPowerACTotal"}

(* The age of a value, the difference of its time to the current one.      *)
Age(keys, now) == calculateAbsTimeDifference(convertUnixEpochTimeToInverterTimer(now),
                                             InverterTime(keys[1]))

GridFresh(time, now) ==
    calculateAbsTimeDifference(convertUnixEpochTimeToEmeterTimer(now), time) < MaxAge * MsPerSecond

(* The ages count as equal to within 2 seconds; the age of a missing total *)
(* is MaxAge.                                                              *)
LossCalculated(now) ==
    /\ Together(ACPower)
    /\ LET dc_age == IF Together(DCPower) THEN Age(DCPower, now) ELSE MaxAge
       IN  calculateAbsTimeDifference(dc_age, Age(ACPower, now)) <= 2

(***************************************************************************)
(* The household's power, if the grid's is fresh. Unless ac_total is zero, *)
(* the grid's power is interpolated at the time of the inverter's, which   *)
(* is "at"; a battery's power is added if it is as old as the inverter's.  *)
(***************************************************************************)
Household(now, acZero) ==
    LET ac_age == IF Together(ACPower) THEN Age(ACPower, now) ELSE MaxAge
        bat    == <<"BatteryPowerACTotal">>
    IN  [kind    |-> "HouseholdPowerTotal",
         at      |-> IF acZero THEN -1
                     ELSE convertInverterToEmeterTime(InverterTime(ACPower[1]), now),
         battery |-> /\ Together(bat)
                     /\ InverterTime(bat[1]) # 0
                     /\ calculateAbsTimeDifference(Age(bat, now), ac_age) <= 10]

Kind(kinds) == {[kind |-> k] : k \in kinds}

endOfSpeedwireData(battery, now) ==
    /\ IF battery
       THEN produced' = IF Together(BatteryPower) THEN Kind({"BatteryPowerACTotal"}) ELSE {}
       ELSE \E acZero \in BOOLEAN :
              /\ ~Together(ACPower) => acZero
              /\ produced' =
                   (IF Together(DCPower) THEN Kind({"InverterPowerDCTotal"}) ELSE {}) \cup
                   (IF Together(ACPower) THEN Kind({"InverterPowerACTotal"}) ELSE {}) \cup
                   (IF LossCalculated(now) THEN Kind({"InverterPowerLoss", "InverterPowerEfficiency"})
                    ELSE {}) \cup
                   (IF /\ {Positive(Total), Negative(Total)} \subseteq DOMAIN filterMap
                       /\ GridFresh(NewestTime(filterMap[Negative(Total)]), now)
                    THEN {Household(now, acZero)} ELSE {})
    /\ UNCHANGED <<filterMap, last_time, speedwireMap>>

=============================================================================
