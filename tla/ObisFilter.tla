----------------------------- MODULE ObisFilter -----------------------------
(***************************************************************************)
(* ObisFilter (src/ObisFilter.cpp) and its map of emeter data elements,    *)
(* ObisDataMap (include/ObisData.hpp). An element is found by its obis     *)
(* type alone, so all emeters share its ring buffer of measurements. The   *)
(* buffer is the bounded history that RingBuffer implements; a measurement *)
(* is the epoch time of its packet, of which the code keeps 32 bits.       *)
(***************************************************************************)
EXTENDS SpeedwireTime, Sequences

CONSTANTS ObisKeys,    \* the obis types
          TextKeys,    \* those of obis type 0, which hold a string
          Capacity     \* getMaximumNumberOfElements() of the filter entries

ASSUME FilterAssumption == TextKeys \subseteq ObisKeys /\ Capacity \in Nat

VARIABLE filterMap     \* obis type to its measurements, oldest first

(* A ring buffer of capacity 0 grows to hold one element.                  *)
MaxElements == IF Capacity = 0 THEN 1 ELSE Capacity

(* addMeasurement: the new one takes the place of the oldest when the      *)
(* buffer is full.                                                         *)
Added(buffer, epoch) ==
    Append(IF Len(buffer) < MaxElements THEN buffer ELSE Tail(buffer), epoch)

(* getNewestElement().time; the element out of bounds has time 0.          *)
NewestTime(buffer) == IF buffer = << >> THEN 0 ELSE buffer[Len(buffer)] % TimeMax

(* filterMap[key] = entry, with an empty buffer.                           *)
addFilter(key) ==
    filterMap' = [k \in DOMAIN filterMap \cup {key} |-> IF k = key THEN << >> ELSE filterMap[k]]

removeFilter(key) ==
    filterMap' = [k \in DOMAIN filterMap \ {key} |-> filterMap[k]]

(* consume: a string replaces value_string and adds no measurement.        *)
addElement(key, epoch) ==
    filterMap' = [filterMap EXCEPT ![key] = IF key \in TextKeys THEN @ ELSE Added(@, epoch)]

=============================================================================
