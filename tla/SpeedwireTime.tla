--------------------------- MODULE SpeedwireTime ---------------------------
(***************************************************************************)
(* SpeedwireTime (include/SpeedwireTime.hpp): the 32 bit times of devices, *)
(* milliseconds for an emeter and seconds for an inverter, their           *)
(* differences, and their expansion to the 64 bit unix epoch time.         *)
(***************************************************************************)
EXTENDS Integers

CONSTANTS TimeMax,      \* 2^32: a device time is in 0 .. TimeMax - 1
          EpochMax,     \* 2^64: an epoch time is in 0 .. EpochMax - 1
          MsPerSecond   \* 1000

(* Times of w bits with w > 0, and twice that for the epoch time.          *)
ASSUME TimeAssumption ==
    /\ TimeMax \in Nat \ {0}
    /\ TimeMax % 2 = 0
    /\ EpochMax = TimeMax * TimeMax
    /\ MsPerSecond \in Nat \ {0}

Half == TimeMax \div 2
Times == 0..(TimeMax - 1)
Epochs == 0..(EpochMax - 1)

(* Two's complement difference of a and b in words of size m.              *)
SignedDifference(a, b, m) ==
    LET d == (a - b) % m IN IF d < m \div 2 THEN d ELSE d - m

(* Mutant: the difference of the plain integers.                           *)
calculateTimeDifferencePlain(a, b) == a - b

calculateTimeDifference(a, b) == SignedDifference(a, b, TimeMax)

(* The absolute value of the least difference is Half, as on two's         *)
(* complement machines.                                                    *)
calculateAbsTimeDifference(a, b) ==
    LET d == calculateTimeDifference(a, b) IN IF d >= 0 THEN d ELSE -d

EpochAbsDifference(a, b) ==
    LET d == SignedDifference(a, b, EpochMax) IN IF d >= 0 THEN d ELSE -d

(* Mutant: the upper half of the current time is taken as it is.           *)
expandTimeTo64SameEra(time, now) == (now \div TimeMax) * TimeMax + time

(* The upper word of the current time is filled in; the era next to it is  *)
(* taken instead when that is not farther from now.                        *)
expandTimeTo64(time, now) ==
    LET Join(e) == ((e * TimeMax) % EpochMax) + time
        era  == now \div TimeMax
        next == IF now % TimeMax >= Half THEN Join(era + 1) ELSE Join(era - 1)
        same == Join(era)
    IN  IF EpochAbsDifference(now, next) <= EpochAbsDifference(now, same)
        THEN next ELSE same

convertUnixEpochTimeToEmeterTimer(epoch) == epoch % TimeMax

convertUnixEpochTimeToInverterTimer(epoch) == (epoch \div MsPerSecond) % TimeMax

convertEmeterTimeToUnixEpochTime(time, now) == expandTimeTo64(time, now)

convertInverterTimeToUnixEpochTime(time, now) ==
    (expandTimeTo64(time, now \div MsPerSecond) * MsPerSecond) % EpochMax

convertEmeterToInverterTime(time, now) ==
    convertUnixEpochTimeToInverterTimer(convertEmeterTimeToUnixEpochTime(time, now))

(* Mutant: seconds are taken for milliseconds.                             *)
convertInverterToEmeterTimeAsIs(time, now) == time

convertInverterToEmeterTime(time, now) ==
    convertUnixEpochTimeToEmeterTimer(convertInverterTimeToUnixEpochTime(time, now))

=============================================================================
