------------------------- MODULE AveragingProcessor -------------------------
(***************************************************************************)
(* AveragingProcessor (src/AveragingProcessor.cpp): per device, found by   *)
(* serial number, a timer that runs on the times of the measurements and   *)
(* tells at the first element of each packet whether the averaging time    *)
(* has been reached; all elements of the packet follow that decision.      *)
(***************************************************************************)
EXTENDS SpeedwireTime

CONSTANTS Emeters, Inverters,            \* serial numbers
          averagingTimeObisData,         \* in ms
          averagingTimeSpeedwireData     \* in ms

ASSUME AveragingAssumption ==
    averagingTimeObisData \in Nat /\ averagingTimeSpeedwireData \in Nat

VARIABLE states    \* serial number to averaging state, of the known devices

Devices == Emeters \cup Inverters

initializeState(serial) ==
    [averagingTime |-> IF serial \in Emeters THEN averagingTimeObisData
                       ELSE averagingTimeSpeedwireData \div MsPerSecond,
     remainder |-> 0, currentTimestamp |-> 0, currentTimestampIsValid |-> FALSE,
     averagingTimeReached |-> FALSE]

StateOf(serial) ==
    IF serial \in DOMAIN states THEN states[serial] ELSE initializeState(serial)

InitStates == states = [serial \in {} |-> 0]

(* Mutant: every element starts a new block.                               *)
NewBlockAlways(s, time) == s.averagingTime # 0 /\ s.currentTimestampIsValid

(* The first measurement of a new measurement block, but not the first.    *)
NewBlock(s, time) ==
    s.averagingTime # 0 /\ s.currentTimestampIsValid /\ time # s.currentTimestamp

(* Mutants: the remainder is dropped when a period ends; is taken off once.*)
LeftOverNone(s, total) == IF total >= s.averagingTime THEN 0 ELSE total

LeftOverOnce(s, total) == IF total >= s.averagingTime THEN total - s.averagingTime ELSE total

LeftOver(s, total) == IF total >= s.averagingTime THEN total % s.averagingTime ELSE total

(* process: averaging state s after an element whose newest measurement    *)
(* has this time.                                                          *)
Processed(s, time) ==
    LET total == s.remainder + ((time - s.currentTimestamp) % TimeMax)
    IN  [s EXCEPT
            !.remainder = IF NewBlock(s, time) THEN LeftOver(s, total) ELSE @,
            !.averagingTimeReached =
                \/ s.averagingTime = 0
                \/ /\ s.currentTimestampIsValid
                   /\ IF NewBlock(s, time) THEN total >= s.averagingTime ELSE @,
            !.currentTimestamp = time,
            !.currentTimestampIsValid = TRUE]

process(serial, time) ==
    states' = [d \in DOMAIN states \cup {serial} |->
                  IF d = serial THEN Processed(StateOf(serial), time) ELSE states[d]]

(* endOfObisData, endOfSpeedwireData: the decision of the last element.    *)
PassesEnd(serial) == serial \in DOMAIN states /\ states[serial].averagingTimeReached

(* The processor on its own, fed with elements of any device at any time.  *)
AveragingSpec == InitStates /\ [][\E serial \in Devices, time \in Times : process(serial, time)]_states

-----------------------------------------------------------------------------
AveragingTypeOK ==
    /\ DOMAIN states \subseteq Devices
    /\ \A serial \in DOMAIN states :
          states[serial] \in [averagingTime : Nat, remainder : Nat, currentTimestamp : Times,
                              currentTimestampIsValid : BOOLEAN, averagingTimeReached : BOOLEAN]

(* Less than one averaging time is ever left over, through turn overs,     *)
(* late packets and times that jump, so that the next period is not ended  *)
(* early by more than the packet that ends it.                             *)
RemainderSmall ==
    \A serial \in DOMAIN states :
        states[serial].averagingTime # 0 => states[serial].remainder < states[serial].averagingTime

=============================================================================
