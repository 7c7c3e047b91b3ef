--------------------------- MODULE SpeedwireData ---------------------------
(***************************************************************************)
(* SpeedwireRawData and its wrappers (src/SpeedwireData.cpp): the values   *)
(* in the data bytes of a register, which of them are significant, and     *)
(* which one SpeedwireData::consume takes as a measurement.                *)
(***************************************************************************)
EXTENDS SpeedwireInverterProtocol

CONSTANT Behind     \* bytes that happen to lie behind data, the array of MaxData bytes

BehindBytes == 16

TypeMask(type) == 8 * (type \div 8)

SignedNaN == <<128, 0, 0, 0>>
UnsignedNaN == <<255, 255, 255, 255>>
One == <<0, 0, 0, 1>>

(* Whole values of a type; they may be four bytes, a string or a record.   *)
getNumberOfValues(r) ==
    LET type == TypeMask(r.type)
        n    == Len(r.data)
    IN  CASE type \in {Unsigned32, Status32, Float, Signed32} -> n \div 4
          [] type = String32 -> n \div 32
          [] type = Yield -> n \div 8
          [] type = Event -> n \div 44
          [] OTHER -> 0

(* The array data is zero behind the bytes of the register; a value that   *)
(* starts behind the array is whatever lies there.                         *)
DataByte(r, n) ==
    IF n <= Len(r.data) THEN r.data[n] ELSE IF n <= MaxData THEN 0 ELSE Behind[n - MaxData]

getValue(r, i) == Reverse([b \in 1..4 |-> DataByte(r, 4 * i + b)])

Same(r, pairs) == \A pair \in pairs : getValue(r, pair[1]) = getValue(r, pair[2])

SignificantOfFive(r) ==
    IF getValue(r, 4) # One THEN 5
    ELSE IF Same(r, {<<0, 1>>, <<1, 2>>, <<2, 3>>}) THEN 1
    ELSE IF Same(r, {<<2, 3>>}) THEN 3 ELSE 4

getNumberOfSignificantValues(r) ==
    LET n == getNumberOfValues(r)
    IN  CASE TypeMask(r.type) \notin {Unsigned32, Signed32} -> n
          [] n = 2 -> IF getValue(r, 1) = Zeros(4) THEN 1 ELSE 2
          [] n = 5 -> SignificantOfFive(r)
          [] n = 8 -> IF Same(r, {<<0, 1>>, <<2, 3>>, <<4, 5>>, <<6, 7>>}) THEN 4 ELSE 8
          [] OTHER -> n

(* Of eight values every other one, as if they were pairs: if they are not *)
(* the last ones are read from behind the data.                            *)
getNumericValues(r) ==
    LET step == IF getNumberOfValues(r) = 8 THEN 2 ELSE 1
    IN  [i \in 1..getNumberOfSignificantValues(r) |-> getValue(r, step * (i - 1))]

(* The value that carries the selection mark, an index or NULL.            *)
getSelectionIndex(r) ==
    LET marked == {i \in 0..(getNumberOfValues(r) - 1) : getValue(r, i)[1] = 1}
    IN  IF marked = {} THEN NULL ELSE CHOOSE i \in marked : \A j \in marked : i <= j

getSelectedValues(r) ==
    LET i == getSelectionIndex(r)
    IN  IF i = NULL THEN <<>> ELSE <<<<0>> \o Tail(getValue(r, i))>>

getYieldValues(r) ==
    [i \in 1..getNumberOfValues(r) |-> getLittleEndian([b \in 0..7 |-> r.data[8 * (i - 1) + b + 1]], 0, 8)]

getValues(r) ==
    CASE TypeMask(r.type) \in {Unsigned32, Signed32} -> getNumericValues(r)
      [] TypeMask(r.type) = Status32 -> getSelectedValues(r)
      [] TypeMask(r.type) = Yield -> getYieldValues(r)
      [] TypeMask(r.type) \in {String32, Event} -> [i \in 1..getNumberOfValues(r) |-> r.data]
      [] OTHER -> <<>>

-----------------------------------------------------------------------------
(* SpeedwireData::consume                                                  *)

isSameSignature(r, other) ==
    /\ r.command = other.command /\ r.id = other.id
    /\ r.conn = other.conn /\ r.type = other.type

DeviceStatusId == <<0, 33, 72>>     \* 0x00214800
GridRelayId == <<0, 65, 100>>       \* 0x00416400
StatusOK == <<0, 0, 1, 51>>         \* 0x133
RelayOn == <<0, 0, 0, 51>>          \* 0x33

(* Both numeric types are taken as signed values, a NaN as zero.           *)
NumericMeasurement(r, NaN) ==
    IF getValue(r, 0) = NaN THEN Zeros(4) ELSE getValue(r, 0)

(* Mutant: the mark is not masked out of the selected value.               *)
StatusMeasurementMarked(r, good) ==
    Uint32(IF getSelectionIndex(r) # NULL /\ getValue(r, getSelectionIndex(r)) = good THEN 1 ELSE 0)

(* A status as a flag, 1 when the selected value is the good one.          *)
StatusMeasurement(r, good) == Uint32(IF getSelectedValues(r) = <<good>> THEN 1 ELSE 0)

(* The measurement that an element e adds from data r of its signature, or *)
(* none.                                                                   *)
consume(e, r) ==
    IF ~isSameSignature(e, r) \/ Len(r.data) < 20 THEN <<>>
    ELSE CASE TypeMask(e.type) = Signed32 -> <<[value |-> NumericMeasurement(r, SignedNaN), time |-> r.time]>>
           [] TypeMask(e.type) = Unsigned32 -> <<[value |-> NumericMeasurement(r, UnsignedNaN), time |-> r.time]>>
           [] TypeMask(e.type) = Status32 /\ e.id = DeviceStatusId ->
                  <<[value |-> StatusMeasurement(r, StatusOK), time |-> r.time]>>
           [] TypeMask(e.type) = Status32 /\ e.id = GridRelayId ->
                  <<[value |-> StatusMeasurement(r, RelayOn), time |-> r.time]>>
           [] OTHER -> <<>>

=============================================================================
