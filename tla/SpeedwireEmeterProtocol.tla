---------------------- MODULE SpeedwireEmeterProtocol ----------------------
(***************************************************************************)
(* SpeedwireEmeterProtocol and the obis elements of ObisData: an emeter    *)
(* packet carries a sequence of elements of different lengths, each        *)
(* written as far as the packet has room and walked by the length its own  *)
(* header tells. An emeter packet q is a Payload.                          *)
(***************************************************************************)
EXTENDS SpeedwireHeader

EmeterField(f) ==
    CASE f = "SusyID" -> <<0, 2>> [] f = "SerialNumber" -> <<2, 4>> [] f = "Time" -> <<6, 4>>
sma_first_obis_offset == 10
sma_firmware_version_channel == 144

getEmeterField(q, f) == getBigEndian(q.udp, q.at + EmeterField(f)[1], EmeterField(f)[2])

setEmeterField(udp, at, f, value) == setBigEndian(udp, at + EmeterField(f)[1], value)

(* All fields of the record values, each by its setter; none overlap.      *)
setEmeterFields(udp, at, values) ==
    [o \in DOMAIN udp |->
        LET Here(f) == Covers(EmeterField(f), o - at)
        IN  IF \E f \in DOMAIN values : Here(f)
            THEN LET f == CHOOSE f \in DOMAIN values : Here(f)
                 IN  setEmeterField(udp, at, f, values[f])[o]
            ELSE udp[o]]

-----------------------------------------------------------------------------
(* Obis elements; o is the address of an element in the buffer udp.        *)

getObisChannel(udp, o) == udp[o]
getObisType(udp, o) == udp[o + 2]

(* Mutant: the length of the firmware version is that of its type 0.       *)
getObisLengthByType(udp, o) == 4 + getObisType(udp, o)

getObisLength(udp, o) ==
    IF getObisChannel(udp, o) = sma_firmware_version_channel THEN 8 ELSE 4 + getObisType(udp, o)

getObisValue4(udp, o) == getBigEndian(udp, o + 4, 4)
getObisValue8(udp, o) == getBigEndian(udp, o + 4, 8)

(* The last character of a firmware version, when it is a digit, is read   *)
(* as a number.                                                            *)
Revision(c) == IF c \in 48..57 THEN c - 48 ELSE c

(* An element [channel, index, type, tariff, value] as bytes: the array of *)
(* ObisData::toByteArray always holds twelve.                              *)
toByteArray(e) ==
    LET head  == <<e.channel, e.index, e.type, e.tariff>>
        value == CASE e.type \in {4, 7, 8} -> e.value
                   [] e.type = 0 /\ e.channel = sma_firmware_version_channel ->
                          SubSeq(e.value, 1, 3) \o <<Revision(e.value[4])>>
                   [] e.type = 0 /\ e.channel = 0 /\ e.index = 0 /\ e.tariff = 0 -> Zeros(4)
                   [] OTHER -> <<>>
        bytes == head \o value
    IN  bytes \o [i \in 1..(12 - Len(bytes)) |-> 255]

-----------------------------------------------------------------------------

getFirstObisElement(q) ==
    IF sma_first_obis_offset > q.size THEN NULL ELSE q.at + sma_first_obis_offset

getNextObisElement(q, o) ==
    LET next == o + getObisLength(q.udp, o)
    IN  IF \/ (next + 4) - q.at > q.size
           \/ (next + getObisLength(q.udp, next)) - q.at > q.size
        THEN NULL ELSE next

ObisElements(q) ==
    Walk(getFirstObisElement(q),
         [o \in q.at..(q.at + q.size) |-> getNextObisElement(q, o)], q.size)

ObisFits(q, o, length) == (o + length) - q.at <= q.size

ObisBytesLength(bytes) ==
    getObisLength([i \in 0..(Len(bytes) - 1) |-> bytes[i + 1]], 0)

(* The buffer after the element is copied to o; its length alone is used.  *)
setObisElement(q, o, bytes) ==
    IF ObisFits(q, o, ObisBytesLength(bytes))
    THEN WriteBytes(q.udp, o, SubSeq(bytes, 1, ObisBytesLength(bytes)))
    ELSE q.udp

=============================================================================
