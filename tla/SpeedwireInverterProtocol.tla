--------------------- MODULE SpeedwireInverterProtocol ---------------------
(***************************************************************************)
(* SpeedwireInverterProtocol: the header fields of an inverter packet, and *)
(* the registers ("raw data elements") a reply carries, whose length is    *)
(* not in the packet but follows from the first and the last register id   *)
(* and the size of the payload. An inverter packet q is a Payload.         *)
(***************************************************************************)
EXTENDS SpeedwireHeader

(* Offset and width of the header fields, in little endian byte order.     *)
InverterField(f) ==
    CASE f = "DstSusyID" -> <<0, 2>> [] f = "DstSerialNumber" -> <<2, 4>>
      [] f = "DstControl" -> <<6, 2>> [] f = "SrcSusyID" -> <<8, 2>>
      [] f = "SrcSerialNumber" -> <<10, 4>> [] f = "SrcControl" -> <<14, 2>>
      [] f = "ErrorCode" -> <<16, 2>> [] f = "FragmentCounter" -> <<18, 2>>
      [] f = "PacketID" -> <<20, 2>> [] f = "CommandID" -> <<22, 4>>
      [] f = "FirstRegisterID" -> <<26, 4>> [] f = "LastRegisterID" -> <<30, 4>>

sma_data_offset == 34

getField(q, f) == getLittleEndian(q.udp, q.at + InverterField(f)[1], InverterField(f)[2])

setField(udp, at, f, value) == setLittleEndian(udp, at + InverterField(f)[1], value)

(* All fields of the record values, each by its setter; none overlap.      *)
setFields(udp, at, values) ==
    [o \in DOMAIN udp |->
        LET Here(f) == Covers(InverterField(f), o - at)
        IN  IF \E f \in DOMAIN values : Here(f)
            THEN LET f == CHOOSE f \in DOMAIN values : Here(f)
                 IN  setField(udp, at, f, values[f])[o]
            ELSE udp[o]]

setDataUint8Array(udp, at, offset, bytes) == WriteBytes(udp, at + sma_data_offset + offset, bytes)

-----------------------------------------------------------------------------
(* Registers: the bytes of an element are a code word (type, register id,  *)
(* connector), a time and data words, or a code word and data only.        *)

(* Of all ids there are the code's number wraps to 0, and this one divides *)
(* no size: there is no length either way.                                 *)
NumRegisters(q) ==
    (ToNat(getField(q, "LastRegisterID")) - ToNat(getField(q, "FirstRegisterID"))) + 1

(* The size is cut to 32 bits, and it wraps around for a packet that ends  *)
(* before its registers.                                                   *)
getRawDataLength(q) ==
    LET n    == NumRegisters(q)
        size == (q.size - sma_data_offset) % UINT32_RANGE
    IN  IF n > 0 /\ size # 0 /\ size % n = 0 /\ size \div n >= 12 THEN size \div n ELSE 0

Word(q, offset) == getLittleEndian(q.udp, q.at + offset, 4)

getNextRawDataElement(q, element, length) ==
    LET next == element + length
    IN  IF next + 4 > q.size \/ Word(q, next) = Zeros(4) \/ next + length > q.size
        THEN NULL ELSE next

RawElements(q) ==
    LET length == getRawDataLength(q)
    IN  IF length = 0 THEN <<>>
        ELSE LET end == q.size + sma_data_offset
             IN  Walk(sma_data_offset,
                      [e \in 0..end |-> getNextRawDataElement(q, e, length)], end + 1)

(* Command::ID_MASK, 0xfffc0000.                                           *)
CommandClass(command) == <<command[1], command[2] \div 4>>
EventClass == <<112, 4>>
YieldClasses == {<<112, 0>>, <<112, 8>>}

MaxData == 44
Signed32 == 64
Unsigned32 == 0
Status32 == 8
String32 == 16
Float == 32
Event == 240
Yield == 248

(* The constructor of SpeedwireRawData copies up to MaxData of size bytes. *)
CopiedData(q, offset, size) ==
    ReadBytes(q.udp, q.at + offset, IF size < MaxData THEN size ELSE MaxData)

RawData(command, id, conn, type, time, data) ==
    [command |-> command, id |-> id, conn |-> conn, type |-> type, time |-> time, data |-> data]

getRawData(q, element, length) ==
    LET code == Word(q, element)
    IN  RawData(getField(q, "CommandID"), <<0, code[2], code[3]>>, code[4], code[1],
                Word(q, element + 4), CopiedData(q, element + 8, length - 8))

getRawConnector0Data(q, element, length) ==
    LET code == Word(q, element)
    IN  RawData(getField(q, "CommandID"), <<0, code[2], code[3]>>, code[4], code[1],
                code, CopiedData(q, element + 4, length - 4))

getRawTimelineData(q, element, length, type) ==
    LET command == getField(q, "CommandID")
    IN  RawData(command, <<command[1], command[2], command[3]>>, 0, type,
                Word(q, element), CopiedData(q, element + 4, length - 4))

getRawDataElements(q) ==
    LET length  == getRawDataLength(q)
        command == getField(q, "CommandID")
        class   == CommandClass(command)
        Data(e) == CASE class = EventClass -> getRawTimelineData(q, e, length, Event)
                     [] class \in YieldClasses -> getRawTimelineData(q, e, length, Yield)
                     [] class # EventClass /\ class \notin YieldClasses /\ command[4] = 0 ->
                            getRawConnector0Data(q, e, length)
                     [] OTHER -> getRawData(q, e, length)
        elements == RawElements(q)
    IN  [i \in DOMAIN elements |-> Data(elements[i])]

=============================================================================
