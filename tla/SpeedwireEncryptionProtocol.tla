-------------------- MODULE SpeedwireEncryptionProtocol --------------------
(***************************************************************************)
(* SpeedwireEncryptionProtocol: the packets that two devices exchange to   *)
(* agree on a key. An encryption packet q is a Payload.                    *)
(***************************************************************************)
EXTENDS SpeedwireHeader

(* Offset and width of the fields.                                         *)
EncryptionField(f) ==
    CASE f = "PacketType" -> <<0, 1>> [] f = "SrcSusyID" -> <<1, 2>>
      [] f = "SrcSerialNumber" -> <<3, 4>> [] f = "DstSusyID" -> <<7, 2>>
      [] f = "DstSerialNumber" -> <<9, 4>>

sma_encryption_data_offset == 13

getEncryptionField(q, f) ==
    getBigEndian(q.udp, q.at + EncryptionField(f)[1], EncryptionField(f)[2])

(* The source serial number is read in big endian and written in little    *)
(* endian byte order.                                                      *)
setEncryptionField(udp, at, f, value) ==
    LET to == at + EncryptionField(f)[1]
    IN  IF f = "SrcSerialNumber" THEN setLittleEndian(udp, to, value)
        ELSE setBigEndian(udp, to, value)

(* All fields of the record values, each by its setter; none overlap.      *)
setEncryptionFields(udp, at, values) ==
    [o \in DOMAIN udp |->
        LET Here(f) == Covers(EncryptionField(f), o - at)
        IN  IF \E f \in DOMAIN values : Here(f)
            THEN LET f == CHOOSE f \in DOMAIN values : Here(f)
                 IN  setEncryptionField(udp, at, f, values[f])[o]
            ELSE udp[o]]

getString16(q, offset) == ReadBytes(q.udp, q.at + sma_encryption_data_offset + offset, 16)

(* At most 16 characters, filled up with zeros.                            *)
setString16(udp, at, offset, value) ==
    WriteBytes(udp, at + sma_encryption_data_offset + offset,
               [i \in 1..16 |-> IF i <= Len(value) THEN value[i] ELSE 0])

=============================================================================
