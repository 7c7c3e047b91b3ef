------------------------ MODULE SpeedwirePacketsProofs ------------------------
(***************************************************************************)
(* Proofs about the life of a packet: the inductive invariant, that every  *)
(* step keeps it, and of it that readers stay inside of the memory, that   *)
(* fields are read as they were sent, that no packet is taken for one of   *)
(* another kind, that the elements of an emeter packet are delivered, and  *)
(* that the registers of a reply are understood.                           *)
(***************************************************************************)
EXTENDS SpeedwirePacketLemmas

-----------------------------------------------------------------------------
(* The inductive invariant                                                 *)

(* Command and register ids of an inverter packet tell its kind, and its   *)
(* long words are counted in a byte.                                       *)
Commands(b, l, kind) ==
    LET command == getLittleEndian(b, 42, 4)
        IdsZero == getLittleEndian(b, 46, 4) = Zeros(4) /\ getLittleEndian(b, 50, 4) = Zeros(4)
    IN  /\ l \div 4 \in Byte
        /\ kind = "unicast_request" => l = 38 /\ command = <<0, 0, 2, 0>> /\ IdsZero
        /\ kind = "unicast_response" => l = 78 /\ command = <<0, 0, 2, 1>> /\ IdsZero
        /\ kind \notin {"unicast_request", "unicast_response"} =>
               command # <<0, 0, 2, 0>> /\ command # <<0, 0, 2, 1>>

(* The password of a login lies behind its time.                           *)
Coded(b, s) ==
    /\ s.parts[1] \in Seq(Byte)
    /\ \A i \in 1..12 : b[61 + i] = getEncodedPassword(s.fields["FirstRegisterID"], s.parts[1])[i]

(* The registers of a reply lie behind its fields, which tell how many     *)
(* they are.                                                               *)
AnswerFields(fields, reply) ==
    /\ {"CommandID", "FirstRegisterID", "LastRegisterID"} \subseteq DOMAIN fields
    /\ fields["CommandID"] = reply.command /\ fields["FirstRegisterID"] = reply.first
    /\ fields["LastRegisterID"] = Uint32(LastRegisterID(reply))

Answered(b, s, l) ==
    /\ s.parts[1] \in Registers /\ l = 38 + Len(RegisterBytes(s.parts[1]))
    /\ AnswerFields(s.fields, s.parts[1])
    /\ \A i \in 1..Len(RegisterBytes(s.parts[1])) : b[53 + i] = RegisterBytes(s.parts[1])[i]

InverterSent(b, s, l) ==
    /\ l >= 34 /\ DOMAIN s.fields \subseteq InverterFields /\ InverterPacket(b, l, s.fields)
    /\ Commands(b, l, s.kind)
    /\ s.kind = "login" => l >= 58 /\ "FirstRegisterID" \in DOMAIN s.fields /\ Coded(b, s)
    /\ s.kind \in Replies => Answered(b, s, l)

EncryptionSent(b, s) ==
    /\ DOMAIN s.fields = EncryptionFields /\ s.parts[1] \in Seq(Byte)
    /\ EncryptionPacket(b, s.fields, s.parts[1])

(* Elements lie one after the other, from first on, and zeros behind them  *)
(* up to the end.                                                          *)
Layout(b, parts, pos, first, end) ==
    /\ pos[1] = first
    /\ \A i \in 1..Len(parts) : /\ pos[i + 1] = pos[i] + ElementLength(parts[i])
                                /\ ElementAt(b, pos[i], parts[i])
    /\ \A i \in 1..(Len(parts) + 1) : first <= pos[i] /\ pos[i] <= pos[Len(parts) + 1]
    /\ pos[Len(parts) + 1] <= end
    /\ \A o \in pos[Len(parts) + 1]..(end - 1) : b[o] = 0

MeterProtocol(kind) ==
    IF kind = "emeter" THEN sma_emeter_protocol_id ELSE sma_extended_emeter_protocol_id

MeterSent(b, s, l, goes) ==
    LET at == PayloadAt(MeterProtocol(s.kind))
    IN  /\ l >= (at - 16) + 10
        /\ DOMAIN s.fields = EmeterFields /\ MeterPacket(b, l, MeterProtocol(s.kind), s.fields)
        /\ s.parts \in Seq(Elements)
        /\ \E pos \in [1..(Len(s.parts) + 1) -> Nat] :
               /\ Layout(b, s.parts, pos, at + 10, 16 + l)
               /\ goes \in {NULL, pos[Len(s.parts) + 1]}

SentPacket(b, s, z, goes) ==
    /\ s.kind \in Requests \cup Replies => InverterSent(b, s, z - 20)
    /\ s.kind = "encryption" => z = 51 /\ EncryptionSent(b, s)
    /\ s.kind \in Meters => MeterSent(b, s, z - 20, goes)
    /\ s.kind = "multicast_request" => z = 20 /\ DiscoveryRequest(BufferSize, b)
    /\ s.kind = "multicast_response" => z = 57 /\ DiscoveryResponse(BufferSize, b, s.fields["ip"])

PacketsInv ==
    /\ PacketsTypeOK
    /\ DOMAIN sent = {"kind", "fields", "parts"}
    /\ stage = "start" => udp = NoBytes /\ next = NULL /\ size = 0
    /\ stage # "start" => sent.kind # "none" /\ SentPacket(udp, sent, size, next)
    /\ stage = "filling" => sent.kind \in Meters
    /\ stage # "received" => nbytes = 0
    /\ stage = "received" => \A o \in 0..(nbytes - 1) : rx[o] = udp[o]

(* Two bytes are a number of two bytes.                                    *)
LEMMA TwoBytes ==
  ASSUME NEW x \in Byte, NEW y \in Byte
  PROVE  <<x, y>> \in [1..2 -> Byte]
<1>1. PICK s : s = <<x, y>>
  OBVIOUS
<1>2. s = [i \in 1..2 |-> s[i]] /\ s[1] = x /\ s[2] = y
  BY <1>1
<1>3. \A i \in 1..2 : i = 1 \/ i = 2
  OBVIOUS
<1>4. \A i \in 1..2 : s[i] \in Byte
  BY <1>2, <1>3
<1>5. s \in [1..2 -> Byte]
  BY <1>2, <1>4
<1> QED
  BY <1>1, <1>5

(* Four bytes are a number of four bytes.                                  *)
LEMMA FourOfThem ==
  ASSUME NEW x \in Byte, NEW y \in Byte, NEW u \in Byte, NEW v \in Byte
  PROVE  <<x, y, u, v>> \in FourBytes
<1>1. PICK s : s = <<x, y, u, v>>
  OBVIOUS
<1>2. s = [i \in 1..4 |-> s[i]] /\ s[1] = x /\ s[2] = y /\ s[3] = u /\ s[4] = v
  BY <1>1
<1>3. \A i \in 1..4 : i = 1 \/ i = 2 \/ i = 3 \/ i = 4
  OBVIOUS
<1>4. \A i \in 1..4 : s[i] \in Byte
  BY <1>2, <1>3
<1>5. s \in [1..4 -> Byte]
  BY <1>2, <1>4
<1> QED
  BY <1>1, <1>5 DEF FourBytes

(* Addresses of devices, in the packets that name them.                    *)
Device == [susyID : [1..2 -> Byte], serialNumber : FourBytes]

(* Addresses have two bytes of susy id and four of serial number.          *)
LEMMA DeviceIs ==
  /\ Addresses \subseteq Device
  /\ \A pair \in Pairs : pair[1] \in Device /\ pair[2] \in Device
  /\ Broadcast \in Device
  /\ PacketIDs \subseteq [1..2 -> Byte]
<1>1. 255 \in Byte
  BY DEF Byte
<1>2. <<255, 255>> \in [1..2 -> Byte] /\ <<255, 255, 255, 255>> \in FourBytes
  BY <1>1, TwoBytes, FourOfThem
<1>3. Broadcast \in Device
  BY <1>2 DEF Broadcast, Device
<1>4. Addresses \subseteq Device /\ PacketIDs \subseteq [1..2 -> Byte]
  BY PacketsAssumption DEF Device
<1>5. \A pair \in Pairs : pair[1] \in Addresses /\ pair[2] \in Addresses
  BY DEF Pairs
<1> QED
  BY <1>3, <1>4, <1>5

(* The fields that a sender sets.                                          *)
FieldsOf(fields, dst, src, control, id, command, first, last) ==
    /\ dst \in Device /\ src \in Device /\ control \in [1..2 -> Byte] /\ id \in [1..2 -> Byte]
    /\ command \in FourBytes /\ first \in FourBytes /\ last \in FourBytes
    /\ fields = Fields(dst, src, control, id, command, first, last)

(* The fields of an inverter packet have their widths.                     *)
LEMMA FieldsAre ==
  ASSUME NEW fields, NEW dst, NEW src, NEW control, NEW id, NEW command, NEW first, NEW last,
         FieldsOf(fields, dst, src, control, id, command, first, last)
  PROVE  /\ InverterFieldValues(fields)
         /\ fields["CommandID"] = command /\ fields["FirstRegisterID"] = first
         /\ fields["LastRegisterID"] = last
<1>0. /\ dst \in Device /\ src \in Device /\ control \in [1..2 -> Byte] /\ id \in [1..2 -> Byte]
      /\ command \in FourBytes /\ first \in FourBytes /\ last \in FourBytes
      /\ fields = Fields(dst, src, control, id, command, first, last)
  BY DEF FieldsOf
<1>1. 0 \in Byte
  BY DEF Byte
<1>2. <<0, 0>> \in [1..2 -> Byte]
  BY <1>1, TwoBytes
<1>3. /\ dst.susyID \in [1..2 -> Byte] /\ src.susyID \in [1..2 -> Byte]
      /\ dst.serialNumber \in [1..4 -> Byte] /\ src.serialNumber \in [1..4 -> Byte]
  BY <1>0 DEF Device, FourBytes
<1>4. /\ DOMAIN fields = InverterFields
      /\ fields["DstSusyID"] = dst.susyID /\ fields["DstSerialNumber"] = dst.serialNumber
      /\ fields["DstControl"] = control /\ fields["SrcSusyID"] = src.susyID
      /\ fields["SrcSerialNumber"] = src.serialNumber /\ fields["SrcControl"] = control
      /\ fields["ErrorCode"] = <<0, 0>> /\ fields["FragmentCounter"] = <<0, 0>>
      /\ fields["PacketID"] = id /\ fields["CommandID"] = command
      /\ fields["FirstRegisterID"] = first /\ fields["LastRegisterID"] = last
  BY <1>0 DEF Fields, InverterFields
<1>5. /\ InverterField("DstSusyID")[2] = 2 /\ InverterField("DstSerialNumber")[2] = 4
      /\ InverterField("DstControl")[2] = 2 /\ InverterField("SrcSusyID")[2] = 2
      /\ InverterField("SrcSerialNumber")[2] = 4 /\ InverterField("SrcControl")[2] = 2
      /\ InverterField("ErrorCode")[2] = 2 /\ InverterField("FragmentCounter")[2] = 2
      /\ InverterField("PacketID")[2] = 2 /\ InverterField("CommandID")[2] = 4
      /\ InverterField("FirstRegisterID")[2] = 4 /\ InverterField("LastRegisterID")[2] = 4
  BY DEF InverterField
<1>6. command \in [1..4 -> Byte] /\ first \in [1..4 -> Byte] /\ last \in [1..4 -> Byte]
  BY <1>0 DEF FourBytes
<1>7. ASSUME NEW f \in InverterFields PROVE fields[f] \in [1..InverterField(f)[2] -> Byte]
  <2>1. CASE f \in {"DstSusyID", "DstControl", "SrcSusyID", "SrcControl"}
    BY <1>0, <1>3, <1>4, <1>5, <2>1
  <2>2. CASE f \in {"ErrorCode", "FragmentCounter", "PacketID"}
    BY <1>0, <1>2, <1>4, <1>5, <2>2
  <2>3. CASE f \in {"DstSerialNumber", "SrcSerialNumber"}
    BY <1>3, <1>4, <1>5, <2>3
  <2>4. CASE f \in {"CommandID", "FirstRegisterID", "LastRegisterID"}
    BY <1>4, <1>5, <1>6, <2>4
  <2> QED
    BY <2>1, <2>2, <2>3, <2>4 DEF InverterFields
<1> QED
  BY <1>4, <1>7 DEF InverterFieldValues

(* The ids in a packet that sets all fields.                               *)
LEMMA IdsOf ==
  ASSUME NEW l, NEW fields, InverterFieldValues(fields), NEW b, InverterPacket(b, l, fields)
  PROVE  /\ getLittleEndian(b, 42, 4) = fields["CommandID"]
         /\ getLittleEndian(b, 46, 4) = fields["FirstRegisterID"]
         /\ getLittleEndian(b, 50, 4) = fields["LastRegisterID"]
<1>1. /\ InverterField("CommandID") = <<22, 4>> /\ InverterField("FirstRegisterID") = <<26, 4>>
      /\ InverterField("LastRegisterID") = <<30, 4>>
  BY DEF InverterField
<1>2. "CommandID" \in DOMAIN fields /\ "FirstRegisterID" \in DOMAIN fields /\ "LastRegisterID" \in DOMAIN fields
  BY DEF InverterFieldValues, InverterFields
<1>3. \A f \in DOMAIN fields :
         getLittleEndian(b, 20 + InverterField(f)[1], InverterField(f)[2]) = fields[f]
  BY DEF InverterPacket, Carries
<1>4. /\ getLittleEndian(b, 20 + 22, 4) = fields["CommandID"]
      /\ getLittleEndian(b, 20 + 26, 4) = fields["FirstRegisterID"]
      /\ getLittleEndian(b, 20 + 30, 4) = fields["LastRegisterID"]
  BY <1>1, <1>2, <1>3
<1> QED
  BY <1>4

(* A packet with a command of its own is not taken for unicast discovery.  *)
LEMMA CommandsOf ==
  ASSUME NEW l, l \div 4 \in Byte, NEW fields, InverterFieldValues(fields), NEW b, InverterPacket(b, l, fields),
         NEW kind, kind \notin {"unicast_request", "unicast_response"},
         fields["CommandID"] # <<0, 0, 2, 0>>, fields["CommandID"] # <<0, 0, 2, 1>>
  PROVE  Commands(b, l, kind)
  BY IdsOf DEF Commands

(* What the ghost variable tells, and the fields set in a header.           *)
Told(s, kind, fields) == s.kind = kind /\ s.fields = fields
SetBy(b, length, fields) == b = setFields(InverterHeader(length), InverterAt(length), fields)

(* Requests are not replies.                                               *)
LEMMA NoReply == "query" \notin Replies /\ "logoff" \notin Replies /\ "login" \notin Replies /\ "unicast_request" \notin Replies
  BY DEF Replies

CommandOther(command) == command # <<0, 0, 2, 0>> /\ command # <<0, 0, 2, 1>>

(* What sendQueryRequest leaves is a packet of its kind.                   *)
LEMMA QuerySent ==
  ASSUME NEW fields, NEW dst, NEW src, NEW control, NEW id, NEW command, NEW first, NEW last, 
         FieldsOf(fields, dst, src, control, id, command, first, last), CommandOther(command),
         NEW b, SetBy(b, 58, fields), NEW s, Told(s, "query", fields)
  PROVE  InverterSent(b, s, 38)
<1>1. InverterFieldValues(fields) /\ fields["CommandID"] = command
  BY FieldsAre
<1>2. 38 \in Nat /\ 38 >= 34 /\ 20 + 38 <= BufferSize /\ 58 = 20 + 38 /\ 38 >= 38
  BY BufferIs
<1>3. InverterPacket(b, 38, fields)
  BY <1>1, <1>2, InverterSet DEF SetBy
<1>4. 38 \div 4 \in Byte
  BY DEF Byte
<1>5. Commands(b, 38, s.kind)
  BY <1>1, <1>3, <1>4, CommandsOf DEF CommandOther, Told
<1>6. DOMAIN fields \subseteq InverterFields
  BY <1>1 DEF InverterFieldValues
<1> QED
  BY <1>2, <1>3, <1>5, <1>6, NoReply DEF InverterSent, Told

(* What sendLogoffRequest leaves is a packet of its kind.                  *)
LEMMA LogoffSent ==
  ASSUME NEW fields, NEW dst, NEW src, NEW control, NEW id, NEW command, NEW first, 
         FieldsOf(fields, dst, src, control, id, command, first, Zeros(4)), CommandOther(command),
         NEW b, SetBy(b, 54, fields), NEW s, Told(s, "logoff", fields)
  PROVE  InverterSent(b, s, 34)
<1>1. InverterFieldValues(fields) /\ fields["CommandID"] = command /\ fields["LastRegisterID"] = Zeros(4)
  BY FieldsAre
<1>2. 34 \in Nat /\ 34 >= 34 /\ 20 + 34 <= BufferSize /\ 54 = 20 + 34
  BY BufferIs
<1>3. InverterPacket(b, 34, fields)
  BY <1>1, <1>2, InverterSet DEF SetBy
<1>4. 34 \div 4 \in Byte
  BY DEF Byte
<1>5. Commands(b, 34, s.kind)
  BY <1>1, <1>3, <1>4, CommandsOf DEF CommandOther, Told
<1>6. DOMAIN fields \subseteq InverterFields
  BY <1>1 DEF InverterFieldValues
<1> QED
  BY <1>2, <1>3, <1>5, <1>6, NoReply DEF InverterSent, Told

(* An encoded password has twelve bytes, however long the password is.     *)
LEMMA CodeIs ==
  ASSUME NEW user, NEW password \in Seq(Byte), NEW code, code = getEncodedPassword(user, password)
  PROVE  code \in Seq(Byte) /\ Len(code) = 12
<1>1. PICK k \in Nat : k = 12
  OBVIOUS
<1>2. ASSUME NEW i \in 1..12
      PROVE  ((IF i <= Len(password) THEN password[i] ELSE 0) + Pattern(user)) % 256 \in Byte
  <2>1. (IF i <= Len(password) THEN password[i] ELSE 0) \in Byte
    <3>1. CASE i <= Len(password)
      <4>1. i \in 1..Len(password)
        BY <3>1
      <4> QED
        BY <3>1, <4>1
    <3>2. CASE ~(i <= Len(password))
      BY <3>2 DEF Byte
    <3> QED
      BY <3>1, <3>2
  <2>2. PICK x \in Byte : x = (IF i <= Len(password) THEN password[i] ELSE 0)
    BY <2>1
  <2>3. PICK y \in 0..255 : y = Pattern(user)
    BY DEF Pattern
  <2>4. (x + y) % 256 \in Byte
    BY DEF Byte
  <2> QED
    BY <2>2, <2>3, <2>4
<1>3. code = [i \in 1..12 |-> ((IF i <= Len(password) THEN password[i] ELSE 0) + Pattern(user)) % 256]
  BY DEF getEncodedPassword
<1>4. code \in [1..k -> Byte]
  BY <1>1, <1>2, <1>3
<1> QED
  BY <1>1, <1>4, BytesOf

(* The password follows the time and four zeros.                           *)
LoginData(data, user, password, now) ==
    /\ password \in Seq(Byte) /\ now \in FourBytes
    /\ data = Reverse(now) \o Zeros(4) \o getEncodedPassword(user, password)

(* What sendLoginRequest leaves is a packet of its kind, with the password *)
(* behind the header.                                                      *)
LEMMA LoginSent ==
  ASSUME NEW fields, NEW dst, NEW src, NEW control, NEW id, NEW command, NEW user, NEW last,
         FieldsOf(fields, dst, src, control, id, command, user, last), CommandOther(command),
         NEW set, SetBy(set, 78, fields),
         NEW password, NEW now, NEW data, LoginData(data, user, password, now),
         NEW b, b = setDataUint8Array(set, InverterAt(78), 0, data),
         NEW s, Told(s, "login", fields), s.parts = <<password>>
  PROVE  InverterSent(b, s, 58)
<1>1. /\ InverterFieldValues(fields) /\ fields["CommandID"] = command
      /\ fields["FirstRegisterID"] = user
  BY FieldsAre
<1>2. 58 \in Nat /\ 58 >= 34 /\ 20 + 58 <= BufferSize /\ 78 = 20 + 58 /\ 58 >= 38
  BY BufferIs
<1>3. InverterPacket(set, 58, fields)
  BY <1>1, <1>2, InverterSet DEF SetBy
<1>4. PICK v : v = Reverse(now)
  OBVIOUS
<1>5. v \in Seq(Byte) /\ Len(v) = 4
  <2>1. PICK k \in Nat : k = 4 /\ now \in [1..k -> Byte]
    BY DEF FourBytes, LoginData
  <2>2. now \in Seq(Byte) /\ Len(now) = k
    BY <2>1, BytesOf
  <2> QED
    BY <1>4, <2>1, <2>2, ReverseOf
<1>6. PICK z \in Seq(Byte) : z = Zeros(4) /\ Len(z) = 4
  BY ZerosTyped
<1>7. PICK w : w = v \o z
  OBVIOUS
<1>8. w \in Seq(Byte) /\ Len(w) = Len(v) + Len(z)
  BY <1>5, <1>6, <1>7, JoinedOn
<1>9. PICK code : code = getEncodedPassword(user, password)
  OBVIOUS
<1>10. code \in Seq(Byte) /\ Len(code) = 12
  BY <1>9, CodeIs DEF LoginData
<1>11. data = w \o code
  BY <1>4, <1>6, <1>7, <1>9 DEF LoginData
<1>12. data \in Seq(Byte) /\ Len(data) = Len(w) + Len(code) /\ Holds(data, Len(w), code)
  BY <1>8, <1>10, <1>11, JoinedOn
<1>13. Len(w) = 8 /\ Len(data) = 20
  BY <1>5, <1>6, <1>8, <1>10, <1>12
<1>14. DOMAIN fields \subseteq InverterFields /\ "FirstRegisterID" \in DOMAIN fields
  BY <1>1 DEF InverterFieldValues, InverterFields
<1>15. InverterPacket(b, 58, fields) /\ \A i \in 1..Len(data) : b[(54 + i) - 1] = data[i]
  <2>1. 54 + Len(data) <= 16 + 58
    BY <1>13
  <2>2. data \in Seq(Byte)
    BY <1>12
  <2> QED
    BY <1>2, <1>3, <1>14, <2>1, <2>2, InverterData
<1>16. Coded(b, s)
  <2>1. ASSUME NEW i \in 1..12 PROVE b[61 + i] = code[i]
    <3>1. PICK j \in 1..Len(data) : j = 8 + i /\ (54 + j) - 1 = 61 + i
      BY <1>13
    <3>2. b[61 + i] = data[8 + i]
      BY <1>15, <3>1
    <3>3. data[8 + i] = code[i]
      BY <1>10, <1>12, <1>13 DEF Holds
    <3> QED
      BY <3>2, <3>3
  <2>2. s.parts[1] = password /\ s.fields["FirstRegisterID"] = user /\ password \in Seq(Byte)
    BY <1>1 DEF Told, LoginData
  <2> QED
    BY <1>9, <2>1, <2>2 DEF Coded
<1>17. Commands(b, 58, s.kind)
  <2>1. 58 \div 4 \in Byte
    BY DEF Byte
  <2> QED
    BY <1>1, <1>15, <2>1, CommandsOf DEF CommandOther, Told
<1> QED
  BY <1>2, <1>14, <1>15, <1>16, <1>17, NoReply DEF InverterSent, Told

UnicastFields(fields, local, id) ==
    /\ local \in Device /\ id \in [1..2 -> Byte]
    /\ fields = [SrcSusyID |-> local.susyID, SrcSerialNumber |-> local.serialNumber, PacketID |-> id,
                  DstSusyID |-> <<255, 255>>, CommandID |-> <<0, 0, 2, 0>>]

(* What getUnicastRequest leaves is a packet of its kind.                  *)
LEMMA UnicastSent ==
  ASSUME NEW b \in Area(BufferSize), NEW local, NEW id,
         NEW r, r = getUnicastRequest(b, local, id),
         NEW fields, UnicastFields(fields, local, id), NEW s, Told(s, "unicast_request", fields)
  PROVE  InverterSent(r, s, 38) /\ Len(unicast_request) = 58
<1>1. /\ InverterPacket(r, 38, fields) /\ Len(unicast_request) = 58
      /\ getLittleEndian(r, 46, 4) = Zeros(4) /\ getLittleEndian(r, 50, 4) = Zeros(4)
  <2>1. PICK from \in [susyID : [1..2 -> Byte], serialNumber : FourBytes], i \in [1..2 -> Byte] :
           local = from /\ id = i
    BY DEF Device, UnicastFields
  <2>2. fields = [SrcSusyID |-> from.susyID, SrcSerialNumber |-> from.serialNumber, PacketID |-> i,
                  DstSusyID |-> <<255, 255>>, CommandID |-> <<0, 0, 2, 0>>]
    BY <2>1 DEF UnicastFields
  <2>3. r = getUnicastRequest(b, from, i)
    BY <2>1
  <2> QED
    BY <2>2, <2>3, UnicastRequestSet
<1>2. DOMAIN fields \subseteq InverterFields /\ "CommandID" \in DOMAIN fields
      /\ fields["CommandID"] = <<0, 0, 2, 0>>
  BY DEF InverterFields, UnicastFields
<1>3. getLittleEndian(r, 42, 4) = <<0, 0, 2, 0>>
  <2>1. InverterField("CommandID")[1] = 22 /\ InverterField("CommandID")[2] = 4 /\ 20 + 22 = 42
    BY DEF InverterField
  <2>2. getLittleEndian(r, 20 + 22, 4) = fields["CommandID"]
    BY <1>1, <1>2, <2>1 DEF InverterPacket, Carries
  <2> QED
    BY <1>2, <2>1, <2>2
<1>4. Commands(r, 38, s.kind)
  <2>1. 38 \div 4 \in Byte
    BY DEF Byte
  <2> QED
    BY <1>1, <1>3, <2>1 DEF Commands, Told
<1> QED
  BY <1>1, <1>2, <1>4, NoReply DEF InverterSent, Told

(* What a device answers with is a packet of its kind.                     *)
LEMMA ReplySent ==
  ASSUME NEW reply \in Registers, NEW fields, NEW dst, NEW src, NEW control, NEW id,
         FieldsOf(fields, dst, src, control, id, reply.command, reply.first, LastRegister(reply)),
         NEW raw, raw = RegisterBytes(reply), NEW length, length = 58 + Len(raw),
         NEW set, SetBy(set, length, fields),
         NEW b, b = setDataUint8Array(set, InverterAt(length), 0, raw),
         NEW s, Told(s, reply.kind, fields), s.parts[1] = reply
  PROVE  raw \in Seq(Byte) /\ length <= BufferSize /\ InverterSent(b, s, 38 + Len(raw))
<1>1. /\ reply.registers \in Seq(SentRegisters) /\ reply.kind \in {"reply", "unicast_response"}
      /\ 58 + Len(raw) <= BufferSize /\ ReplyOfDevice(reply)
  BY ReplyIs
<1>2. raw \in Seq(Byte)
  BY RegisterBytesAre DEF RegistersLaid
<1>3. PICK k \in Nat : k = Len(raw)
  BY <1>2
<1>4. PICK l \in Nat : l = 38 + k /\ l >= 34 /\ l >= 38 /\ 20 + l <= BufferSize /\ length = 20 + l
  <2>1. BufferSize \in Nat /\ 58 + k <= BufferSize
    BY <1>1, <1>3, BufferIs
  <2>2. length = 58 + k
    BY <1>3
  <2>3. PICK l \in Nat : l = 38 + k
    OBVIOUS
  <2>4. l >= 34 /\ l >= 38 /\ 20 + l <= BufferSize /\ length = 20 + l
    BY ONLY <1>3, <2>1, <2>2, <2>3, SMTT(30)
  <2> QED
    BY <2>3, <2>4
<1>5. /\ InverterFieldValues(fields) /\ fields["CommandID"] = reply.command
      /\ fields["FirstRegisterID"] = reply.first /\ fields["LastRegisterID"] = LastRegister(reply)
  BY FieldsAre
<1>6. InverterPacket(set, l, fields)
  BY <1>4, <1>5, InverterSet DEF SetBy
<1>7. DOMAIN fields \subseteq InverterFields
  BY <1>5 DEF InverterFieldValues
<1>8. InverterPacket(b, l, fields) /\ \A i \in 1..Len(raw) : b[(54 + i) - 1] = raw[i]
  <2>1. 54 + Len(raw) <= 16 + l
    BY <1>3, <1>4
  <2> QED
    BY <1>2, <1>4, <1>6, <1>7, <2>1, InverterData
<1>9. l \div 4 \in Byte
  BY <1>1, <1>3, <1>4 DEF ReplyOfDevice
<1>10. Commands(b, l, s.kind)
  <2>1. CASE reply.kind = "unicast_response"
    <3>1. /\ reply.command = <<0, 0, 2, 1>> /\ reply.first = Zeros(4) /\ Len(raw) = 40
      BY <1>1, <2>1 DEF ReplyOfDevice
    <3>2. l = 78
      BY <1>3, <1>4, <3>1
    <3>3. LastRegister(reply) = Zeros(4)
      BY <2>1, LastRegisterTyped
    <3>4. /\ getLittleEndian(b, 42, 4) = reply.command /\ getLittleEndian(b, 46, 4) = reply.first
          /\ getLittleEndian(b, 50, 4) = LastRegister(reply)
      BY <1>5, <1>8, IdsOf
    <3>5. s.kind = "unicast_response"
      BY <2>1 DEF Told
    <3> QED
      BY <1>9, <3>1, <3>2, <3>3, <3>4, <3>5 DEF Commands
  <2>2. CASE reply.kind = "reply"
    <3>1. reply.command \notin {<<0, 0, 2, 0>>, <<0, 0, 2, 1>>}
      BY <1>1, <2>2 DEF ReplyOfDevice
    <3>2. s.kind \notin {"unicast_request", "unicast_response"}
      BY <2>2 DEF Told
    <3> QED
      BY <1>5, <1>8, <1>9, <3>1, <3>2, CommandsOf
  <2> QED
    BY <1>1, <2>1, <2>2
<1>11. s.kind # "login" /\ s.fields = fields
  BY <1>1 DEF Told
<1>12. Answered(b, s, l)
  <2>1. {"CommandID", "FirstRegisterID", "LastRegisterID"} \subseteq DOMAIN fields
    BY <1>5 DEF InverterFieldValues, InverterFields
  <2>2. AnswerFields(s.fields, reply)
    BY <1>5, <1>11, <2>1 DEF AnswerFields, LastRegister
  <2>3. ASSUME NEW i \in 1..Len(raw) PROVE b[53 + i] = raw[i]
    <3>1. (54 + i) - 1 = 53 + i
      BY <1>3
    <3> QED
      BY <1>8, <3>1
  <2> QED
    BY <1>3, <1>4, <2>2, <2>3 DEF Answered
<1>13. InverterSent(b, s, l)
  BY <1>4, <1>7, <1>8, <1>10, <1>11, <1>12 DEF InverterSent
<1> QED
  BY <1>1, <1>2, <1>3, <1>4, <1>13

SeedFields(fields, src, dst) ==
    /\ src \in Device /\ dst \in Device
    /\ fields = [PacketType |-> <<1>>, SrcSusyID |-> src.susyID,
                 SrcSerialNumber |-> src.serialNumber, DstSusyID |-> dst.susyID,
                 DstSerialNumber |-> dst.serialNumber]

(* The fields of an encryption packet have their widths.                   *)
LEMMA SeedFieldsAre ==
  ASSUME NEW fields, NEW src, NEW dst, SeedFields(fields, src, dst)
  PROVE  EncryptionFieldValues(fields)
<1>1. /\ DOMAIN fields = EncryptionFields
      /\ fields["PacketType"] = <<1>> /\ fields["SrcSusyID"] = src.susyID
      /\ fields["SrcSerialNumber"] = src.serialNumber /\ fields["DstSusyID"] = dst.susyID
      /\ fields["DstSerialNumber"] = dst.serialNumber
  BY DEF SeedFields, EncryptionFields
<1>2. /\ src.susyID \in [1..2 -> Byte] /\ dst.susyID \in [1..2 -> Byte]
      /\ src.serialNumber \in [1..4 -> Byte] /\ dst.serialNumber \in [1..4 -> Byte]
  BY DEF SeedFields, Device, FourBytes
<1>3. /\ EncryptionField("PacketType")[2] = 1 /\ EncryptionField("SrcSusyID")[2] = 2
      /\ EncryptionField("SrcSerialNumber")[2] = 4 /\ EncryptionField("DstSusyID")[2] = 2
      /\ EncryptionField("DstSerialNumber")[2] = 4
  BY DEF EncryptionField
<1>4. <<1>> \in [1..1 -> Byte]
  <2>1. 1 \in Byte
    BY DEF Byte
  <2>2. PICK s : s = <<1>>
    OBVIOUS
  <2>3. s = [i \in 1..1 |-> s[i]] /\ s[1] = 1 /\ \A i \in 1..1 : i = 1
    BY <2>2
  <2>4. s \in [1..1 -> Byte]
    BY <2>1, <2>3
  <2> QED
    BY <2>2, <2>4
<1>5. ASSUME NEW f \in EncryptionFields PROVE fields[f] \in [1..EncryptionField(f)[2] -> Byte]
  <2>1. CASE f = "PacketType"
    BY <1>1, <1>3, <1>4, <2>1
  <2>2. CASE f \in {"SrcSusyID", "DstSusyID"}
    BY <1>1, <1>2, <1>3, <2>2
  <2>3. CASE f \in {"SrcSerialNumber", "DstSerialNumber"}
    BY <1>1, <1>2, <1>3, <2>3
  <2> QED
    BY <2>1, <2>2, <2>3 DEF EncryptionFields
<1> QED
  BY <1>1, <1>5 DEF EncryptionFieldValues

(* What the sender of an encryption packet leaves is a packet of its kind. *)
LEMMA SeedSent ==
  ASSUME NEW fields, NEW src, NEW dst, SeedFields(fields, src, dst), NEW seed \in Seq(Byte),
         NEW length, length = getDefaultHeaderTotalLength(2 + 13 + 16),
         NEW head, head = setDefaultHeader(Packet(NoBytes, length), Group1, 2 + 13 + 16,
                                           sma_encryption_protocol_id),
         NEW b, b = setString16(setEncryptionFields(head, Payload(Packet(head, length)).at, fields),
                                Payload(Packet(head, length)).at, 0, seed),
         NEW s, Told(s, "encryption", fields), s.parts = <<seed>>
  PROVE  length = 51 /\ EncryptionSent(b, s)
<1>1. length = 51
  <2>1. 31 \in Nat /\ 2 + 13 + 16 = 31 /\ 20 + 31 = 51
    OBVIOUS
  <2> QED
    BY <2>1, TotalLength
<1>2. EncryptionFieldValues(fields)
  BY SeedFieldsAre
<1>3. head = setDefaultHeader(Packet(NoBytes, length), Group1, 31, sma_encryption_protocol_id)
  OBVIOUS
<1>4. EncryptionPacket(b, fields, seed)
  BY <1>1, <1>2, <1>3, EncryptionSet
<1>5. s.parts[1] = seed /\ s.fields = fields
  BY DEF Told
<1>6. DOMAIN fields = EncryptionFields
  BY <1>2 DEF EncryptionFieldValues
<1> QED
  BY <1>1, <1>4, <1>5, <1>6 DEF EncryptionSent

(* The fields of an emeter packet have their widths.                       *)
LEMMA MeterFieldsAre ==
  ASSUME NEW src \in Device, NEW time \in FourBytes, NEW fields,
         fields = [SusyID |-> src.susyID, SerialNumber |-> src.serialNumber, Time |-> time]
  PROVE  EmeterFieldValues(fields)
<1>1. /\ DOMAIN fields = EmeterFields
      /\ fields["SusyID"] = src.susyID /\ fields["SerialNumber"] = src.serialNumber
      /\ fields["Time"] = time
  BY DEF EmeterFields
<1>2. /\ src.susyID \in [1..2 -> Byte] /\ src.serialNumber \in [1..4 -> Byte] /\ time \in [1..4 -> Byte]
  BY DEF Device, FourBytes
<1>3. /\ EmeterField("SusyID")[2] = 2 /\ EmeterField("SerialNumber")[2] = 4 /\ EmeterField("Time")[2] = 4
  BY DEF EmeterField
<1>4. ASSUME NEW f \in EmeterFields PROVE fields[f] \in [1..EmeterField(f)[2] -> Byte]
  <2>1. CASE f = "SusyID"
    BY <1>1, <1>2, <1>3, <2>1
  <2>2. CASE f = "SerialNumber"
    BY <1>1, <1>2, <1>3, <2>2
  <2>3. CASE f = "Time"
    BY <1>1, <1>2, <1>3, <2>3
  <2> QED
    BY <2>1, <2>2, <2>3 DEF EmeterFields
<1> QED
  BY <1>1, <1>4 DEF EmeterFieldValues

OwnBytes(protocol) == IF protocol = sma_extended_emeter_protocol_id THEN 4 ELSE 2
KindOf(protocol) == IF OwnBytes(protocol) = 4 THEN "extended_emeter" ELSE "emeter"

(* The protocols of meters and the kinds of their packets belong together. *)
LEMMA KindIs ==
  ASSUME NEW protocol \in MeterProtocols
  PROVE  /\ MeterProtocol(KindOf(protocol)) = protocol
         /\ OwnBytes(protocol) = PayloadAt(protocol) - 16
         /\ KindOf(protocol) \in Meters /\ PayloadAt(protocol) \in {18, 20}
<1>1. CASE protocol = sma_emeter_protocol_id
  <2>1. OwnBytes(protocol) = 2 /\ PayloadAt(protocol) = 18
    BY <1>1, MeterAt DEF OwnBytes
  <2>2. KindOf(protocol) = "emeter"
    BY <2>1 DEF KindOf
  <2> QED
    BY <1>1, <2>1, <2>2 DEF MeterProtocol, Meters
<1>2. CASE protocol = sma_extended_emeter_protocol_id
  <2>1. OwnBytes(protocol) = 4 /\ PayloadAt(protocol) = 20
    BY <1>2, MeterAt DEF OwnBytes
  <2>2. KindOf(protocol) = "extended_emeter"
    BY <2>1 DEF KindOf
  <2> QED
    BY <1>2, <2>1, <2>2 DEF MeterProtocol, Meters
<1> QED
  BY <1>1, <1>2 DEF MeterProtocols

(* An emeter packet that was begun is a packet of its kind, with no        *)
(* element yet.                                                            *)
LEMMA BegunSent ==
  ASSUME NEW protocol \in MeterProtocols, NEW room \in Rooms, NEW src \in Device, NEW time \in FourBytes,
         NEW length, length = getDefaultHeaderTotalLength(OwnBytes(protocol) + sma_first_obis_offset + room),
         NEW head, head = setDefaultHeader(Packet(NoBytes, length), Group1,
                                           OwnBytes(protocol) + sma_first_obis_offset + room, protocol),
         NEW fields, fields = [SusyID |-> src.susyID, SerialNumber |-> src.serialNumber, Time |-> time],
         NEW b, b = setEmeterFields(head, Payload(Packet(head, length)).at, fields),
         NEW goes, goes = getFirstObisElement(Payload(Packet(head, length))),
         NEW s, Told(s, KindOf(protocol), fields), s.parts = <<>>
  PROVE  /\ length \in 20..BufferSize /\ goes \in 0..length
         /\ MeterSent(b, s, length - 20, goes)
<1>1. PICK at \in {18, 20} : at = PayloadAt(protocol) /\ OwnBytes(protocol) = at - 16
  BY KindIs
<1>2. room \in Nat /\ 34 + room <= BufferSize /\ BufferSize \in Nat
  BY PacketsAssumption, BufferIs
<1>3. PICK l \in Nat : l = OwnBytes(protocol) + sma_first_obis_offset + room /\ l = (at - 16) + 10 + room
  BY <1>1, <1>2 DEF sma_first_obis_offset
<1>4. length = 20 + l /\ l >= (at - 16) + 10 /\ 20 + l <= BufferSize /\ length - 20 = l
  <2>1. length = 20 + l
    BY <1>3, TotalLength
  <2> QED
    BY <1>2, <1>3, <2>1
<1>5. EmeterFieldValues(fields)
  BY MeterFieldsAre
<1>6. head = setDefaultHeader(Packet(NoBytes, length), Group1, l, protocol)
  BY <1>3
<1>7. /\ MeterPacket(b, l, protocol, fields)
      /\ \A o \in (PayloadAt(protocol) + 10)..(15 + l) : b[o] = 0
      /\ getFirstObisElement(Payload(Packet(head, length))) = PayloadAt(protocol) + 10
  BY <1>1, <1>4, <1>5, <1>6, MeterBegun
<1>8. goes = at + 10 /\ \A o \in (at + 10)..((16 + l) - 1) : b[o] = 0
  BY <1>1, <1>7
<1>9. s.kind = KindOf(protocol) /\ s.fields = fields /\ s.parts = <<>> /\ Len(s.parts) = 0
  BY DEF Told
<1>10. MeterProtocol(s.kind) = protocol
  BY <1>9, KindIs
<1>11. PICK pos : pos = [i \in 1..1 |-> at + 10]
  OBVIOUS
<1>12. pos \in [1..(Len(s.parts) + 1) -> Nat] /\ pos[1] = at + 10 /\ pos[Len(s.parts) + 1] = at + 10
  BY <1>9, <1>11
<1>13. Layout(b, s.parts, pos, at + 10, 16 + l)
  <2>1. at + 10 <= 16 + l /\ at + 10 \in Nat
    BY <1>4
  <2>2. \A i \in 1..Len(s.parts) : FALSE
    BY <1>9
  <2>3. \A i \in 1..(Len(s.parts) + 1) : i = 1
    BY <1>9
  <2> QED
    BY <1>8, <1>12, <2>1, <2>2, <2>3 DEF Layout
<1>14. DOMAIN fields = EmeterFields
  BY <1>5 DEF EmeterFieldValues
<1>15. s.parts \in Seq(Elements)
  BY <1>9
<1>16. MeterSent(b, s, l, goes)
  BY <1>1, <1>4, <1>7, <1>8, <1>9, <1>10, <1>12, <1>13, <1>14, <1>15 DEF MeterSent
<1>17. length \in 20..BufferSize /\ goes \in 0..length
  <2>1. at + 10 \in 0..(20 + l)
    BY <1>4
  <2> QED
    BY <1>2, <1>4, <1>8, <2>1
<1> QED
  BY <1>4, <1>16, <1>17

(* What t tells beyond s is one more element.                              *)
OneMore(t, s, e) == t.kind = s.kind /\ t.fields = s.fields /\ t.parts = Append(s.parts, e)

(* One more part behind the others.                                        *)
LEMMA OneMoreIs ==
  ASSUME NEW S, NEW parts \in Seq(S), NEW e \in S, NEW more, more = Append(parts, e),
         NEW k, k = Len(parts)
  PROVE  /\ more \in Seq(S) /\ Len(more) = k + 1 /\ k \in Nat /\ more[k + 1] = e
         /\ \A i \in 1..k : more[i] = parts[i]
OBVIOUS

(* An element stays while its bytes do.                                    *)
LEMMA ElementStays ==
  ASSUME NEW e, ObisElement(e), NEW b, NEW c, NEW at \in Nat, ElementAt(b, at, e),
         SameBytes(b, c, at, ElementLength(e))
  PROVE  ElementAt(c, at, e)
<1>1. ElementLength(e) \in {8, 11, 12} /\ Len(e.value) \in {4, 8} /\ 4 + Len(e.value) <= ElementLength(e)
  BY ElementIs
<1>2. PICK w \in Nat, k \in Nat : w = ElementLength(e) /\ k = Len(e.value) /\ 4 + k <= w
  BY <1>1
<1>3. \A o \in at..((at + w) - 1) : c[o] = b[o]
  BY <1>2 DEF SameBytes
<1>4. c[at] = b[at] /\ c[at + 2] = b[at + 2]
  <2>1. at \in at..((at + w) - 1) /\ at + 2 \in at..((at + w) - 1)
    BY <1>2
  <2> QED
    BY <1>3, <2>1
<1>5. ASSUME NEW i \in 1..k PROVE c[(at + 3) + i] = b[(at + 3) + i]
  <2>1. (at + 3) + i \in at..((at + w) - 1)
    BY <1>2
  <2> QED
    BY <1>3, <2>1
<1> QED
  BY <1>2, <1>4, <1>5 DEF ElementAt

(* Two areas that differ only in w bytes from o on.                        *)
OutsideSame(b, c, o, w) == \A a \in 0..(BufferSize - 1) : (a < o \/ a >= o + w) => c[a] = b[a]

(* The element that fits is put behind the others, into the zeros.         *)
Grows(b, c, parts, more, pos, new, k, e, o, first, end) ==
    /\ b \in Area(BufferSize) /\ c \in Area(BufferSize) /\ parts \in Seq(Elements) /\ k = Len(parts)
    /\ pos \in [1..(k + 1) -> Nat] /\ first \in Nat /\ end \in Nat /\ end <= BufferSize
    /\ Layout(b, parts, pos, first, end)
    /\ e \in Elements /\ o = pos[k + 1] /\ o + ElementLength(e) <= end
    /\ ElementAt(c, o, e) /\ OutsideSame(b, c, o, ElementLength(e))
    /\ more = Append(parts, e)
    /\ new = [i \in 1..(k + 2) |-> IF i = k + 2 THEN o + ElementLength(e) ELSE pos[i]]

(* One more element behind the others.                                     *)
LEMMA LayoutMore ==
  ASSUME NEW b, NEW c, NEW parts, NEW more, NEW pos, NEW new, NEW k, NEW e, NEW o, NEW first, NEW end,
         Grows(b, c, parts, more, pos, new, k, e, o, first, end)
  PROVE  /\ new \in [1..(k + 2) -> Nat] /\ new[k + 2] = o + ElementLength(e)
         /\ Layout(c, more, new, first, end)
<1> USE DEF Grows
<1>1. more \in Seq(Elements) /\ Len(more) = k + 1 /\ k \in Nat /\ more[k + 1] = e
      /\ \A i \in 1..k : more[i] = parts[i]
  BY OneMoreIs
<1>2. \A x \in Elements : ObisElement(x)
  BY PacketsAssumption
<1>14. ASSUME NEW x \in Elements PROVE ObisElement(x) /\ ElementLength(x) \in Nat
  <2>1. ObisElement(x)
    BY <1>2
  <2>2. ElementLength(x) \in {8, 11, 12}
    BY <2>1, ElementIs
  <2> QED
    BY <2>1, <2>2
<1>3. PICK w \in Nat : w = ElementLength(e) /\ w \in {8, 11, 12}
  BY <1>2, ElementIs
<1>4. BufferSize \in Nat
  BY BufferIs
<1>5. o \in Nat /\ k + 1 \in 1..(k + 1)
  BY <1>1
<1>6. /\ pos[1] = first
      /\ \A i \in 1..k : /\ pos[i + 1] = pos[i] + ElementLength(parts[i]) /\ ElementAt(b, pos[i], parts[i])
      /\ \A i \in 1..(k + 1) : first <= pos[i] /\ pos[i] <= o
      /\ o <= end
      /\ \A a \in o..(end - 1) : b[a] = 0
  BY DEF Layout
<1>7. new \in [1..(k + 2) -> Nat]
  BY <1>1, <1>3, <1>5
<1>8. new[k + 2] = o + w /\ \A i \in 1..(k + 1) : new[i] = pos[i]
  BY <1>1, <1>3
<1>9. new[1] = first
  BY <1>1, <1>6, <1>8
<1>10. ASSUME NEW i \in 1..(k + 1)
       PROVE  new[i + 1] = new[i] + ElementLength(more[i]) /\ ElementAt(c, new[i], more[i])
  <2>1. CASE i = k + 1
    <3>1. (k + 1) + 1 = k + 2 /\ new[k + 1] = o /\ more[i] = e
      BY <1>1, <1>5, <1>8, <2>1
    <3> QED
      BY <1>3, <1>8, <2>1, <3>1
  <2>2. CASE i # k + 1
    <3>1. i \in 1..k /\ i + 1 \in 1..(k + 1) /\ i \in 1..(k + 1)
      BY <1>1, <2>2
    <3>2. more[i] = parts[i] /\ new[i] = pos[i] /\ new[i + 1] = pos[i + 1] /\ parts[i] \in Elements
      BY <1>1, <1>8, <3>1, ElementTyped
    <3>7. ElementLength(parts[i]) \in Nat /\ ObisElement(parts[i])
      BY <1>14, <3>2
    <3>8. PICK at \in Nat : at = pos[i]
      BY <3>1
    <3>9. PICK v \in Nat : v = ElementLength(parts[i])
      BY <3>7
    <3>10. PICK x : x = parts[i]
      OBVIOUS
    <3>3. x = parts[i] /\ at = pos[i] /\ v = ElementLength(x) /\ ObisElement(x)
      BY <3>7, <3>8, <3>9, <3>10
    <3>4. pos[i + 1] = at + v /\ ElementAt(b, at, x) /\ at + v <= o
      BY <1>6, <3>1, <3>3
    <3>5. SameBytes(b, c, at, v)
      <4>1. ASSUME NEW a \in at..((at + v) - 1) PROVE c[a] = b[a]
        <5>1. a \in 0..(BufferSize - 1) /\ a < o
          BY SMTT(30), <1>3, <1>4, <1>5, <3>4
        <5> QED
          BY <5>1 DEF OutsideSame
      <4> QED
        BY <4>1 DEF SameBytes
    <3>6. ElementAt(c, at, x)
      BY <3>3, <3>4, <3>5, ElementStays
    <3> QED
      BY <3>2, <3>3, <3>4, <3>6
  <2> QED
    BY <2>1, <2>2
<1>11. ASSUME NEW i \in 1..(k + 2)
       PROVE  first <= new[i] /\ new[i] <= o + w
  <2>1. CASE i = k + 2
    <3>1. first <= o
      BY <1>5, <1>6
    <3> QED
      BY <1>3, <1>5, <1>8, <2>1, <3>1
  <2>2. CASE i # k + 2
    <3>1. i \in 1..(k + 1)
      BY <1>1, <2>2
    <3>2. first <= pos[i] /\ pos[i] <= o /\ pos[i] \in Nat /\ new[i] = pos[i]
      BY <1>6, <1>8, <3>1
    <3> QED
      BY <1>3, <1>5, <3>2
  <2> QED
    BY <2>1, <2>2
<1>12. ASSUME NEW a \in (o + w)..(end - 1) PROVE c[a] = 0
  <2>1. a \in 0..(BufferSize - 1) /\ a >= o + w /\ a \in o..(end - 1)
    BY <1>3, <1>4, <1>5
  <2> QED
    BY <1>3, <1>6, <2>1 DEF OutsideSame
<1>13. Layout(c, more, new, first, end)
  <2>1. Len(more) + 1 = k + 2
    BY <1>1
  <2>2. o + w <= end
    BY <1>3
  <2> QED
    <3>1. \A i \in 1..Len(more) : /\ new[i + 1] = new[i] + ElementLength(more[i])
                                  /\ ElementAt(c, new[i], more[i])
      BY <1>1, <1>10
    <3>2. \A i \in 1..(Len(more) + 1) : first <= new[i] /\ new[i] <= new[Len(more) + 1]
      BY <1>8, <1>11, <2>1
    <3>3. new[Len(more) + 1] <= end /\ \A a \in new[Len(more) + 1]..(end - 1) : c[a] = 0
      BY <1>8, <1>12, <2>1, <2>2
    <3> QED
      BY <1>9, <3>1, <3>2, <3>3 DEF Layout
<1> QED
  BY <1>3, <1>7, <1>8, <1>13

(* Writing elements leaves the header of an emeter packet alone.           *)
LEMMA MeterStays ==
  ASSUME NEW b, NEW l \in Nat, 20 + l <= BufferSize, NEW protocol, NEW fields,
         DOMAIN fields = EmeterFields, MeterPacket(b, l, protocol, fields),
         NEW at \in {18, 20}, at = PayloadAt(protocol),
         NEW c \in Area(BufferSize), NEW o \in Nat, NEW w \in Nat, at + 10 <= o, o + w <= 16 + l,
         OutsideSame(b, c, o, w)
  PROVE  MeterPacket(c, l, protocol, fields)
<1>1. BufferSize \in Nat
  BY BufferIs
<1>2. HeadSame(b, c, l)
  <2>1. \A a \in 0..17 : a \in 0..(BufferSize - 1) /\ a < o
    BY <1>1
  <2>2. \A a \in (16 + l)..(19 + l) : a \in 0..(BufferSize - 1) /\ a >= o + w
    BY <1>1
  <2> QED
    BY <2>1, <2>2 DEF HeadSame, OutsideSame
<1>3. Headed(b, l, protocol)
  BY DEF MeterPacket
<1>4. Headed(c, l, protocol)
  BY <1>2, <1>3, HeadedSame
<1>5. ASSUME NEW f \in DOMAIN fields
      PROVE  getBigEndian(c, at + EmeterField(f)[1], EmeterField(f)[2]) = fields[f]
  <2>1. EmeterField(f)[1] \in Nat /\ EmeterField(f)[2] \in {2, 4} /\ EmeterField(f)[1] + EmeterField(f)[2] <= 10
    BY EmeterPlaces
  <2>2. PICK x \in Nat, v \in Nat : x = EmeterField(f)[1] /\ v = EmeterField(f)[2] /\ x + v <= 10
    BY <2>1
  <2>3. PICK y \in Nat : y = at + x
    OBVIOUS
  <2>4. \A a \in y..((y + v) - 1) : a \in 0..(BufferSize - 1) /\ a < o
    BY <1>1, <2>2, <2>3
  <2>5. SameBytes(b, c, y, v)
    BY <2>4 DEF SameBytes, OutsideSame
  <2>6. getBigEndian(c, y, v) = getBigEndian(b, y, v)
    BY <2>5, ReadBigStays
  <2>7. getBigEndian(b, y, v) = fields[f]
    BY <2>2, <2>3 DEF MeterPacket
  <2> QED
    BY <2>2, <2>3, <2>6, <2>7
<1> QED
  BY <1>4, <1>5 DEF MeterPacket

(* setObisElement lays the element behind the others if it fits, and does  *)
(* nothing otherwise.                                                      *)
LEMMA AddedSent ==
  ASSUME NEW b, NEW l \in Nat, 20 + l <= BufferSize, NEW s, s.kind \in Meters,
         NEW goes, goes # NULL, MeterSent(b, s, l, goes),
         NEW e \in Elements, NEW q, q = Payload(Packet(b, 20 + l)),
         NEW bytes, bytes = toByteArray(e), NEW length, length = ObisBytesLength(bytes),
         NEW r, r = setObisElement(q, goes, bytes), NEW t, OneMore(t, s, e)
  PROVE  /\ ObisFits(q, goes, length) => goes + length \in 0..(20 + l) /\ MeterSent(r, t, l, goes + length)
         /\ ~ObisFits(q, goes, length) => r = b /\ MeterSent(b, s, l, NULL)
<1>1. BufferSize \in Nat
  BY BufferIs
<1>2. PICK protocol \in MeterProtocols, at \in {18, 20} :
         protocol = MeterProtocol(s.kind) /\ at = PayloadAt(protocol)
  <2>1. MeterProtocol(s.kind) \in MeterProtocols
    BY DEF MeterProtocol, MeterProtocols
  <2> QED
    BY <2>1, KindIs
<1>3. /\ l >= (at - 16) + 10
      /\ DOMAIN s.fields = EmeterFields /\ MeterPacket(b, l, protocol, s.fields)
      /\ s.parts \in Seq(Elements)
  BY <1>2 DEF MeterSent
<1>4. PICK k : k = Len(s.parts)
  OBVIOUS
<1>5. PICK pos \in [1..(k + 1) -> Nat] :
         Layout(b, s.parts, pos, at + 10, 16 + l) /\ goes \in {NULL, pos[k + 1]}
  BY <1>2, <1>4 DEF MeterSent
<1>6. goes = pos[k + 1] /\ goes \in Nat /\ k \in Nat /\ at + 10 <= goes /\ goes <= 16 + l
  <2>1. k \in Nat /\ k + 1 \in 1..(k + 1)
    BY <1>3, <1>4
  <2>2. goes = pos[k + 1]
    BY <1>5
  <2>3. at + 10 <= pos[k + 1] /\ pos[k + 1] <= 16 + l
    BY <1>4, <1>5, <2>1 DEF Layout
  <2> QED
    BY <1>5, <2>1, <2>2, <2>3
<1>7. b \in Area(BufferSize) /\ Headed(b, l, protocol)
  BY <1>3 DEF MeterPacket
<1>8. q.udp = b /\ q.at = at /\ q.size = (16 + l) - at
  <2>1. l >= 4 /\ 20 + l \in (20 + l)..BufferSize
    BY <1>1, <1>3
  <2> QED
    BY <1>1, <1>2, <1>7, <2>1, Data2PayloadIs
<1>9. ObisElement(e)
  BY PacketsAssumption
<1>10. PICK w \in Nat : w = ElementLength(e) /\ w = length
  <2>1. ElementLength(e) \in {8, 11, 12}
    BY <1>9, ElementIs
  <2>2. length = ElementLength(e)
    BY <1>9, ElementBytes
  <2> QED
    BY <2>1, <2>2
<1>11. ObisFits(q, goes, length) <=> goes + w <= 16 + l
  <2>1. ObisFits(q, goes, length) <=> (goes + w) - at <= (16 + l) - at
    BY <1>8, <1>10 DEF ObisFits
  <2>2. goes \in Int /\ at \in Int
    BY <1>6
  <2>3. (goes + w) - at <= (16 + l) - at <=> goes + w <= 16 + l
    BY <2>2
  <2> QED
    BY <2>1, <2>3
<1>12. ASSUME ~ObisFits(q, goes, length) PROVE r = b /\ MeterSent(b, s, l, NULL)
  <2>1. r = b
    BY <1>8, <1>12 DEF setObisElement
  <2>2. MeterSent(b, s, l, NULL)
    BY <1>2, <1>3, <1>4, <1>5 DEF MeterSent
  <2> QED
    BY <2>1, <2>2
<1>13. ASSUME ObisFits(q, goes, length)
       PROVE  goes + length \in 0..(20 + l) /\ MeterSent(r, t, l, goes + length)
  <2>1. goes + w <= 16 + l
    BY <1>11, <1>13
  <2>2. r = WriteBytes(b, goes, SubSeq(bytes, 1, ObisBytesLength(bytes)))
    BY <1>8, <1>13 DEF setObisElement
  <2>3. goes + ElementLength(e) <= BufferSize
    BY <1>1, <1>6, <1>10, <2>1
  <2>4. /\ r \in Area(BufferSize) /\ ElementAt(r, goes, e)
        /\ \A a \in 0..(BufferSize - 1) : (a < goes \/ a >= goes + ElementLength(e)) => r[a] = b[a]
    BY <1>1, <1>6, <1>7, <1>9, <2>2, <2>3, ElementWritten
  <2>16. OutsideSame(b, r, goes, w) /\ OutsideSame(b, r, goes, ElementLength(e))
    BY <1>10, <2>4 DEF OutsideSame
  <2>5. MeterPacket(r, l, protocol, s.fields)
    <3>4. PICK o \in Nat : o = goes
      BY <1>6
    <3>5. PICK fields : fields = s.fields
      OBVIOUS
    <3>1. fields = s.fields /\ o = goes
      BY <3>4, <3>5
    <3>2. /\ DOMAIN fields = EmeterFields /\ MeterPacket(b, l, protocol, fields)
          /\ r \in Area(BufferSize) /\ at + 10 <= o /\ o + w <= 16 + l /\ OutsideSame(b, r, o, w)
          /\ at = PayloadAt(protocol)
      BY <1>2, <1>3, <1>6, <2>1, <2>4, <2>16, <3>1
    <3>3. MeterPacket(r, l, protocol, fields)
      BY <3>2, MeterStays
    <3> QED
      BY <3>1, <3>3
  <2>6. PICK more : more = Append(s.parts, e)
    OBVIOUS
  <2>7. more \in Seq(Elements) /\ Len(more) = k + 1
    BY <1>3, <1>4, <2>6, OneMoreIs
  <2>8. PICK new : new = [i \in 1..(k + 2) |-> IF i = k + 2 THEN goes + ElementLength(e) ELSE pos[i]]
    OBVIOUS
  <2>9. /\ new \in [1..(k + 2) -> Nat] /\ new[k + 2] = goes + ElementLength(e)
        /\ Layout(r, more, new, at + 10, 16 + l)
    <3>1. PICK first \in Nat, end \in Nat : first = at + 10 /\ end = 16 + l /\ end <= BufferSize
      BY <1>1
    <3>2. Layout(b, s.parts, pos, first, end) /\ goes + ElementLength(e) <= end
      BY <1>5, <1>10, <2>1, <3>1
    <3>3. /\ new \in [1..(k + 2) -> Nat] /\ new[k + 2] = goes + ElementLength(e)
          /\ Layout(r, more, new, first, end)
      <4>1. PICK parts \in Seq(Elements) : parts = s.parts /\ k = Len(parts)
        BY <1>3, <1>4
      <4>2. PICK o : o = goes /\ o = pos[k + 1]
        BY <1>6
      <4>3. b \in Area(BufferSize) /\ r \in Area(BufferSize) /\ pos \in [1..(k + 1) -> Nat]
        BY <1>5, <1>7, <2>4
      <4>4. Grows(b, r, parts, more, pos, new, k, e, o, first, end)
        BY <2>4, <2>6, <2>8, <2>16, <3>1, <3>2, <4>1, <4>2, <4>3 DEF Grows
      <4>5. /\ new \in [1..(k + 2) -> Nat] /\ new[k + 2] = o + ElementLength(e)
            /\ Layout(r, more, new, first, end)
        BY <4>4, LayoutMore
      <4> QED
        BY <4>2, <4>5
    <3> QED
      BY <3>1, <3>3
  <2>10. t.kind = s.kind /\ t.fields = s.fields /\ t.parts = more
    BY <2>6 DEF OneMore
  <2>11. PICK n : n = Len(t.parts)
    OBVIOUS
  <2>12. n + 1 = k + 2
    BY <1>6, <2>7, <2>10, <2>11
  <2>13. \E p \in [1..(n + 1) -> Nat] :
            Layout(r, t.parts, p, at + 10, 16 + l) /\ goes + length \in {NULL, p[n + 1]}
    BY <1>10, <2>9, <2>10, <2>12
  <2>14. MeterSent(r, t, l, goes + length)
    BY <1>2, <1>3, <2>5, <2>7, <2>10, <2>11, <2>13 DEF MeterSent
  <2>15. goes + length \in 0..(20 + l)
    BY <1>6, <1>10, <2>1
  <2> QED
    BY <2>14, <2>15
<1> QED
  BY <1>12, <1>13

KindsSent == {"encryption", "datagram"} \cup Requests \cup Replies \cup Meters \cup Discovery

(* Which kinds there are, and that they differ.                            *)
LEMMA KindsApart ==
  /\ "query" \in Requests /\ "login" \in Requests /\ "logoff" \in Requests
  /\ "unicast_request" \in Requests /\ "reply" \in Replies /\ "unicast_response" \in Replies
  /\ \A kind \in Requests \cup Replies : /\ kind # "encryption" /\ kind # "datagram" /\ kind \notin Meters
                                         /\ kind # "multicast_request" /\ kind # "multicast_response"
  /\ \A kind \in Meters : /\ kind # "encryption" /\ kind # "datagram" /\ kind \notin Requests \cup Replies
                          /\ kind # "multicast_request" /\ kind # "multicast_response"
  /\ \A kind \in {"encryption", "multicast_request", "multicast_response", "datagram"} :
        kind \notin Meters /\ kind \notin Requests \cup Replies
  /\ {"encryption", "multicast_request", "multicast_response", "datagram"} \subseteq KindsSent
  /\ Requests \cup Replies \subseteq KindsSent /\ Meters \subseteq KindsSent
  /\ "none" \notin KindsSent
  BY DEF Requests, Replies, Meters, Discovery, KindsSent

(* The type invariant, without the names that the proofs hide.             *)
LEMMA TypeOf ==
  PacketsTypeOK <=> /\ udp \in Area(BufferSize) /\ rx \in Area(BufferSize)
                    /\ size \in 0..BufferSize /\ nbytes \in 0..size
                    /\ next \in {NULL} \cup 0..size
                    /\ sent.kind \in {"none"} \cup KindsSent
                    /\ stage \in {"start", "filling", "sent", "received"}
<1>1. {"none"} \cup KindsSent = {"none", "encryption", "datagram"} \cup Requests \cup Replies \cup Meters \cup Discovery
  BY DEF KindsSent
<1> QED
  BY <1>1 DEF PacketsTypeOK, Area

(* A packet that is what its sender describes keeps the invariant.         *)
LEMMA SendStep ==
  ASSUME PacketsInv, stage = "start",
         NEW kind \in KindsSent, NEW b \in Area(BufferSize), NEW length \in 0..BufferSize,
         NEW fields, NEW parts, Send(kind, b, length, fields, parts),
         NEW g, g = [kind |-> kind, fields |-> fields, parts |-> parts],
         SentPacket(b, g, length, NULL)
  PROVE  PacketsInv'
<1>1. /\ udp' = b /\ size' = length /\ sent' = g /\ stage' = "sent"
      /\ next' = next /\ rx' = rx /\ nbytes' = nbytes
  BY DEF Send
<1>2. next = NULL /\ nbytes = 0 /\ rx \in Area(BufferSize)
  BY TypeOf DEF PacketsInv
<1>3. g.kind = kind /\ kind # "none"
  BY KindsApart
<1>4. (/\ udp \in Area(BufferSize) /\ rx \in Area(BufferSize)
       /\ size \in 0..BufferSize /\ nbytes \in 0..size
       /\ next \in {NULL} \cup 0..size
       /\ sent.kind \in {"none"} \cup KindsSent
       /\ stage \in {"start", "filling", "sent", "received"})'
  BY <1>1, <1>2, <1>3
<1>5. PacketsTypeOK'
  BY <1>4, TypeOf, PTL
<1>6. SentPacket(udp', sent', size', next')
  BY <1>1, <1>2
<1>7. sent'.kind # "none" /\ nbytes' = 0
  BY <1>1, <1>2, <1>3
<1>8. DOMAIN sent' = {"kind", "fields", "parts"}
  BY <1>1
<1> QED
  BY <1>1, <1>5, <1>6, <1>7, <1>8 DEF PacketsInv

(* The same, for the inverter protocol.                                    *)
LEMMA InverterStep ==
  ASSUME PacketsInv, stage = "start",
         NEW kind \in Requests \cup Replies, NEW b, NEW l \in Nat, NEW length, length = 20 + l,
         length <= BufferSize, NEW fields, NEW parts, Send(kind, b, length, fields, parts),
         NEW g, g = [kind |-> kind, fields |-> fields, parts |-> parts],
         InverterSent(b, g, l)
  PROVE  PacketsInv'
<1>1. b \in Area(BufferSize)
  BY DEF InverterSent, InverterPacket
<1>2. length \in 0..BufferSize /\ length - 20 = l
  BY BufferIs
<1>3. g.kind = kind
  OBVIOUS
<1>4. kind \in KindsSent /\ SentPacket(b, g, length, NULL)
  BY <1>2, <1>3, KindsApart DEF SentPacket
<1> QED
  BY <1>1, <1>2, <1>4, SendStep

(* SendMulticastRequest keeps the invariant.                               *)
LEMMA MulticastRequestStep ==
  ASSUME PacketsInv, SendMulticastRequest
  PROVE  PacketsInv'
<1>1. PICK b : b = setMulticastRequestPacket(udp)
  OBVIOUS
<1>2. stage = "start" /\ Send("multicast_request", b, Len(multicast_request), <<>>, <<>>)
  BY <1>1 DEF SendMulticastRequest
<1>3. PICK before \in Area(BufferSize) : before = udp
  BY TypeOf DEF PacketsInv
<1>4. DiscoveryRequest(BufferSize, b) /\ Len(multicast_request) = 20 /\ b \in Area(BufferSize)
  <2>1. BufferSize \in Nat /\ BufferSize >= 20
    BY BufferIs
  <2>2. DiscoveryRequest(BufferSize, setMulticastRequestPacket(before)) /\ Len(multicast_request) = 20
    BY <2>1, RequestWritten
  <2> QED
    BY <1>1, <1>3, <2>2 DEF DiscoveryRequest
<1>10. PICK kind, none : kind = "multicast_request" /\ none = <<>>
  OBVIOUS
<1>5. PICK length \in 0..BufferSize : length = 20
  BY BufferIs
<1>6. PICK g : g = [kind |-> kind, fields |-> none, parts |-> none]
  OBVIOUS
<1>7. g.kind = kind
  BY <1>6
<1>8. SentPacket(b, g, length, NULL) /\ kind \in KindsSent
  BY <1>4, <1>5, <1>7, <1>10, KindsApart DEF SentPacket
<1>9. Send(kind, b, length, none, none)
  BY <1>2, <1>4, <1>5, <1>10
<1> QED
  BY <1>2, <1>4, <1>6, <1>8, <1>9, SendStep

(* SendDatagram keeps the invariant, which says nothing of what is in it.  *)
LEMMA DatagramStep ==
  ASSUME PacketsInv, NEW d \in Datagrams, SendDatagram(d)
  PROVE  PacketsInv'
<1>1. d \in Seq(Byte) /\ Len(d) <= BufferSize /\ BufferSize \in Nat
  BY PacketsAssumption
<1>2. PICK before \in Area(BufferSize) : before = udp
  BY TypeOf DEF PacketsInv
<1>3. PICK b : b = WriteBytes(before, 0, d)
  OBVIOUS
<1>4. b \in Area(BufferSize)
  <2>1. PICK at \in Nat : at = 0
    OBVIOUS
  <2> QED
    BY <1>1, <1>3, <2>1, WriteTyped
<1>5. PICK length \in 0..BufferSize : length = Len(d)
  BY <1>1
<1>6. PICK kind, none : kind = "datagram" /\ none = <<>>
  OBVIOUS
<1>7. stage = "start" /\ Send(kind, b, length, none, none)
  BY <1>2, <1>3, <1>5, <1>6 DEF SendDatagram
<1>8. PICK g : g = [kind |-> kind, fields |-> none, parts |-> none]
  OBVIOUS
<1>9. g.kind = kind
  BY <1>8
<1>10. SentPacket(b, g, length, NULL) /\ kind \in KindsSent
  BY <1>6, <1>9, KindsApart DEF SentPacket
<1> QED
  BY <1>4, <1>7, <1>8, <1>10, SendStep

(* SendMulticastResponse keeps the invariant.                              *)
LEMMA MulticastResponseStep ==
  ASSUME PacketsInv, NEW ip \in Ips, SendMulticastResponse(ip)
  PROVE  PacketsInv'
<1>1. PICK b : b = setDefaultResponsePacket(udp, Group1, ip)
  OBVIOUS
<1>2. stage = "start" /\ Send("multicast_response", b, getDefaultResponsePacketLength, [ip |-> ip], <<>>)
  BY <1>1 DEF SendMulticastResponse
<1>3. PICK before \in Area(BufferSize) : before = udp
  BY TypeOf DEF PacketsInv
<1>4. DiscoveryResponse(BufferSize, b, ip) /\ b \in Area(BufferSize)
  <2>1. BufferSize \in Nat /\ BufferSize >= 57
    BY BufferIs
  <2>2. ip \in FourBytes
    BY PacketsAssumption
  <2>3. DiscoveryResponse(BufferSize, setDefaultResponsePacket(before, Group1, ip), ip)
    BY <2>1, <2>2, ResponseWritten
  <2> QED
    BY <1>1, <1>3, <2>3 DEF DiscoveryResponse
<1>5. PICK kind : kind = "multicast_response"
  OBVIOUS
<1>6. PICK none : none = <<>>
  OBVIOUS
<1>7. PICK length \in 0..BufferSize : length = 57
  BY BufferIs
<1>8. PICK fields : fields = [ip |-> ip]
  OBVIOUS
<1>9. PICK g : g = [kind |-> kind, fields |-> fields, parts |-> none]
  OBVIOUS
<1>10. g.kind = kind /\ g.fields["ip"] = ip
  BY <1>8, <1>9
<1>11. SentPacket(b, g, length, NULL) /\ kind \in KindsSent
  BY <1>4, <1>5, <1>7, <1>10, KindsApart DEF SentPacket
<1>12. Send(kind, b, length, fields, none)
  BY <1>2, <1>5, <1>6, <1>7, <1>8, ResponseLength
<1> QED
  BY <1>2, <1>4, <1>9, <1>11, <1>12, SendStep

(* SendUnicastRequest keeps the invariant.                                 *)
LEMMA UnicastRequestStep ==
  ASSUME PacketsInv, NEW local \in Addresses, NEW id \in PacketIDs, SendUnicastRequest(local, id)
  PROVE  PacketsInv'
<1>1. PICK r : r = getUnicastRequest(udp, local, id)
  OBVIOUS
<1>2. PICK fields :
         fields = [SrcSusyID |-> local.susyID, SrcSerialNumber |-> local.serialNumber, PacketID |-> id,
                   DstSusyID |-> <<255, 255>>, CommandID |-> <<0, 0, 2, 0>>]
  OBVIOUS
<1>3. PICK none : none = <<>>
  OBVIOUS
<1>4. stage = "start" /\ Send("unicast_request", r, Len(unicast_request), fields, none)
  BY <1>1, <1>2, <1>3 DEF SendUnicastRequest
<1>5. UnicastFields(fields, local, id)
  BY <1>2, DeviceIs DEF UnicastFields
<1>6. PICK before \in Area(BufferSize) : before = udp
  BY TypeOf DEF PacketsInv
<1>7. PICK kind : kind = "unicast_request"
  OBVIOUS
<1>8. PICK g : g = [kind |-> kind, fields |-> fields, parts |-> none]
  OBVIOUS
<1>9. Told(g, "unicast_request", fields)
  BY <1>7, <1>8 DEF Told
<1>10. r = getUnicastRequest(before, local, id)
  BY <1>1, <1>6
<1>11. InverterSent(r, g, 38) /\ Len(unicast_request) = 58
  BY <1>5, <1>9, <1>10, UnicastSent
<1>12. PICK l \in Nat, length \in Nat : l = 38 /\ length = 58 /\ length = 20 + l /\ length <= BufferSize
  BY BufferIs
<1>13. kind \in Requests \cup Replies
  BY <1>7, KindsApart
<1>14. InverterSent(r, g, l) /\ Send(kind, r, length, fields, none)
  BY <1>4, <1>7, <1>11, <1>12
<1> QED
  BY ZenonT(60), <1>4, <1>8, <1>12, <1>13, <1>14, InverterStep

(* The control words have two bytes.                                       *)
LEMMA SmallControls ==
  <<1, 0>> \in [1..2 -> Byte] /\ <<3, 0>> \in [1..2 -> Byte] /\ <<0, 1>> \in [1..2 -> Byte]
<1>1. 0 \in Byte /\ 1 \in Byte /\ 3 \in Byte
  BY DEF Byte
<1> QED
  BY <1>1, TwoBytes

(* SendQueryRequest keeps the invariant.                                   *)
LEMMA QueryStep ==
  ASSUME PacketsInv, NEW pair \in Pairs, NEW id \in PacketIDs,
         NEW command \in FourBytes, NEW first \in FourBytes, NEW last \in FourBytes, CommandOther(command),
         SendQueryRequest(pair[1], pair[2], id, command, first, last)
  PROVE  PacketsInv'
<1>1. PICK control, none : control = <<1, 0>> /\ none = <<>>
  OBVIOUS
<1>2. PICK fields : fields = Fields(pair[1], pair[2], control, id, command, first, last)
  OBVIOUS
<1>3. PICK dst, src : dst = pair[1] /\ src = pair[2]
  OBVIOUS
<1>4. FieldsOf(fields, dst, src, control, id, command, first, last)
  BY <1>1, <1>2, <1>3, DeviceIs, SmallControls DEF FieldsOf
<1>5. PICK b : b = setFields(InverterHeader(58), InverterAt(58), fields)
  OBVIOUS
<1>6. stage = "start" /\ Send("query", b, 58, fields, none)
  BY <1>1, <1>2, <1>5 DEF SendQueryRequest
<1>7. PICK kind : kind = "query"
  OBVIOUS
<1>8. PICK g : g = [kind |-> kind, fields |-> fields, parts |-> none]
  OBVIOUS
<1>9. Told(g, "query", fields) /\ SetBy(b, 58, fields)
  BY <1>5, <1>7, <1>8 DEF Told, SetBy
<1>10. InverterSent(b, g, 38)
  BY <1>4, <1>9, QuerySent
<1>11. PICK l \in Nat, length \in Nat : l = 38 /\ length = 58 /\ length = 20 + l /\ length <= BufferSize
  BY BufferIs
<1>12. kind \in Requests \cup Replies
  BY <1>7, KindsApart
<1>13. InverterSent(b, g, l) /\ Send(kind, b, length, fields, none)
  BY <1>6, <1>7, <1>10, <1>11
<1> QED
  BY <1>6, <1>8, <1>11, <1>12, <1>13, InverterStep

(* SendLogoffRequest keeps the invariant.                                  *)
LEMMA LogoffStep ==
  ASSUME PacketsInv, NEW from \in Addresses, NEW id \in PacketIDs, SendLogoffRequest(Broadcast, from, id)
  PROVE  PacketsInv'
<1>1. PICK control : control = <<3, 0>>
  OBVIOUS
<1>2. PICK command \in FourBytes, first \in FourBytes :
         command = <<255, 253, 1, 224>> /\ first = <<255, 255, 255, 255>>
  <2>1. 255 \in Byte /\ 253 \in Byte /\ 1 \in Byte /\ 224 \in Byte
    BY DEF Byte
  <2>2. <<255, 253, 1, 224>> \in FourBytes /\ <<255, 255, 255, 255>> \in FourBytes
    BY <2>1, FourOfThem
  <2> QED
    BY <2>2
<1>3. CommandOther(command)
  BY <1>2 DEF CommandOther
<1>4. PICK fields : fields = Fields(Broadcast, from, control, id, command, first, Zeros(4))
  OBVIOUS
<1>5. Zeros(4) \in FourBytes
  <2>1. PICK k \in Nat : k = 4
    OBVIOUS
  <2>2. Zeros(k) \in [1..k -> Byte]
    BY ZerosTyped
  <2> QED
    BY <2>1, <2>2 DEF FourBytes
<1>6. FieldsOf(fields, Broadcast, from, control, id, command, first, Zeros(4))
  BY <1>1, <1>4, <1>5, DeviceIs, SmallControls DEF FieldsOf
<1>7. PICK b : b = setFields(InverterHeader(54), InverterAt(54), fields)
  OBVIOUS
<1>8. PICK none : none = <<>>
  OBVIOUS
<1>9. stage = "start" /\ Send("logoff", b, 54, fields, none)
  BY <1>1, <1>2, <1>4, <1>7, <1>8 DEF SendLogoffRequest
<1>10. PICK kind : kind = "logoff"
  OBVIOUS
<1>11. PICK g : g = [kind |-> kind, fields |-> fields, parts |-> none]
  OBVIOUS
<1>12. Told(g, "logoff", fields) /\ SetBy(b, 54, fields)
  BY <1>7, <1>10, <1>11 DEF Told, SetBy
<1>13. InverterSent(b, g, 34)
  BY <1>3, <1>6, <1>12, LogoffSent
<1>14. PICK l \in Nat, length \in Nat : l = 34 /\ length = 54 /\ length = 20 + l /\ length <= BufferSize
  BY BufferIs
<1>15. kind \in Requests \cup Replies
  BY <1>10, KindsApart
<1>16. InverterSent(b, g, l) /\ Send(kind, b, length, fields, none)
  BY <1>9, <1>10, <1>13, <1>14
<1> QED
  BY <1>9, <1>11, <1>14, <1>15, <1>16, InverterStep

(* SendLoginRequest keeps the invariant.                                   *)
LEMMA LoginStep ==
  ASSUME PacketsInv, NEW local \in Addresses, NEW id \in PacketIDs, NEW user \in {USER, INSTALLER},
         NEW password \in Passwords, NEW now \in FourBytes,
         SendLoginRequest(Broadcast, local, id, user, password, now)
  PROVE  PacketsInv'
<1>1. PICK control, command, last :
         control = <<1, 0>> /\ command = <<255, 253, 4, 12>> /\ last = <<0, 0, 3, 132>>
  OBVIOUS
<1>2. CommandOther(command) /\ command \in FourBytes /\ last \in FourBytes /\ user \in FourBytes
  <2>1. /\ 255 \in Byte /\ 253 \in Byte /\ 4 \in Byte /\ 12 \in Byte /\ 0 \in Byte /\ 3 \in Byte
        /\ 132 \in Byte /\ 7 \in Byte /\ 10 \in Byte
    BY DEF Byte
  <2>2. /\ <<255, 253, 4, 12>> \in FourBytes /\ <<0, 0, 3, 132>> \in FourBytes
        /\ <<0, 0, 0, 7>> \in FourBytes /\ <<0, 0, 0, 10>> \in FourBytes
    BY <2>1, FourOfThem
  <2>3. CommandOther(command)
    BY <1>1 DEF CommandOther
  <2> QED
    BY <1>1, <2>2, <2>3 DEF USER, INSTALLER
<1>3. PICK fields : fields = Fields(Broadcast, local, control, id, command, user, last)
  OBVIOUS
<1>4. FieldsOf(fields, Broadcast, local, control, id, command, user, last)
  BY <1>1, <1>2, <1>3, DeviceIs, SmallControls DEF FieldsOf
<1>5. PICK set : set = setFields(InverterHeader(78), InverterAt(78), fields)
  OBVIOUS
<1>6. PICK data : data = Reverse(now) \o Zeros(4) \o getEncodedPassword(user, password)
  OBVIOUS
<1>7. PICK b : b = setDataUint8Array(set, InverterAt(78), 0, data)
  OBVIOUS
<1>8. PICK parts : parts = <<password>>
  OBVIOUS
<1>9. stage = "start" /\ Send("login", b, 78, fields, parts)
  BY <1>1, <1>3, <1>5, <1>6, <1>7, <1>8 DEF SendLoginRequest
<1>10. PICK kind : kind = "login"
  OBVIOUS
<1>11. PICK g : g = [kind |-> kind, fields |-> fields, parts |-> parts]
  OBVIOUS
<1>12. Told(g, "login", fields) /\ SetBy(set, 78, fields) /\ g.parts = <<password>>
  BY <1>5, <1>8, <1>10, <1>11 DEF Told, SetBy
<1>13. LoginData(data, user, password, now)
  BY <1>6, PacketsAssumption DEF LoginData
<1>14. InverterSent(b, g, 58)
  BY <1>2, <1>4, <1>7, <1>12, <1>13, LoginSent
<1>15. PICK l \in Nat, length \in Nat : l = 58 /\ length = 78 /\ length = 20 + l /\ length <= BufferSize
  BY BufferIs
<1>16. kind \in Requests \cup Replies
  BY <1>10, KindsApart
<1>17. InverterSent(b, g, l) /\ Send(kind, b, length, fields, parts)
  BY <1>9, <1>10, <1>14, <1>15
<1> QED
  BY <1>9, <1>11, <1>15, <1>16, <1>17, InverterStep

(* SendReply keeps the invariant.                                          *)
LEMMA ReplyStep ==
  ASSUME PacketsInv, NEW pair \in Pairs, NEW id \in PacketIDs, NEW reply \in Registers,
         SendReply(pair[1], pair[2], id, reply)
  PROVE  PacketsInv'
<1>1. PICK control, dst, src : control = <<0, 1>> /\ dst = pair[1] /\ src = pair[2]
  OBVIOUS
<1>2. PICK last : last = LastRegister(reply)
  OBVIOUS
<1>3. PICK fields : fields = Fields(dst, src, control, id, reply.command, reply.first, last)
  OBVIOUS
<1>4. reply.command \in FourBytes /\ reply.first \in FourBytes /\ last \in FourBytes
      /\ reply.kind \in {"reply", "unicast_response"}
  BY <1>2, ReplyIs, LastRegisterTyped
<1>5. FieldsOf(fields, dst, src, control, id, reply.command, reply.first, LastRegister(reply))
  BY <1>1, <1>2, <1>3, <1>4, DeviceIs, SmallControls DEF FieldsOf
<1>6. PICK raw : raw = RegisterBytes(reply)
  OBVIOUS
<1>7. PICK length : length = 58 + Len(raw)
  OBVIOUS
<1>8. PICK set : set = setFields(InverterHeader(length), InverterAt(length), fields)
  OBVIOUS
<1>9. PICK b : b = setDataUint8Array(set, InverterAt(length), 0, raw)
  OBVIOUS
<1>10. PICK parts : parts = <<reply>>
  OBVIOUS
<1>11. stage = "start" /\ Send(reply.kind, b, length, fields, parts)
  BY <1>1, <1>2, <1>3, <1>6, <1>7, <1>8, <1>9, <1>10 DEF SendReply, LastRegister
<1>12. PICK kind : kind = reply.kind
  OBVIOUS
<1>13. PICK g : g = [kind |-> kind, fields |-> fields, parts |-> parts]
  OBVIOUS
<1>14. Told(g, reply.kind, fields) /\ SetBy(set, length, fields) /\ g.parts[1] = reply
  BY <1>8, <1>10, <1>12, <1>13 DEF Told, SetBy
<1>15. raw \in Seq(Byte) /\ length <= BufferSize /\ InverterSent(b, g, 38 + Len(raw))
  BY <1>5, <1>6, <1>7, <1>9, <1>14, ReplySent, ZenonT(60)
<1>16. PICK l \in Nat : l = 38 + Len(raw)
  BY <1>15
<1>17. length = 20 + l
  BY <1>7, <1>15, <1>16
<1>18. kind \in Requests \cup Replies
  BY <1>4, <1>12, KindsApart
<1>19. InverterSent(b, g, l) /\ Send(kind, b, length, fields, parts)
  BY <1>11, <1>12, <1>15, <1>16
<1> QED
  BY <1>11, <1>13, <1>15, <1>17, <1>18, <1>19, InverterStep

(* SendEncryption keeps the invariant.                                     *)
LEMMA EncryptionStep ==
  ASSUME PacketsInv, NEW pair \in Pairs, NEW seed \in Passwords, SendEncryption(pair[1], pair[2], seed)
  PROVE  PacketsInv'
<1>1. PICK src, dst : src = pair[1] /\ dst = pair[2]
  OBVIOUS
<1>2. PICK fields :
         fields = [PacketType |-> <<1>>, SrcSusyID |-> src.susyID,
                   SrcSerialNumber |-> src.serialNumber, DstSusyID |-> dst.susyID,
                   DstSerialNumber |-> dst.serialNumber]
  OBVIOUS
<1>3. SeedFields(fields, src, dst)
  BY <1>1, <1>2, DeviceIs DEF SeedFields
<1>4. PICK length : length = getDefaultHeaderTotalLength(2 + 13 + 16)
  OBVIOUS
<1>5. PICK head : head = setDefaultHeader(Packet(NoBytes, length), Group1, 2 + 13 + 16,
                                          sma_encryption_protocol_id)
  OBVIOUS
<1>6. PICK b : b = setString16(setEncryptionFields(head, Payload(Packet(head, length)).at, fields),
                               Payload(Packet(head, length)).at, 0, seed)
  OBVIOUS
<1>7. PICK parts : parts = <<seed>>
  OBVIOUS
<1>8. stage = "start" /\ Send("encryption", b, length, fields, parts)
  BY <1>1, <1>2, <1>4, <1>5, <1>6, <1>7 DEF SendEncryption
<1>9. PICK kind : kind = "encryption"
  OBVIOUS
<1>10. PICK g : g = [kind |-> kind, fields |-> fields, parts |-> parts]
  OBVIOUS
<1>11. Told(g, "encryption", fields) /\ g.parts = <<seed>>
  BY <1>7, <1>9, <1>10 DEF Told
<1>12. seed \in Seq(Byte)
  BY PacketsAssumption
<1>13. length = 51 /\ EncryptionSent(b, g)
  BY <1>3, <1>4, <1>5, <1>6, <1>11, <1>12, SeedSent
<1>14. length \in 0..BufferSize /\ b \in Area(BufferSize)
  BY <1>13, BufferIs DEF EncryptionSent, EncryptionPacket
<1>15. SentPacket(b, g, length, NULL) /\ kind \in KindsSent
  <2>1. g.kind = kind
    BY <1>10
  <2> QED
    BY <1>9, <1>13, <2>1, KindsApart DEF SentPacket
<1>16. Send(kind, b, length, fields, parts)
  BY <1>8, <1>9
<1> QED
  BY <1>8, <1>10, <1>14, <1>15, <1>16, SendStep

(* BeginEmeter keeps the invariant.                                        *)
LEMMA BeginStep ==
  ASSUME PacketsInv, NEW protocol \in MeterProtocols, NEW room \in Rooms, NEW src \in Addresses,
         NEW time \in FourBytes, BeginEmeter(protocol, room, src, time)
  PROVE  PacketsInv'
<1>1. PICK length : length = getDefaultHeaderTotalLength(OwnBytes(protocol) + sma_first_obis_offset + room)
  OBVIOUS
<1>2. PICK head : head = setDefaultHeader(Packet(NoBytes, length), Group1,
                                          OwnBytes(protocol) + sma_first_obis_offset + room, protocol)
  OBVIOUS
<1>3. PICK fields : fields = [SusyID |-> src.susyID, SerialNumber |-> src.serialNumber, Time |-> time]
  OBVIOUS
<1>4. PICK b : b = setEmeterFields(head, Payload(Packet(head, length)).at, fields)
  OBVIOUS
<1>5. PICK goes : goes = getFirstObisElement(Payload(Packet(head, length)))
  OBVIOUS
<1>6. PICK kind : kind = KindOf(protocol)
  OBVIOUS
<1>7. PICK none : none = <<>>
  OBVIOUS
<1>8. PICK g : g = [kind |-> kind, fields |-> fields, parts |-> none]
  OBVIOUS
<1>9. stage = "start" /\ udp = NoBytes
  BY DEF BeginEmeter, PacketsInv
<1>10. /\ udp' = b /\ size' = length /\ next' = goes /\ sent' = g /\ stage' = "filling"
       /\ rx' = rx /\ nbytes' = nbytes
  BY <1>1, <1>2, <1>3, <1>4, <1>5, <1>6, <1>7, <1>8, <1>9 DEF BeginEmeter, OwnBytes, KindOf
<1>11. Told(g, KindOf(protocol), fields) /\ g.parts = <<>> /\ g.kind = kind
  BY <1>6, <1>7, <1>8 DEF Told
<1>12. src \in Device
  BY DeviceIs
<1>13. /\ length \in 20..BufferSize /\ goes \in 0..length
       /\ MeterSent(b, g, length - 20, goes)
  BY <1>1, <1>2, <1>3, <1>4, <1>5, <1>11, <1>12, BegunSent
<1>14. kind \in Meters /\ kind \in KindsSent
  BY <1>6, KindIs, KindsApart
<1>15. SentPacket(b, g, length, goes)
  BY <1>11, <1>13, <1>14, KindsApart DEF SentPacket
<1>16. b \in Area(BufferSize)
  BY <1>13 DEF MeterSent, MeterPacket
<1>17. nbytes = 0 /\ rx \in Area(BufferSize)
  BY <1>9, TypeOf DEF PacketsInv
<1>18. (/\ udp \in Area(BufferSize) /\ rx \in Area(BufferSize)
        /\ size \in 0..BufferSize /\ nbytes \in 0..size
        /\ next \in {NULL} \cup 0..size
        /\ sent.kind \in {"none"} \cup KindsSent
        /\ stage \in {"start", "filling", "sent", "received"})'
  <2>1. length \in 0..BufferSize /\ 0 \in 0..length
    BY <1>13, BufferIs
  <2> QED
    BY <1>10, <1>11, <1>13, <1>14, <1>16, <1>17, <2>1
<1>19. PacketsTypeOK'
  BY <1>18, TypeOf, PTL
<1>20. SentPacket(udp', sent', size', next') /\ sent'.kind \in Meters /\ sent'.kind # "none" /\ nbytes' = 0
  BY <1>10, <1>11, <1>14, <1>15, <1>17, KindsApart
<1>21. DOMAIN sent' = {"kind", "fields", "parts"}
  BY <1>8, <1>10
<1> QED
  BY <1>10, <1>19, <1>20, <1>21 DEF PacketsInv

(* AddElement keeps the invariant.                                         *)
LEMMA AddStep ==
  ASSUME PacketsInv, NEW e \in Elements, AddElement(e)
  PROVE  PacketsInv'
<1>1. stage = "filling" /\ next # NULL /\ PacketsTypeOK /\ nbytes = 0
  BY DEF AddElement, PacketsInv
<1>2. sent.kind \in Meters /\ SentPacket(udp, sent, size, next) /\ DOMAIN sent = {"kind", "fields", "parts"}
  BY <1>1 DEF PacketsInv
<1>3. PICK b \in Area(BufferSize) : b = udp
  BY <1>1, TypeOf
<1>4. PICK length \in 0..BufferSize : length = size
  BY <1>1, TypeOf
<1>5. PICK s : s = sent
  OBVIOUS
<1>6. PICK goes \in 0..length : goes = next
  BY <1>1, <1>4, TypeOf
<1>7. s.kind \in Meters /\ DOMAIN s = {"kind", "fields", "parts"} /\ MeterSent(b, s, length - 20, goes)
  BY <1>2, <1>3, <1>4, <1>5, <1>6 DEF SentPacket
<1>8. PICK l \in Nat : l = length - 20
  <2>1. PICK l \in Int : l = length - 20
    BY <1>4
  <2>2. PICK at \in {18, 20} : at = PayloadAt(MeterProtocol(s.kind))
    BY KindIs DEF MeterProtocol, MeterProtocols
  <2>3. l >= (at - 16) + 10
    BY <1>7, <2>1, <2>2 DEF MeterSent
  <2> QED
    BY <2>1, <2>3
<1>9. 20 + l = length /\ 20 + l <= BufferSize /\ BufferSize \in Nat
  BY <1>4, <1>8, BufferIs
<1>10. PICK q : q = Payload(Packet(b, 20 + l))
  OBVIOUS
<1>11. PICK bytes : bytes = toByteArray(e)
  OBVIOUS
<1>12. PICK w : w = ObisBytesLength(bytes)
  OBVIOUS
<1>13. PICK r : r = setObisElement(q, goes, bytes)
  OBVIOUS
<1>14. PICK t : t = [s EXCEPT !.parts = Append(@, e)]
  OBVIOUS
<1>15. OneMore(t, s, e) /\ DOMAIN t = {"kind", "fields", "parts"}
  BY <1>7, <1>14 DEF OneMore
<1>16. goes # NULL
  BY <1>1, <1>6
<1>17. /\ ObisFits(q, goes, w) => goes + w \in 0..(20 + l) /\ MeterSent(r, t, l, goes + w)
       /\ ~ObisFits(q, goes, w) => r = b /\ MeterSent(b, s, l, NULL)
  <2>1. MeterSent(b, s, l, goes)
    BY <1>7, <1>8
  <2> QED
    BY <1>7, <1>9, <1>10, <1>11, <1>12, <1>13, <1>15, <1>16, <2>1, AddedSent
<1>18. /\ udp' = r /\ size' = length /\ rx' = rx /\ nbytes' = 0 /\ stage' = "filling"
       /\ IF ObisFits(q, goes, w) THEN next' = goes + w /\ sent' = t ELSE next' = NULL /\ sent' = s
  <2>1. q = Payload(Packet(udp, size))
    BY <1>3, <1>4, <1>9, <1>10
  <2> QED
    BY <1>1, <1>4, <1>5, <1>6, <1>11, <1>12, <1>13, <1>14, <2>1 DEF AddElement
<1>19. /\ next' \in {NULL} \cup 0..length /\ sent' \in {s, t}
       /\ MeterSent(r, sent', l, next')
  BY <1>9, <1>17, <1>18
<1>20. sent'.kind = s.kind /\ DOMAIN sent' = {"kind", "fields", "parts"}
  BY <1>7, <1>15, <1>19 DEF OneMore
<1>21. r \in Area(BufferSize)
  BY <1>19 DEF MeterSent, MeterPacket
<1>22. rx \in Area(BufferSize)
  BY <1>1, TypeOf
<1>23. (/\ udp \in Area(BufferSize) /\ rx \in Area(BufferSize)
        /\ size \in 0..BufferSize /\ nbytes \in 0..size
        /\ next \in {NULL} \cup 0..size
        /\ sent.kind \in {"none"} \cup KindsSent
        /\ stage \in {"start", "filling", "sent", "received"})'
  <2>1. sent'.kind \in KindsSent
    BY <1>7, <1>20, KindsApart
  <2>2. 0 \in 0..length
    BY <1>4, <1>9
  <2> QED
    BY <1>4, <1>18, <1>19, <1>21, <1>22, <2>1, <2>2
<1>24. PacketsTypeOK'
  BY <1>23, TypeOf, PTL
<1>25. SentPacket(udp', sent', size', next')
  BY <1>4, <1>7, <1>8, <1>18, <1>19, <1>20, KindsApart DEF SentPacket
<1>26. sent'.kind \in Meters /\ sent'.kind # "none"
  BY <1>7, <1>20, KindsApart
<1> QED
  BY <1>18, <1>20, <1>24, <1>25, <1>26 DEF PacketsInv

(* SendEmeter keeps the invariant.                                         *)
LEMMA SendEmeterStep ==
  ASSUME PacketsInv, SendEmeter
  PROVE  PacketsInv'
<1>1. stage = "filling" /\ stage' = "sent" /\ UNCHANGED <<udp, size, next, sent, rx, nbytes>>
  BY DEF SendEmeter
<1>2. PacketsTypeOK'
  <2>1. (/\ udp \in Area(BufferSize) /\ rx \in Area(BufferSize)
         /\ size \in 0..BufferSize /\ nbytes \in 0..size
         /\ next \in {NULL} \cup 0..size
         /\ sent.kind \in {"none"} \cup KindsSent
         /\ stage \in {"start", "filling", "sent", "received"})'
    BY <1>1, TypeOf DEF PacketsInv
  <2> QED
    BY <2>1, TypeOf, PTL
<1> QED
  BY <1>1, <1>2 DEF PacketsInv

(* Receive keeps the invariant.                                            *)
LEMMA ReceiveStep ==
  ASSUME PacketsInv, NEW room \in ReceiveSizes, Receive(room)
  PROVE  PacketsInv'
<1>1. /\ stage = "sent" /\ stage' = "received" /\ UNCHANGED <<udp, size, next, sent>>
      /\ nbytes' = (IF size < room THEN size ELSE room)
      /\ rx' = [o \in DOMAIN rx |-> IF o < nbytes' THEN udp[o] ELSE rx[o]]
  BY DEF Receive
<1>2. room \in 0..BufferSize
  BY PacketsAssumption
<1>3. /\ udp \in Area(BufferSize) /\ rx \in Area(BufferSize)
      /\ size \in 0..BufferSize
      /\ next \in {NULL} \cup 0..size
      /\ sent.kind \in {"none"} \cup KindsSent
  BY TypeOf DEF PacketsInv
<1>4. BufferSize \in Nat
  BY BufferIs
<1>5. nbytes' \in 0..size'
  BY <1>1, <1>2, <1>3, <1>4
<1>6. rx' \in Area(BufferSize)
  BY <1>1, <1>3 DEF Area
<1>7. \A o \in 0..(nbytes' - 1) : rx'[o] = udp'[o]
  <2>1. SUFFICES ASSUME NEW o \in 0..(nbytes' - 1)
                 PROVE  rx'[o] = udp[o]
    BY <1>1
  <2>2. o \in 0..(BufferSize - 1) /\ o < nbytes'
    BY <1>1, <1>3, <1>4, <1>5
  <2> QED
    BY <1>1, <1>3, <2>2 DEF Area
<1>8. PacketsTypeOK'
  <2>1. (/\ udp \in Area(BufferSize) /\ rx \in Area(BufferSize)
         /\ size \in 0..BufferSize /\ nbytes \in 0..size
         /\ next \in {NULL} \cup 0..size
         /\ sent.kind \in {"none"} \cup KindsSent
         /\ stage \in {"start", "filling", "sent", "received"})'
    BY <1>1, <1>3, <1>5, <1>6
  <2> QED
    BY <2>1, TypeOf, PTL
<1> QED
  BY <1>1, <1>7, <1>8 DEF PacketsInv

(* The invariant holds at first.                                           *)
LEMMA PacketsStart ==
  ASSUME PacketsInit
  PROVE  PacketsInv
<1>1. BufferSize \in Nat
  BY BufferIs
<1>2. NoBytes \in Area(BufferSize)
  BY NoBytesTyped
<1>3. rx \in Area(BufferSize)
  BY LeftoversTyped DEF PacketsInit
<1>4. 0 \in 0..BufferSize /\ 0 \in 0..0
  BY <1>1
<1>5. PacketsTypeOK
  BY <1>2, <1>3, <1>4, TypeOf DEF PacketsInit
<1>6. DOMAIN sent = {"kind", "fields", "parts"}
  BY DEF PacketsInit
<1> QED
  BY <1>5, <1>6 DEF PacketsInit, PacketsInv

(* The byte literals of the requests.                                      *)
LEMMA Literals ==
  /\ <<83, 128, 2, 0>> \in FourBytes /\ CommandOther(<<83, 128, 2, 0>>)
  /\ <<0, 37, 30, 0>> \in FourBytes /\ <<0, 37, 30, 255>> \in FourBytes
  /\ <<95, 232, 216, 0>> \in FourBytes /\ <<1, 2, 3, 4>> \in FourBytes
<1>1. /\ 83 \in Byte /\ 128 \in Byte /\ 2 \in Byte /\ 0 \in Byte /\ 37 \in Byte /\ 30 \in Byte
      /\ 255 \in Byte /\ 95 \in Byte /\ 232 \in Byte /\ 216 \in Byte /\ 1 \in Byte /\ 3 \in Byte /\ 4 \in Byte
  BY DEF Byte
<1>2. CommandOther(<<83, 128, 2, 0>>)
  BY DEF CommandOther
<1>3. <<83, 128, 2, 0>> \in FourBytes
  BY <1>1, FourOfThem
<1>4. <<0, 37, 30, 0>> \in FourBytes
  BY <1>1, FourOfThem
<1>5. <<0, 37, 30, 255>> \in FourBytes
  BY <1>1, FourOfThem
<1>6. <<95, 232, 216, 0>> \in FourBytes
  BY <1>1, FourOfThem
<1>7. <<1, 2, 3, 4>> \in FourBytes
  BY <1>1, FourOfThem
<1> QED
  BY <1>2, <1>3, <1>4, <1>5, <1>6, <1>7

(* Every step keeps the invariant.                                         *)
LEMMA PacketsStep ==
  ASSUME PacketsInv, [PacketsNext]_packet_vars
  PROVE  PacketsInv'
<1>1. CASE SendMulticastRequest
  BY <1>1, MulticastRequestStep
<1>2. ASSUME NEW ip \in Ips, SendMulticastResponse(ip) PROVE PacketsInv'
  BY <1>2, MulticastResponseStep
<1>3. ASSUME NEW local \in Addresses, NEW id \in PacketIDs, SendUnicastRequest(local, id)
      PROVE  PacketsInv'
  BY <1>3, UnicastRequestStep
<1>4. ASSUME NEW pair \in Pairs, NEW id \in PacketIDs,
             SendQueryRequest(pair[1], pair[2], id, <<83, 128, 2, 0>>, <<0, 37, 30, 0>>, <<0, 37, 30, 255>>)
      PROVE  PacketsInv'
  BY <1>4, QueryStep, Literals
<1>5. ASSUME NEW local \in Addresses, NEW id \in PacketIDs, NEW user \in {USER, INSTALLER},
             NEW w \in Passwords, SendLoginRequest(Broadcast, local, id, user, w, <<95, 232, 216, 0>>)
      PROVE  PacketsInv'
  BY <1>5, LoginStep, Literals
<1>6. ASSUME NEW src \in Addresses, NEW id \in PacketIDs, SendLogoffRequest(Broadcast, src, id)
      PROVE  PacketsInv'
  BY <1>6, LogoffStep
<1>7. ASSUME NEW pair \in Pairs, NEW id \in PacketIDs, NEW r \in Registers,
             SendReply(pair[1], pair[2], id, r)
      PROVE  PacketsInv'
  BY <1>7, ReplyStep
<1>8. ASSUME NEW pair \in Pairs, NEW w \in Passwords, SendEncryption(pair[1], pair[2], w)
      PROVE  PacketsInv'
  BY <1>8, EncryptionStep
<1>14. ASSUME NEW d \in Datagrams, SendDatagram(d) PROVE PacketsInv'
  BY <1>14, DatagramStep
<1>9. ASSUME NEW protocol \in {sma_emeter_protocol_id, sma_extended_emeter_protocol_id},
             NEW room \in Rooms, NEW src \in Addresses,
             BeginEmeter(protocol, room, src, <<1, 2, 3, 4>>)
      PROVE  PacketsInv'
  <2>1. protocol \in MeterProtocols
    BY <1>9 DEF MeterProtocols
  <2> QED
    BY <1>9, <2>1, BeginStep, Literals
<1>10. ASSUME NEW e \in Elements, AddElement(e) PROVE PacketsInv'
  BY <1>10, AddStep
<1>11. CASE SendEmeter
  BY <1>11, SendEmeterStep
<1>12. ASSUME NEW room \in ReceiveSizes, Receive(room) PROVE PacketsInv'
  BY <1>12, ReceiveStep
<1>13. CASE UNCHANGED packet_vars
  <2>1. UNCHANGED <<udp, size, next, sent, rx, nbytes, stage>>
    BY <1>13 DEF packet_vars
  <2>2. PacketsTypeOK'
    <3>1. (/\ udp \in Area(BufferSize) /\ rx \in Area(BufferSize)
           /\ size \in 0..BufferSize /\ nbytes \in 0..size
           /\ next \in {NULL} \cup 0..size
           /\ sent.kind \in {"none"} \cup KindsSent
           /\ stage \in {"start", "filling", "sent", "received"})'
      BY <2>1, TypeOf DEF PacketsInv
    <3> QED
      BY <3>1, TypeOf, PTL
  <2> QED
    BY <2>1, <2>2 DEF PacketsInv
<1> QED
  BY <1>1, <1>2, <1>3, <1>4, <1>5, <1>6, <1>7, <1>8, <1>9, <1>10, <1>11, <1>12, <1>13, <1>14 DEF PacketsNext

(* What is in the memory of the sender is, at every time, the packet of    *)
(* the kind and with the fields and parts that its calls were told, and    *)
(* what the receiver has is a copy of as much of it as its buffer has room *)
(* for: for all addresses, packet ids, passwords, registers, elements,     *)
(* rooms and sizes of the buffer.                                          *)
THEOREM PacketsInductive == PacketsSpec => []PacketsInv
<1>1. PacketsInit => PacketsInv
  BY PacketsStart
<1>2. PacketsInv /\ [PacketsNext]_packet_vars => PacketsInv'
  BY PacketsStep
<1> QED
  BY <1>1, <1>2, PTL DEF PacketsSpec

-----------------------------------------------------------------------------
(* A copy of a packet                                                      *)

SameUpTo(b, c, z) == \A o \in 0..(z - 1) : c[o] = b[o]

(* A part of equal memory is equal.                                        *)
LEMMA SamePart ==
  ASSUME NEW b, NEW c, NEW z \in Int, SameUpTo(b, c, z), NEW at \in Nat, NEW w \in Nat, at + w <= z
  PROVE  SameBytes(b, c, at, w)
<1>1. \A o \in at..((at + w) - 1) : o \in 0..(z - 1)
  OBVIOUS
<1> QED
  BY <1>1 DEF SameBytes, SameUpTo

(* The header is in the copy.                                              *)
LEMMA HeadCopied ==
  ASSUME NEW b, NEW c, NEW l \in Nat, SameUpTo(b, c, 20 + l), NEW protocol, Headed(b, l, protocol)
  PROVE  Headed(c, l, protocol)
<1>1. HeadSame(b, c, l)
  <2>1. \A o \in 0..17 : o \in 0..((20 + l) - 1)
    OBVIOUS
  <2>2. \A o \in (16 + l)..(19 + l) : o \in 0..((20 + l) - 1)
    OBVIOUS
  <2> QED
    BY <2>1, <2>2 DEF HeadSame, SameUpTo
<1> QED
  BY <1>1, HeadedSame

(* An inverter packet is in the copy.                                      *)
LEMMA InverterCopied ==
  ASSUME NEW b, NEW c \in Area(BufferSize), NEW l \in Int, SameUpTo(b, c, 20 + l), NEW s,
         InverterSent(b, s, l)
  PROVE  InverterSent(c, s, l)
<1>1. /\ l \in Nat /\ l >= 34 /\ DOMAIN s.fields \subseteq InverterFields
      /\ Headed(b, l, sma_inverter_protocol_id) /\ b[18] = (l \div 4) % 256
      /\ Carries(b, 20, s.fields) /\ Commands(b, l, s.kind)
  BY DEF InverterSent, InverterPacket
<1>2. Headed(c, l, sma_inverter_protocol_id)
  BY <1>1, HeadCopied
<1>3. c[18] = (l \div 4) % 256
  <2>1. 18 \in 0..((20 + l) - 1)
    BY <1>1
  <2> QED
    BY <1>1, <2>1 DEF SameUpTo
<1>4. ASSUME NEW at \in Nat, NEW w \in Nat, at + w <= 54
      PROVE  getLittleEndian(c, at, w) = getLittleEndian(b, at, w)
  <2>1. PICK z \in Int : z = 20 + l /\ at + w <= z
    BY <1>1, <1>4
  <2>2. SameBytes(b, c, at, w)
    BY <2>1, <1>4, SamePart
  <2> QED
    BY <2>2, ReadStays
<1>5. Carries(c, 20, s.fields)
  <2>1. SUFFICES ASSUME NEW f \in DOMAIN s.fields
                 PROVE  getLittleEndian(c, 20 + InverterField(f)[1], InverterField(f)[2]) = s.fields[f]
    BY DEF Carries
  <2>2. /\ InverterField(f)[1] \in Nat /\ InverterField(f)[2] \in {2, 4}
        /\ InverterField(f)[1] + InverterField(f)[2] <= 34
    BY <1>1, InverterPlaces
  <2>3. PICK at \in Nat, w \in Nat :
           at = 20 + InverterField(f)[1] /\ w = InverterField(f)[2] /\ at + w <= 54
    BY <2>2
  <2>4. getLittleEndian(b, at, w) = s.fields[f]
    BY <1>1, <2>3 DEF Carries
  <2> QED
    BY <1>4, <2>3, <2>4
<1>6. Commands(c, l, s.kind)
  <2>1. /\ getLittleEndian(c, 42, 4) = getLittleEndian(b, 42, 4)
        /\ getLittleEndian(c, 46, 4) = getLittleEndian(b, 46, 4)
        /\ getLittleEndian(c, 50, 4) = getLittleEndian(b, 50, 4)
    BY <1>4
  <2> QED
    BY <1>1, <2>1 DEF Commands
<1>7. ASSUME s.kind = "login"
      PROVE  l >= 58 /\ "FirstRegisterID" \in DOMAIN s.fields /\ Coded(c, s)
  <2>1. l >= 58 /\ "FirstRegisterID" \in DOMAIN s.fields /\ Coded(b, s)
    BY <1>7 DEF InverterSent
  <2>2. ASSUME NEW i \in 1..12 PROVE c[61 + i] = b[61 + i]
    <3>1. 61 + i \in 0..((20 + l) - 1)
      BY <1>1, <2>1
    <3> QED
      BY <3>1 DEF SameUpTo
  <2> QED
    BY <2>1, <2>2 DEF Coded
<1>8. ASSUME s.kind \in Replies PROVE Answered(c, s, l)
  <2>1. Answered(b, s, l)
    BY <1>8 DEF InverterSent
  <2>2. PICK n \in Nat : n = Len(RegisterBytes(s.parts[1])) /\ l = 38 + n
    <3>1. RegisterBytes(s.parts[1]) \in Seq(Byte)
      BY <2>1, RegisterBytesAre DEF Answered, RegistersLaid
    <3> QED
      BY <2>1, <3>1 DEF Answered
  <2>3. ASSUME NEW i \in 1..n PROVE c[53 + i] = b[53 + i]
    <3>1. 53 + i \in 0..((20 + l) - 1)
      BY <2>2
    <3> QED
      BY <3>1 DEF SameUpTo
  <2> QED
    BY <2>1, <2>2, <2>3 DEF Answered
<1> QED
  BY <1>1, <1>2, <1>3, <1>5, <1>6, <1>7, <1>8 DEF InverterSent, InverterPacket

(* An encryption packet is in the copy.                                    *)
LEMMA EncryptionCopied ==
  ASSUME NEW b, NEW c \in Area(BufferSize), SameUpTo(b, c, 51), NEW s, EncryptionSent(b, s)
  PROVE  EncryptionSent(c, s)
<1>1. /\ DOMAIN s.fields = EncryptionFields /\ s.parts[1] \in Seq(Byte)
      /\ Headed(b, 31, sma_encryption_protocol_id)
      /\ \A f \in DOMAIN s.fields : f # "SrcSerialNumber" =>
           getBigEndian(b, 18 + EncryptionField(f)[1], EncryptionField(f)[2]) = s.fields[f]
      /\ \A i \in 1..16 : b[30 + i] = IF i <= Len(s.parts[1]) THEN s.parts[1][i] ELSE 0
  BY DEF EncryptionSent, EncryptionPacket
<1>2. Headed(c, 31, sma_encryption_protocol_id)
  <2>1. PICK l \in Nat : l = 31 /\ SameUpTo(b, c, 20 + l)
    OBVIOUS
  <2> QED
    BY <1>1, <2>1, HeadCopied
<1>3. ASSUME NEW f \in DOMAIN s.fields, f # "SrcSerialNumber"
      PROVE  getBigEndian(c, 18 + EncryptionField(f)[1], EncryptionField(f)[2]) = s.fields[f]
  <2>1. /\ EncryptionField(f)[1] \in Nat /\ EncryptionField(f)[2] \in {1, 2, 4}
        /\ EncryptionField(f)[1] + EncryptionField(f)[2] <= 13
    BY <1>1, EncryptionPlaces
  <2>2. PICK at \in Nat, w \in Nat :
           at = 18 + EncryptionField(f)[1] /\ w = EncryptionField(f)[2] /\ at + w <= 51
    BY <2>1
  <2>3. getBigEndian(b, at, w) = s.fields[f]
    BY <1>1, <1>3, <2>2
  <2>4. SameBytes(b, c, at, w)
    BY <2>2, SamePart
  <2>5. getBigEndian(c, at, w) = getBigEndian(b, at, w)
    BY <2>4, ReadBigStays
  <2> QED
    BY <2>2, <2>3, <2>5
<1>4. ASSUME NEW i \in 1..16 PROVE c[30 + i] = b[30 + i]
  <2>1. 30 + i \in 0..(51 - 1)
    OBVIOUS
  <2> QED
    BY <2>1 DEF SameUpTo
<1> QED
  BY <1>1, <1>2, <1>3, <1>4 DEF EncryptionSent, EncryptionPacket

(* An obis element is in the copy.                                         *)
LEMMA ElementCopied ==
  ASSUME NEW b, NEW c, NEW z \in Int, SameUpTo(b, c, z), NEW e, ObisElement(e), NEW o \in Nat,
         o + ElementLength(e) <= z, ElementAt(b, o, e)
  PROVE  ElementAt(c, o, e)
<1>1. PICK w \in {8, 11, 12} : w = ElementLength(e)
  BY ElementIs
<1>2. PICK k \in {4, 8} : k = Len(e.value) /\ 4 + k <= w
  BY <1>1, ElementIs
<1>3. o \in 0..(z - 1) /\ o + 2 \in 0..(z - 1) /\ \A i \in 1..k : (o + 3) + i \in 0..(z - 1)
  BY <1>1, <1>2
<1> QED
  BY <1>2, <1>3 DEF ElementAt, SameUpTo

(* The elements are in the copy.                                           *)
LEMMA LayoutCopied ==
  ASSUME NEW b, NEW c, NEW end \in Nat, SameUpTo(b, c, end), NEW parts \in Seq(Elements),
         NEW k, k = Len(parts),
         NEW pos \in [1..(k + 1) -> Nat], NEW first \in Nat, Layout(b, parts, pos, first, end)
  PROVE  Layout(c, parts, pos, first, end)
<1>1. /\ pos[1] = first /\ pos[k + 1] <= end /\ k \in Nat
      /\ \A i \in 1..k : pos[i + 1] = pos[i] + ElementLength(parts[i]) /\ ElementAt(b, pos[i], parts[i])
      /\ \A i \in 1..(k + 1) : first <= pos[i] /\ pos[i] <= pos[k + 1]
      /\ \A o \in pos[k + 1]..(end - 1) : b[o] = 0
  BY DEF Layout
<1>2. ASSUME NEW i \in 1..k PROVE ElementAt(c, pos[i], parts[i])
  <2>1. parts[i] \in Elements
    BY ElementTyped
  <2>2. ObisElement(parts[i])
    BY <2>1, PacketsAssumption
  <2>3. i \in 1..(k + 1) /\ i + 1 \in 1..(k + 1) /\ k + 1 \in 1..(k + 1)
    BY <1>1
  <2>4. PICK o \in Nat, m \in Nat, e \in Elements : o = pos[i] /\ m = pos[i + 1] /\ e = parts[i]
    BY <2>1, <2>3
  <2>5. o + ElementLength(e) <= end
    <3>1. m = o + ElementLength(e)
      BY <1>1, <2>4
    <3>2. m <= pos[k + 1] /\ pos[k + 1] \in Nat
      BY <1>1, <2>3, <2>4
    <3>3. m <= end
      BY <1>1, <3>2
    <3> QED
      BY <3>1, <3>3
  <2>6. ElementAt(b, o, e)
    BY <1>1, <2>4
  <2>7. ElementAt(c, o, e)
    BY <2>2, <2>4, <2>5, <2>6, ElementCopied
  <2> QED
    BY <2>4, <2>7
<1>3. ASSUME NEW o \in pos[k + 1]..(end - 1) PROVE c[o] = 0
  <2>1. pos[k + 1] \in Nat
    BY <1>1
  <2>2. o \in 0..(end - 1)
    BY <2>1
  <2> QED
    BY <1>1, <2>2 DEF SameUpTo
<1> QED
  BY <1>1, <1>2, <1>3 DEF Layout

(* An emeter packet is in the copy.                                        *)
LEMMA MeterCopied ==
  ASSUME NEW b, NEW c \in Area(BufferSize), NEW l \in Int, SameUpTo(b, c, 20 + l), NEW s,
         s.kind \in Meters, NEW goes, MeterSent(b, s, l, goes)
  PROVE  MeterSent(c, s, l, goes)
<1>1. PICK protocol \in MeterProtocols, at \in {18, 20} :
         protocol = MeterProtocol(s.kind) /\ at = PayloadAt(protocol)
  <2>1. MeterProtocol(s.kind) \in MeterProtocols
    BY DEF MeterProtocol, MeterProtocols
  <2> QED
    BY <2>1, KindIs
<1>2. /\ l >= (at - 16) + 10
      /\ DOMAIN s.fields = EmeterFields /\ MeterPacket(b, l, protocol, s.fields)
      /\ s.parts \in Seq(Elements)
  BY <1>1 DEF MeterSent
<1>3. PICK k : k = Len(s.parts)
  OBVIOUS
<1>4. PICK pos \in [1..(k + 1) -> Nat] :
         Layout(b, s.parts, pos, at + 10, 16 + l) /\ goes \in {NULL, pos[k + 1]}
  BY <1>1, <1>3 DEF MeterSent
<1>5. l \in Nat
  BY <1>2
<1>6. Headed(c, l, protocol)
  BY <1>2, <1>5, HeadCopied DEF MeterPacket
<1>7. ASSUME NEW f \in DOMAIN s.fields
      PROVE  getBigEndian(c, at + EmeterField(f)[1], EmeterField(f)[2]) = s.fields[f]
  <2>1. EmeterField(f)[1] \in Nat /\ EmeterField(f)[2] \in {2, 4} /\ EmeterField(f)[1] + EmeterField(f)[2] <= 10
    BY <1>2, EmeterPlaces
  <2>2. PICK o \in Nat, w \in Nat :
           o = at + EmeterField(f)[1] /\ w = EmeterField(f)[2] /\ o + w <= 20 + l
    BY <1>2, <1>5, <2>1
  <2>3. getBigEndian(b, o, w) = s.fields[f]
    BY <1>1, <1>2, <2>2 DEF MeterPacket
  <2>4. SameBytes(b, c, o, w)
    BY <1>5, <2>2, SamePart
  <2>5. getBigEndian(c, o, w) = getBigEndian(b, o, w)
    BY <2>4, ReadBigStays
  <2> QED
    BY <2>2, <2>3, <2>5
<1>8. MeterPacket(c, l, protocol, s.fields)
  BY <1>1, <1>6, <1>7 DEF MeterPacket
<1>9. Layout(c, s.parts, pos, at + 10, 16 + l)
  <2>1. PICK first \in Nat, end \in Nat : first = at + 10 /\ end = 16 + l
    BY <1>5
  <2>2. SameUpTo(b, c, end)
    <3>1. \A o \in 0..(end - 1) : o \in 0..((20 + l) - 1)
      BY <1>5, <2>1
    <3> QED
      BY <3>1 DEF SameUpTo
  <2>3. Layout(b, s.parts, pos, first, end)
    BY <1>4, <2>1
  <2>4. Layout(c, s.parts, pos, first, end)
    BY <1>2, <1>3, <2>2, <2>3, LayoutCopied
  <2> QED
    BY <2>1, <2>4
<1> QED
  BY <1>1, <1>2, <1>3, <1>4, <1>8, <1>9 DEF MeterSent

(* A discovery request is in the copy.                                     *)
LEMMA RequestCopied ==
  ASSUME NEW b, NEW c \in Area(BufferSize), SameUpTo(b, c, 20), DiscoveryRequest(BufferSize, b)
  PROVE  DiscoveryRequest(BufferSize, c)
<1>1. Len(RequestShape) = 3 /\ DOMAIN RequestShape = 1..3 /\ RequestShape \in Seq(TagRecords)
  BY DEF RequestShape, TagRecords
<1>2. Tagged(c, RequestShape)
  <2>1. SUFFICES ASSUME NEW i \in 1..3
                 PROVE  Tag(c, RequestShape[i].at, RequestShape[i].id, RequestShape[i].length)
    BY <1>1 DEF Tagged
  <2>2. PICK at \in Nat, id \in Nat, length \in Nat :
           at = RequestShape[i].at /\ id = RequestShape[i].id /\ length = RequestShape[i].length /\ at + 4 <= 20
    <3>1. i = 1 \/ i = 2 \/ i = 3
      OBVIOUS
    <3> QED
      BY <3>1 DEF RequestShape
  <2>3. Tag(b, at, id, length)
    BY <1>1, <2>2 DEF DiscoveryRequest, Tagged
  <2>4. \A o \in at..(at + 3) : o \in 0..(20 - 1)
    BY <2>2
  <2>5. Tag(c, at, id, length)
    BY <2>3, <2>4, TagStays DEF SameUpTo
  <2> QED
    BY <2>2, <2>5
<1>3. Signed(c)
  <2>1. 0 \in 0..(20 - 1) /\ 1 \in 0..(20 - 1) /\ 2 \in 0..(20 - 1) /\ 3 \in 0..(20 - 1)
    OBVIOUS
  <2> QED
    BY <2>1 DEF DiscoveryRequest, Signed, SameUpTo
<1> QED
  BY <1>2, <1>3 DEF DiscoveryRequest

(* A discovery response is in the copy.                                    *)
LEMMA ResponseCopied ==
  ASSUME NEW b, NEW c \in Area(BufferSize), SameUpTo(b, c, 57), NEW ip,
         DiscoveryResponse(BufferSize, b, ip)
  PROVE  DiscoveryResponse(BufferSize, c, ip)
<1>1. Len(ResponseShape) = 8 /\ DOMAIN ResponseShape = 1..8
  BY DEF ResponseShape
<1>2. Tagged(c, ResponseShape)
  <2>1. SUFFICES ASSUME NEW i \in 1..8
                 PROVE  Tag(c, ResponseShape[i].at, ResponseShape[i].id, ResponseShape[i].length)
    BY <1>1 DEF Tagged
  <2>2. PICK at \in Nat, id \in Nat, length \in Nat :
           at = ResponseShape[i].at /\ id = ResponseShape[i].id /\ length = ResponseShape[i].length /\ at + 4 <= 57
    <3>1. i = 1 \/ i = 2 \/ i = 3 \/ i = 4 \/ i = 5 \/ i = 6 \/ i = 7 \/ i = 8
      OBVIOUS
    <3> QED
      BY <3>1 DEF ResponseShape
  <2>3. Tag(b, at, id, length)
    BY <1>1, <2>2 DEF DiscoveryResponse, Tagged
  <2>4. \A o \in at..(at + 3) : o \in 0..(57 - 1)
    BY <2>2
  <2>5. Tag(c, at, id, length)
    BY <2>3, <2>4, TagStays DEF SameUpTo
  <2> QED
    BY <2>2, <2>5
<1>3. Signed(c)
  <2>1. 0 \in 0..(57 - 1) /\ 1 \in 0..(57 - 1) /\ 2 \in 0..(57 - 1) /\ 3 \in 0..(57 - 1)
    OBVIOUS
  <2> QED
    BY <2>1 DEF DiscoveryResponse, Signed, SameUpTo
<1>4. ASSUME NEW i \in 1..4 PROVE c[37 + i] = ip[i]
  <2>1. 37 + i \in 0..(57 - 1)
    OBVIOUS
  <2> QED
    BY <2>1 DEF DiscoveryResponse, SameUpTo
<1> QED
  BY <1>2, <1>3, <1>4 DEF DiscoveryResponse

(* What was sent of a packet is in every copy of its bytes.                *)
LEMMA PacketCopied ==
  ASSUME NEW b, NEW c \in Area(BufferSize), NEW z \in Int, SameUpTo(b, c, z), NEW s, NEW goes,
         SentPacket(b, s, z, goes)
  PROVE  SentPacket(c, s, z, goes)
<1>1. ASSUME s.kind \in Requests \cup Replies PROVE InverterSent(c, s, z - 20)
  <2>1. PICK l \in Int : l = z - 20 /\ 20 + l = z
    OBVIOUS
  <2>2. InverterSent(b, s, l)
    BY <1>1, <2>1 DEF SentPacket
  <2> QED
    BY <2>1, <2>2, InverterCopied
<1>2. ASSUME s.kind \in Meters PROVE MeterSent(c, s, z - 20, goes)
  <2>1. PICK l \in Int : l = z - 20 /\ 20 + l = z
    OBVIOUS
  <2>2. MeterSent(b, s, l, goes)
    BY <1>2, <2>1 DEF SentPacket
  <2> QED
    BY <1>2, <2>1, <2>2, MeterCopied
<1>3. ASSUME s.kind = "encryption" PROVE z = 51 /\ EncryptionSent(c, s)
  BY <1>3, EncryptionCopied DEF SentPacket
<1>4. ASSUME s.kind = "multicast_request" PROVE z = 20 /\ DiscoveryRequest(BufferSize, c)
  BY <1>4, RequestCopied DEF SentPacket
<1>5. ASSUME s.kind = "multicast_response" PROVE z = 57 /\ DiscoveryResponse(BufferSize, c, s.fields["ip"])
  BY <1>5, ResponseCopied DEF SentPacket
<1> QED
  BY <1>1, <1>2, <1>3, <1>4, <1>5 DEF SentPacket

(* A packet that was received as a whole is what was sent.                 *)
LEMMA WholeIs ==
  ASSUME PacketsInv, Whole
  PROVE  /\ SentPacket(rx, sent, size, next) /\ rx \in Area(BufferSize)
         /\ size \in 0..BufferSize /\ sent.kind \in KindsSent /\ nbytes = size
<1>1. /\ stage = "received" /\ nbytes = size /\ sent.kind # "none"
      /\ SentPacket(udp, sent, size, next) /\ \A o \in 0..(nbytes - 1) : rx[o] = udp[o]
  BY DEF Whole, PacketsInv
<1>2. rx \in Area(BufferSize) /\ size \in 0..BufferSize /\ sent.kind \in KindsSent
  BY <1>1, TypeOf DEF PacketsInv
<1>3. PICK z \in Int : z = size
  BY <1>2
<1>4. SameUpTo(udp, rx, z)
  BY <1>1, <1>3 DEF SameUpTo
<1>5. PICK b \in Area(BufferSize), c \in Area(BufferSize) : b = udp /\ c = rx
  BY <1>2, TypeOf DEF PacketsInv
<1>6. PICK s, goes : s = sent /\ goes = next
  OBVIOUS
<1>7. SentPacket(b, s, z, goes) /\ SameUpTo(b, c, z)
  BY <1>1, <1>3, <1>4, <1>5, <1>6
<1>8. SentPacket(c, s, z, goes)
  BY <1>7, PacketCopied
<1> QED
  BY <1>1, <1>2, <1>3, <1>5, <1>6, <1>8

-----------------------------------------------------------------------------
(* Readers stay inside                                                     *)

(* A tag that is visited ends inside of the packet.                        *)
LEMMA TagsInside ==
  ASSUME NEW n \in Nat, NEW b \in Area(n), NEW s \in 0..n, NEW tag \in ToSet(TagPackets(Packet(b, s)))
  PROVE  tag + getTotalLength(Packet(b, s), tag) <= s
<1>1. PICK w : w = TagPackets(Packet(b, s))
  OBVIOUS
<1>2. PICK G : G = Fitting(Packet(b, s))
  OBVIOUS
<1>3. w \in Seq(G)
  BY <1>1, <1>2, TagsFacts DEF Path
<1>4. PICK i \in 1..Len(w) : tag = w[i]
  BY <1>1, <1>3 DEF ToSet
<1>5. tag \in G
  BY <1>3, <1>4, ElementTyped
<1>6. tag \in Nat /\ tag + 4 <= s /\ tag + 4 + getTagLength(Packet(b, s), tag) <= s
  <2>1. tag \in 0..s
    BY <1>2, <1>5, PacketIs DEF Fitting
  <2> QED
    BY <1>2, <1>5, <2>1, FittingTag
<1>7. /\ getTotalLength(Packet(b, s), tag) = 4 + getTagLength(Packet(b, s), tag)
      /\ getTagLength(Packet(b, s), tag) \in Nat
  <2>1. tag + 4 <= n
    BY <1>6
  <2> QED
    BY <1>6, <2>1, TagNumbers
<1> QED
  BY <1>6, <1>7

(* What the readers of a packet that was not received as a whole check.    *)
ValidData2(p) == isValidData2Packet(p, FALSE)

(* A register that is visited ends inside of the packet, if the data2 tag  *)
(* holds the fields in front of it; if not only the first one is visited.  *)
LEMMA RegistersInside ==
  ASSUME NEW n \in Nat, n < UINT32_RANGE, NEW b \in Area(n), NEW s \in 0..n, ValidData2(Packet(b, s)),
         getProtocolID(Packet(b, s)) = sma_inverter_protocol_id,
         NEW q, q = Payload(Packet(b, s)), q.at + 34 <= n,
         NEW l, l = getTagLength(Packet(b, s), Data2(Packet(b, s))), l >= 4,
         NEW e \in ToSet(RawElements(q))
  PROVE  IF l >= 38 THEN q.at + e + getRawDataLength(q) <= s ELSE e = 34
<1>1. Data2(Packet(b, s)) # NULL
  BY DEF ValidData2, isValidData2Packet, Data2
<1>2. getPayloadOffset(Packet(b, s)) = 8
  BY DEF getPayloadOffset
<1>3. /\ q.udp = b /\ q.at \in Nat /\ l \in Nat /\ q.at = Data2(Packet(b, s)) + 8
      /\ l >= 8 - 4 => q.size \in Nat /\ q.at + q.size = Data2(Packet(b, s)) + 4 + l /\ q.at + q.size <= s
  <2>1. PICK off : off = getPayloadOffset(Packet(b, s))
    OBVIOUS
  <2>2. /\ q.udp = b /\ q.at \in Nat /\ l \in Nat /\ q.at = Data2(Packet(b, s)) + off
        /\ l >= off - 4 => q.size \in Nat /\ q.at + q.size = Data2(Packet(b, s)) + 4 + l
                             /\ q.at + q.size <= s
    BY <1>1, <2>1, PayloadInside
  <2>3. off = 8
    BY <1>2, <2>1
  <2> QED
    BY ONLY <2>2, <2>3
<1>4. Data2(Packet(b, s)) \in Int
  BY FoundIsTag, <1>1 DEF Data2, Fitting
<1>5. PICK at \in Nat, d \in Int : at = q.at /\ d = Data2(Packet(b, s)) /\ at = d + 8
  BY <1>3, <1>4
<1>6. q.size \in Nat /\ at + q.size = d + 4 + l /\ at + q.size <= s
  <2>1. l >= 8 - 4
    BY <1>3
  <2> QED
    BY <1>3, <1>5, <2>1
<1>7. PICK z \in Nat : z = q.size
  BY <1>6
<1>8. z = l - 4 /\ z < UINT32_RANGE /\ UINT32_RANGE \in Nat
  BY <1>3, <1>5, <1>6, <1>7, RangeIs
<1>9. /\ q.size < UINT32_RANGE /\ q.size >= 34 =>
             e \in 34..q.size /\ e + getRawDataLength(q) <= q.size /\ getRawDataLength(q) \in Int
      /\ q.size < 34 => e = 34
  BY <1>3, <1>6, RegistersFit
<1>10. CASE l >= 38
  <2>1. e \in 34..z /\ e + getRawDataLength(q) <= z /\ getRawDataLength(q) \in Int
    BY <1>3, <1>7, <1>8, <1>9, <1>10
  <2>2. PICK r \in Int : r = getRawDataLength(q)
    BY <2>1
  <2>3. at + e + r <= s
    BY <1>6, <1>7, <2>1, <2>2
  <2> QED
    BY <1>5, <1>10, <2>2, <2>3
<1>11. CASE ~(l >= 38)
  BY <1>3, <1>7, <1>8, <1>9, <1>11
<1> QED
  BY <1>10, <1>11

(* The places of the elements that lie inside an emeter packet, and the    *)
(* way from one to the next.                                               *)
ElementPlaces(q) ==
    {a \in q.at..(q.at + q.size) : /\ a + 4 <= q.at + q.size
                                   /\ a + getObisLength(q.udp, a) <= q.at + q.size}
ElementAfter(q) == [a \in q.at..(q.at + q.size) |-> getNextObisElement(q, a)]

(* The first one is visited without a look at where it ends.               *)
ElementReach(q) == {q.at + 10} \cup {a \in ElementPlaces(q) : a > q.at + 10}

MeterPayload(q, n) ==
    /\ n \in Nat /\ q.udp \in Area(n) /\ q.at \in Nat /\ q.size \in Nat /\ q.at + q.size <= n

(* An obis element has a head of four bytes.                               *)
LEMMA ObisLengths ==
  ASSUME NEW n, NEW q, MeterPayload(q, n), NEW a \in Int, q.at <= a, a + 4 <= n
  PROVE  getObisLength(q.udp, a) \in Nat /\ getObisLength(q.udp, a) >= 4
<1>0. n \in Nat /\ q.udp \in Area(n) /\ q.at \in Nat /\ q.size \in Nat /\ q.at + q.size <= n
  BY DEF MeterPayload
<1>1. PICK b \in Area(n) : b = q.udp
  BY <1>0
<1>2. a + 2 \in 0..(n - 1)
  BY <1>0
<1>3. b[a + 2] \in Nat
  <2>1. PICK x \in 0..(n - 1) : x = a + 2
    BY <1>2
  <2>2. b[x] \in Byte
    BY DEF Area
  <2> QED
    BY <2>1, <2>2 DEF Byte
<1>4. getObisLength(b, a) \in Nat /\ getObisLength(b, a) >= 4
  BY <1>3 DEF getObisLength, getObisType
<1> QED
  BY <1>1, <1>4

(* From an element a reader comes to the next one if that is inside.       *)
LEMMA AfterIs ==
  ASSUME NEW n, NEW q, MeterPayload(q, n), NEW a \in Int, q.at <= a, a <= q.at + q.size, a + 4 <= n,
         NEW follow, follow = a + getObisLength(q.udp, a)
  PROVE  /\ ElementAfter(q)[a] = IF follow \in ElementPlaces(q) THEN follow ELSE NULL
         /\ follow \in Int /\ follow >= a + 4
<1>0. n \in Nat /\ q.udp \in Area(n) /\ q.at \in Nat /\ q.size \in Nat /\ q.at + q.size <= n
  BY DEF MeterPayload
<1>1. PICK b \in Area(n), at \in Nat, z \in Nat, end \in Nat :
         b = q.udp /\ at = q.at /\ z = q.size /\ end = at + z
  BY <1>0
<1>2. PICK G : G = ElementPlaces(q)
  OBVIOUS
<1>3. \A x : x \in G <=> x \in at..end /\ x + 4 <= end /\ x + getObisLength(b, x) <= end
  BY <1>1, <1>2 DEF ElementPlaces
<1>4. a \in at..end /\ ElementAfter(q)[a] = getNextObisElement(q, a)
  BY <1>1 DEF ElementAfter
<1>5. PICK length \in Nat : length = getObisLength(b, a) /\ length >= 4
  BY <1>1, ObisLengths
<1>6. follow = a + length /\ follow \in Int /\ follow >= a + 4
  BY <1>1, <1>4, <1>5
<1>7. ElementAfter(q)[a] = IF follow \in G THEN follow ELSE NULL
  <2>1. CASE (follow + 4) - at > z
    <3>1. getNextObisElement(q, a) = NULL
      BY <1>1, <1>5, <1>6, <2>1 DEF getNextObisElement
    <3>2. follow \notin G
      BY <1>1, <1>3, <1>6, <2>1
    <3> QED
      BY <1>4, <3>1, <3>2
  <2>2. CASE ~((follow + 4) - at > z)
    <3>1. at <= follow /\ follow + 4 <= end
      BY <1>1, <1>4, <1>6, <2>2
    <3>2. PICK more \in Nat : more = getObisLength(b, follow) /\ more >= 4
      <4>1. q.at <= follow /\ follow + 4 <= n
        BY <1>0, <1>1, <3>1
      <4> QED
        BY <1>1, <1>6, <4>1, ObisLengths
    <3>3. getNextObisElement(q, a) = IF (follow + more) - at > z THEN NULL ELSE follow
      BY <1>1, <1>5, <1>6, <2>2, <3>2 DEF getNextObisElement
    <3>4. follow \in G <=> ~((follow + more) - at > z)
      BY <1>1, <1>3, <1>6, <3>1, <3>2
    <3> QED
      BY <1>4, <3>3, <3>4
  <2> QED
    BY <2>1, <2>2
<1> QED
  BY <1>1, <1>2, <1>6, <1>7

(* So it is from an element inside.                                        *)
LEMMA ElementAfterIs ==
  ASSUME NEW n, NEW q, MeterPayload(q, n), NEW a \in ElementPlaces(q),
         NEW follow, follow = a + getObisLength(q.udp, a)
  PROVE  /\ ElementAfter(q)[a] = IF follow \in ElementPlaces(q) THEN follow ELSE NULL
         /\ a \in Int /\ q.at <= a /\ a + 4 <= q.at + q.size /\ follow \in Int /\ follow >= a + 4
<1>1. n \in Nat /\ q.at \in Nat /\ q.size \in Nat /\ q.at + q.size <= n
  BY DEF MeterPayload
<1>2. a \in q.at..(q.at + q.size) /\ a + 4 <= q.at + q.size
  BY DEF ElementPlaces
<1>3. PICK at \in Nat, z \in Nat : at = q.at /\ z = q.size
  BY <1>1
<1>4. a \in Int /\ at <= a /\ a <= at + z /\ a + 4 <= at + z /\ a + 4 <= n
  BY <1>1, <1>2, <1>3
<1> QED
  BY <1>3, <1>4, AfterIs

(* Readers walk over the elements inside, from the first one on.           *)
LEMMA ElementsPath ==
  ASSUME NEW n, NEW q, MeterPayload(q, n), q.at + 14 <= n, q.size >= 10
  PROVE  /\ Forward(ElementAfter(q), ElementReach(q), q.at + 10, q.size)
         /\ Path(ObisElements(q), q.at + 10, ElementAfter(q), ElementReach(q))
<1>0. n \in Nat /\ q.udp \in Area(n) /\ q.at \in Nat /\ q.size \in Nat /\ q.at + q.size <= n
  BY DEF MeterPayload
<1>1. PICK G, P, step : G = ElementReach(q) /\ P = ElementPlaces(q) /\ step = ElementAfter(q)
  OBVIOUS
<1>2. PICK at \in Nat, z \in Nat : at = q.at /\ z = q.size
  BY <1>0
<1>3. \A x \in P : x \in at..(at + z) /\ x + 4 <= at + z
  BY <1>1, <1>2 DEF ElementPlaces
<1>4. \A x : x \in G <=> x = at + 10 \/ (x \in P /\ x > at + 10)
  BY <1>1, <1>2 DEF ElementReach
<1>5. Forward(step, G, at + 10, z)
  <2>1. NULL \notin G
    BY <1>2, <1>3, <1>4 DEF NULL
  <2>2. ASSUME NEW a \in G
        PROVE  /\ at + 10 <= a /\ a < (at + 10) + z
               /\ step[a] \in G \cup {NULL} /\ (step[a] # NULL => step[a] > a)
    <3>1. PICK follow : follow = a + getObisLength(q.udp, a)
      OBVIOUS
    <3>2. a \in Int /\ at + 10 <= a /\ a <= at + z /\ a + 4 <= n
      BY <1>0, <1>2, <1>3, <1>4
    <3>3. step[a] = (IF follow \in P THEN follow ELSE NULL) /\ follow \in Int /\ follow >= a + 4
      <4>1. q.at <= a /\ a <= q.at + q.size
        BY <1>2, <3>2
      <4> QED
        BY <1>1, <3>1, <3>2, <4>1, AfterIs
    <3>4. CASE follow \in P
      BY <1>2, <1>4, <3>2, <3>3, <3>4
    <3>5. CASE follow \notin P
      BY <1>2, <3>2, <3>3, <3>5
    <3> QED
      BY <3>4, <3>5
  <2>3. G \in SUBSET Int
    BY <1>2, <1>3, <1>4
  <2> QED
    BY <1>2, <2>1, <2>2, <2>3 DEF Forward
<1>6. getFirstObisElement(q) = at + 10
  <2>1. ~(10 > z)
    BY <1>2
  <2> QED
    BY <1>2, <2>1 DEF getFirstObisElement, sma_first_obis_offset
<1>7. ObisElements(q) = Walk(at + 10, step, z)
  BY <1>1, <1>2, <1>6 DEF ObisElements, ElementAfter
<1>8. Path(ObisElements(q), at + 10, step, G)
  <2>1. at + 10 \in G \cup {NULL}
    BY <1>4
  <2> QED
    BY <1>5, <1>7, <2>1, WalkFacts
<1> QED
  BY <1>1, <1>2, <1>5, <1>8

(* A payload too short for its own fields has no elements.                 *)
LEMMA NoElements ==
  ASSUME NEW n, NEW q, MeterPayload(q, n), q.size < 10
  PROVE  DOMAIN ObisElements(q) = {}
<1>1. q.at \in Nat /\ q.size \in Nat
  BY DEF MeterPayload
<1>2. getFirstObisElement(q) = NULL
  BY <1>1 DEF getFirstObisElement, sma_first_obis_offset
<1>3. PICK step : step = ElementAfter(q)
  OBVIOUS
<1>4. ObisElements(q) = Walk(NULL, step, q.size)
  BY <1>2, <1>3 DEF ObisElements, ElementAfter
<1>5. Forward(step, {}, 0, q.size)
  BY <1>1 DEF Forward
<1>6. NULL \in {} \cup {NULL}
  OBVIOUS
<1>7. Path(ObisElements(q), NULL, step, {})
  BY <1>4, <1>5, <1>6, WalkFacts
<1>8. ObisElements(q) \in Seq({}) /\ Len(ObisElements(q)) = 0
  BY <1>7 DEF Path
<1> QED
  BY <1>8

(* All obis elements that are visited end inside of the payload, but for   *)
(* the first one.                                                          *)
LEMMA OthersInside ==
  ASSUME NEW n, NEW q, MeterPayload(q, n), q.at + 14 <= n,
         NEW w, w = ObisElements(q), NEW i \in DOMAIN w \ {1}
  PROVE  w[i] \in ElementPlaces(q)
<1>1. q.at \in Nat /\ q.size \in Nat
  BY DEF MeterPayload
<1>2. CASE q.size < 10
  BY <1>2, NoElements
<1>3. CASE q.size >= 10
  <2>1. PICK G, step, first : G = ElementReach(q) /\ step = ElementAfter(q) /\ first = q.at + 10
    OBVIOUS
  <2>2. Forward(step, G, first, q.size) /\ Path(w, first, step, G)
    BY <1>3, <2>1, ElementsPath
  <2>3. w \in Seq(G) /\ \A j \in 1..(Len(w) - 1) : w[j + 1] = step[w[j]]
    BY <2>2 DEF Path
  <2>4. PICK m \in Nat : m = Len(w)
    BY <2>3
  <2>5. i \in 2..m
    BY <2>3, <2>4
  <2>6. PICK j \in 1..(m - 1) : i = j + 1
    <3>1. i - 1 \in 1..(m - 1) /\ i = (i - 1) + 1
      BY <2>5
    <3> QED
      BY <3>1
  <2>7. w[i] = step[w[j]]
    BY <2>3, <2>4, <2>6
  <2>8. w[i] \in G /\ w[j] \in G
    <3>1. i \in 1..Len(w) /\ j \in 1..Len(w)
      BY <2>4, <2>5, <2>6
    <3> QED
      BY <2>3, <3>1, ElementTyped
  <2>9. w[i] > first
    <3>1. /\ G \in SUBSET Int /\ NULL \notin G /\ first \in Int /\ first <= w[j]
          /\ step[w[j]] # NULL => step[w[j]] > w[j]
      BY <2>2, <2>8 DEF Forward
    <3>2. PICK x \in Int, y \in Int : x = w[i] /\ y = w[j] /\ x # NULL
      BY <2>8, <3>1
    <3>3. first <= y /\ x > y
      BY <2>7, <3>1, <3>2
    <3> QED
      BY <3>1, <3>2, <3>3
  <2> QED
    BY <2>1, <2>8, <2>9 DEF ElementReach
<1> QED
  BY <1>1, <1>2, <1>3

(* The first one does if it says so itself.                                *)
LEMMA AllInside ==
  ASSUME NEW n, NEW q, MeterPayload(q, n), q.size >= 14,
         (q.at + 10) + getObisLength(q.udp, q.at + 10) <= q.at + q.size,
         NEW w, w = ObisElements(q), NEW i \in DOMAIN w
  PROVE  w[i] \in ElementPlaces(q)
<1>1. q.at \in Nat /\ q.size \in Nat /\ q.at + q.size <= n /\ n \in Nat
  BY DEF MeterPayload
<1>2. q.at + 14 <= n /\ q.size >= 10
  BY <1>1
<1>3. CASE i = 1
  <2>1. Path(w, q.at + 10, ElementAfter(q), ElementReach(q))
    BY <1>2, ElementsPath
  <2>2. w[1] = q.at + 10
    <3>1. q.at + 10 # NULL
      BY <1>1 DEF NULL
    <3> QED
      BY <2>1, <3>1 DEF Path
  <2>3. q.at + 10 \in ElementPlaces(q)
    BY <1>1 DEF ElementPlaces
  <2> QED
    BY <1>3, <2>2, <2>3
<1>4. CASE i # 1
  BY <1>2, <1>4, OthersInside
<1> QED
  BY <1>3, <1>4

(* An element at such a place ends where it should.                        *)
LEMMA PlaceEnds ==
  ASSUME NEW n, NEW q, MeterPayload(q, n), NEW o \in ElementPlaces(q), NEW s \in Int, q.at + q.size <= s
  PROVE  o + getObisLength(q.udp, o) <= s
<1>1. q.at \in Nat /\ q.size \in Nat /\ q.at + q.size <= n /\ n \in Nat
  BY DEF MeterPayload
<1>2. o \in q.at..(q.at + q.size) /\ o + 4 <= q.at + q.size /\ o + getObisLength(q.udp, o) <= q.at + q.size
  BY DEF ElementPlaces
<1>3. PICK at \in Nat, z \in Nat : at = q.at /\ z = q.size
  BY <1>1
<1>4. o \in Int /\ at <= o /\ o + 4 <= n
  BY <1>1, <1>2, <1>3
<1>5. getObisLength(q.udp, o) \in Nat
  BY <1>3, <1>4, ObisLengths
<1> QED
  BY <1>2, <1>3, <1>4, <1>5

(* A reader that finds the data2 tag of a truncated packet with its group  *)
(* id has received the payload as a whole.                                 *)
LEMMA TruncatedPayload ==
  ASSUME NEW n \in Nat, NEW b \in Area(n), NEW c \in Area(n), NEW l \in Nat, l >= 4,
         NEW protocol, Headed(b, l, protocol), NEW s \in 0..n, SameUpTo(b, c, s),
         ValidData2(Packet(c, s))
  PROVE  /\ 16 + l <= s
         /\ Payload(Packet(c, s)).udp = c /\ Payload(Packet(c, s)).at = PayloadAt(protocol)
         /\ Payload(Packet(c, s)).size = (16 + l) - PayloadAt(protocol)
<1>1. PICK p : p = Packet(c, s)
  OBVIOUS
<1>2. p.udp = c /\ p.size = s
  BY <1>1, PacketIs
<1>3. findTagPacket(p, 672) = 4 /\ getTagLength(p, 4) = 4 /\ findTagPacket(p, 16) # NULL
  BY <1>1 DEF ValidData2, isValidData2Packet, GroupIdFirst, sma_tag_group_id, sma_tag0_offset, sma_tag_data2
<1>4. PICK G : G = Fitting(p)
  OBVIOUS
<1>5. 4 \in G /\ getTagId(p, 4) = 672
  <2>1. findTagPacket(p, 672) # NULL
    BY <1>3 DEF NULL
  <2> QED
    BY <1>1, <1>3, <1>4, <2>1, FoundIsTag
<1>6. PICK w : w = TagPackets(p)
  OBVIOUS
<1>7. PICK step : step = NextTag(p)
  OBVIOUS
<1>8. Path(w, 4, step, G)
  BY <1>1, <1>4, <1>5, <1>6, <1>7, TagsFacts
<1>9. w \in Seq(G) /\ Len(w) >= 1 /\ w[1] = 4 /\ step[w[Len(w)]] = NULL
      /\ \A i \in 1..(Len(w) - 1) : w[i + 1] = step[w[i]]
  BY <1>8 DEF Path, NULL
<1>10. step[4] = IF 12 \in G THEN 12 ELSE NULL
  <2>1. 4 + 4 + getTagLength(p, 4) = 12
    BY <1>3
  <2>2. step[4] = getNextTagPacket(p, 4)
        /\ getNextTagPacket(p, 4) = IF 4 + 4 + getTagLength(p, 4) \in G THEN 4 + 4 + getTagLength(p, 4) ELSE NULL
    BY <1>1, <1>4, <1>5, <1>7, NextTagIs
  <2> QED
    BY <2>1, <2>2
<1>11. PICK d : d = findTagPacket(p, 16)
  OBVIOUS
<1>12. NULL \notin G
  <2>1. NULL \in G => NULL \in 0..s
    BY <1>1, <1>2, <1>4 DEF Fitting
  <2> QED
    BY <2>1 DEF NULL
<1>13. Len(w) >= 2
  <2>1. Sought(p, 16) \in SUBSET Nat
    BY <1>6, <1>9 DEF Sought
  <2>2. PICK m \in Sought(p, 16) : TRUE
    BY <1>3, <2>1, FindIs, FirstStopIs
  <2>3. m \in 1..Len(w) /\ getTagId(p, w[m]) = 16
    BY <1>6, <1>9, <2>2 DEF Sought
  <2>4. m # 1
    BY <1>5, <1>9, <2>3
  <2> QED
    BY <1>9, <2>3, <2>4
<1>14. w[2] = 12 /\ 12 \in G
  <2>1. w[2] = step[4]
    <3>1. 1 \in 1..(Len(w) - 1) /\ 1 + 1 = 2
      BY <1>9, <1>13
    <3> QED
      BY <1>9, <3>1
  <2>2. 2 \in 1..Len(w)
    BY <1>9, <1>13
  <2>3. w[2] \in G
    BY <1>9, <2>2, ElementTyped
  <2> QED
    BY <1>10, <1>12, <2>1, <2>3
<1>15. 12 + 4 <= s /\ 12 + 4 + getTagLength(p, 12) <= s
  BY <1>1, <1>4, <1>14, FittingTag
<1>16. /\ getTagLength(p, 12) = c[12] * 256 + c[13] /\ getTagId(p, 12) = c[14] * 256 + c[15]
       /\ getTotalLength(p, 12) = 4 + getTagLength(p, 12)
  <2>1. 12 \in Nat /\ 12 + 4 <= n /\ 12 + 1 = 13 /\ 12 + 2 = 14 /\ 12 + 3 = 15
    BY <1>15
  <2>2. /\ getTagLength(p, 12) = c[12] * 256 + c[12 + 1] /\ getTagId(p, 12) = c[12 + 2] * 256 + c[12 + 3]
        /\ getTotalLength(p, 12) = 4 + getTagLength(p, 12)
    BY <1>1, <2>1, TagNumbers
  <2> QED
    BY <2>1, <2>2
<1>17. c[12] = b[12] /\ c[13] = b[13] /\ c[14] = b[14] /\ c[15] = b[15]
  <2>1. 12 \in 0..(s - 1) /\ 13 \in 0..(s - 1) /\ 14 \in 0..(s - 1) /\ 15 \in 0..(s - 1)
    BY <1>15
  <2> QED
    BY <2>1 DEF SameUpTo
<1>18. b[12] * 256 + b[13] = l /\ b[14] * 256 + b[15] = 16
  <2>1. Tag(b, 12, 16, l)
    BY ThreeTags DEF Headed
  <2>2. 12 + 1 = 13 /\ 12 + 2 = 14 /\ 12 + 3 = 15
    OBVIOUS
  <2> QED
    BY <2>1, <2>2 DEF Tag
<1>19. getTagLength(p, 12) = l /\ getTagId(p, 12) = 16
  BY <1>16, <1>17, <1>18
<1>20. 16 + l <= s
  BY <1>15, <1>19
<1>21. d = 12
  <2>1. 2 \in 1..Len(w)
    BY <1>9, <1>13
  <2>2. \A j \in 1..(2 - 1) : /\ getTagId(p, w[j]) # 16 /\ ~EndOfData(p, w[j])
    <3>1. \A j \in 1..(2 - 1) : j = 1
      OBVIOUS
    <3> QED
      BY <1>5, <1>9, <3>1 DEF EndOfData, sma_tag_endofdata
  <2>3. getTagId(p, w[2]) = 16
    BY <1>14, <1>19
  <2>4. findTagPacket(p, 16) = w[2]
    BY <1>6, <1>9, <2>1, <2>2, <2>3, FoundAt, SMTT(30)
  <2> QED
    BY <1>11, <1>14, <2>4
<1>22. getProtocolID(p) = protocol
  <2>1. Data2(p) = 12
    BY <1>11, <1>21 DEF Data2, sma_tag_data2
  <2>2. getProtocolID(p) = ToNat(ReadBytes(c, 12 + 4, 2))
    BY <1>2, <2>1 DEF getProtocolID, getBigEndian
  <2>3. PICK v : v = ReadBytes(c, 16, 2)
    OBVIOUS
  <2>4. v \in [1..2 -> Byte]
    <3>1. 16 \in Nat /\ 2 \in Nat /\ 16 + 2 <= n
      BY <1>20
    <3> QED
      BY <2>3, <3>1, ReadTyped
  <2>5. v[1] = c[16] /\ v[2] = c[17]
    BY <2>3 DEF ReadBytes
  <2>6. ToNat(v) = v[1] * 256 + v[2]
    BY <2>4, NumberOfTwo
  <2>7. getProtocolID(p) = ToNat(v)
    BY <2>2, <2>3
  <2>8. c[16] = b[16] /\ c[17] = b[17]
    <3>1. 16 \in 0..(s - 1) /\ 17 \in 0..(s - 1)
      BY <1>20
    <3> QED
      BY <3>1 DEF SameUpTo
  <2> QED
    BY <2>5, <2>6, <2>7, <2>8 DEF Headed
<1>23. getPayloadOffset(p) = PayloadAt(protocol) - 12
  BY <1>22 DEF getPayloadOffset, PayloadAt
<1>24. PayloadAt(protocol) \in Nat
  BY DEF PayloadAt
<1>25. Payload(p).udp = c /\ Payload(p).at = 12 + getPayloadOffset(p)
       /\ Payload(p).size = (4 + l) - getPayloadOffset(p)
  <2>1. Data2(p) = 12
    BY <1>11, <1>21 DEF Data2, sma_tag_data2
  <2>2. getTotalLength(p, 12) = 4 + l
    BY <1>16, <1>19
  <2>3. getPayloadOffset(p) \in {6, 8}
    BY <1>23 DEF PayloadAt
  <2>4. PICK x \in Nat : x = (4 + l) - getPayloadOffset(p)
    BY <2>3
  <2>5. UnsignedLong(x) = x
    BY NotNegative
  <2> QED
    BY <1>2, <2>1, <2>2, <2>4, <2>5 DEF Payload
<1>26. Payload(p).at = PayloadAt(protocol) /\ Payload(p).size = (16 + l) - PayloadAt(protocol)
  BY <1>23, <1>24, <1>25
<1> QED
  BY <1>1, <1>20, <1>25, <1>26

(* The first element of a packet lies inside it.                           *)
LEMMA FirstElement ==
  ASSUME NEW b, NEW l \in Nat, NEW at \in {18, 20}, l >= (at - 16) + 10 + 4,
         NEW parts \in Seq(Elements), NEW k, k = Len(parts),
         NEW pos \in [1..(k + 1) -> Nat], Layout(b, parts, pos, at + 10, 16 + l)
  PROVE  (at + 10) + getObisLength(b, at + 10) <= 16 + l
<1>1. /\ pos[1] = at + 10 /\ pos[k + 1] <= 16 + l /\ k \in Nat
      /\ \A i \in 1..k : pos[i + 1] = pos[i] + ElementLength(parts[i]) /\ ElementAt(b, pos[i], parts[i])
      /\ \A i \in 1..(k + 1) : pos[i] <= pos[k + 1]
      /\ \A o \in pos[k + 1]..((16 + l) - 1) : b[o] = 0
  BY DEF Layout
<1>2. CASE k = 0
  <2>1. \A o \in (at + 10)..((16 + l) - 1) : b[o] = 0
    BY <1>1, <1>2
  <2>2. at + 10 \in (at + 10)..((16 + l) - 1) /\ at + 12 \in (at + 10)..((16 + l) - 1)
    OBVIOUS
  <2>3. b[at + 10] = 0 /\ b[at + 12] = 0 /\ (at + 10) + 2 = at + 12
    BY <2>1, <2>2
  <2>4. getObisLength(b, at + 10) = 4
    BY <2>3 DEF getObisLength, getObisChannel, getObisType, sma_firmware_version_channel
  <2> QED
    BY <2>4
<1>3. CASE k # 0
  <2>1. 1 \in 1..k /\ 1 + 1 = 2 /\ 2 \in 1..(k + 1) /\ k + 1 \in 1..(k + 1)
    BY <1>1, <1>3
  <2>2. PICK e \in Elements : e = parts[1]
    BY <2>1, ElementTyped
  <2>3. PICK w \in {8, 11, 12} : w = ElementLength(e)
    BY PacketsAssumption, ElementIs
  <2>4. pos[2] = (at + 10) + w /\ ElementAt(b, at + 10, e)
    BY <1>1, <2>1, <2>2, <2>3
  <2>5. pos[2] <= pos[k + 1] /\ pos[k + 1] \in Nat /\ pos[2] \in Nat
    BY <1>1, <2>1
  <2>6. getObisLength(b, at + 10) = ElementLength(e)
    BY <2>4 DEF getObisLength, getObisChannel, getObisType, ElementAt, ElementLength
  <2> QED
    BY <1>1, <2>3, <2>4, <2>5, <2>6
<1> QED
  BY <1>2, <1>3

(* So it does in an emeter packet of which only a part was received.       *)
LEMMA MetersInside ==
  ASSUME NEW b, NEW c \in Area(BufferSize), NEW z \in 0..BufferSize, NEW s, s.kind \in Meters,
         NEW goes, MeterSent(b, s, z - 20, goes), NEW m \in 0..z, SameUpTo(b, c, m),
         ValidData2(Packet(c, m)), NEW q, q = Payload(Packet(c, m)), q.size >= 14
  PROVE  (q.at + 10) + getObisLength(q.udp, q.at + 10) <= q.at + q.size
<1>0. BufferSize \in Nat
  BY BufferIs
<1>1. PICK protocol \in MeterProtocols, at \in {18, 20} :
         protocol = MeterProtocol(s.kind) /\ at = PayloadAt(protocol)
  <2>1. MeterProtocol(s.kind) \in MeterProtocols
    BY DEF MeterProtocol, MeterProtocols
  <2> QED
    BY <2>1, KindIs
<1>2. PICK l \in Int : l = z - 20
  BY <1>0
<1>3. /\ l >= (at - 16) + 10 /\ MeterPacket(b, l, protocol, s.fields)
      /\ s.parts \in Seq(Elements)
  BY <1>1, <1>2 DEF MeterSent
<1>4. PICK k : k = Len(s.parts)
  OBVIOUS
<1>5. PICK pos \in [1..(k + 1) -> Nat] : Layout(b, s.parts, pos, at + 10, 16 + l)
  BY <1>1, <1>2, <1>4 DEF MeterSent
<1>6. l \in Nat /\ l >= 4
  BY <1>3
<1>7. b \in Area(BufferSize) /\ Headed(b, l, protocol)
  BY <1>3 DEF MeterPacket
<1>9. m \in 0..BufferSize
  BY <1>0
<1>10. 16 + l <= m /\ q.udp = c /\ q.at = at /\ q.size = (16 + l) - at
  <2>1. /\ 16 + l <= m
        /\ Payload(Packet(c, m)).udp = c /\ Payload(Packet(c, m)).at = PayloadAt(protocol)
        /\ Payload(Packet(c, m)).size = (16 + l) - PayloadAt(protocol)
    BY <1>0, <1>6, <1>7, <1>9, TruncatedPayload
  <2> QED
    BY <1>1, <2>1
<1>11. l >= (at - 16) + 10 + 4
  BY <1>6, <1>10
<1>12. (at + 10) + getObisLength(b, at + 10) <= 16 + l
  BY <1>3, <1>4, <1>5, <1>6, <1>11, FirstElement
<1>13. getObisLength(c, at + 10) = getObisLength(b, at + 10)
  <2>1. at + 10 \in 0..(m - 1) /\ (at + 10) + 2 \in 0..(m - 1)
    BY <1>6, <1>10, <1>11
  <2>2. c[at + 10] = b[at + 10] /\ c[(at + 10) + 2] = b[(at + 10) + 2]
    BY <2>1 DEF SameUpTo
  <2> QED
    BY <2>2 DEF getObisLength, getObisChannel, getObisType
<1>14. q.at + q.size = 16 + l
  BY <1>6, <1>10
<1> QED
  BY <1>10, <1>12, <1>13, <1>14

(* What is visited of a received packet, and what was received of it.      *)
ReceivedPart(b, c, m, s, z, goes) ==
    /\ b \in Area(BufferSize) /\ c \in Area(BufferSize) /\ z \in 0..BufferSize /\ m \in 0..z
    /\ SameUpTo(b, c, m) /\ SentPacket(b, s, z, goes)

(* The invariant tells what was received.                                  *)
LEMMA PartIs ==
  ASSUME PacketsInv, stage = "received"
  PROVE  ReceivedPart(udp, rx, nbytes, sent, size, next)
<1>1. /\ udp \in Area(BufferSize) /\ rx \in Area(BufferSize) /\ size \in 0..BufferSize
      /\ nbytes \in 0..size
  BY TypeOf DEF PacketsInv
<1>2. \A o \in 0..(nbytes - 1) : rx[o] = udp[o]
  BY DEF PacketsInv
<1>3. SentPacket(udp, sent, size, next)
  BY DEF PacketsInv
<1> QED
  BY <1>1, <1>2, <1>3 DEF ReceivedPart, SameUpTo

(* Registers are read inside of any packet with data2.                     *)
LEMMA RegistersReadInsideFollows ==
  ASSUME NEW c \in Area(BufferSize), c = rx, NEW m \in 0..BufferSize, m = nbytes,
         ValidData2(Packet(c, m))
  PROVE  RegistersReadInside
<1>1. PICK q, l : q = Payload(Packet(c, m)) /\ l = getTagLength(Packet(c, m), Data2(Packet(c, m)))
  OBVIOUS
<1>2. Received = Packet(c, m)
  BY DEF Received
<1>3. SUFFICES ASSUME getProtocolID(Packet(c, m)) = sma_inverter_protocol_id, q.at + 34 <= BufferSize
               PROVE  /\ l >= 38 => \A e \in ToSet(RawElements(q)) :
                                         q.at + e + getRawDataLength(q) <= m
                      /\ l \in 4..37 => ToSet(RawElements(q)) \subseteq {34}
  BY <1>1, <1>2 DEF RegistersReadInside, sma_data_offset
<1>4. BufferSize \in Nat /\ BufferSize < UINT32_RANGE
  BY PacketsAssumption
<1>5. ASSUME NEW e \in ToSet(RawElements(q)), l >= 4
      PROVE  IF l >= 38 THEN q.at + e + getRawDataLength(q) <= m ELSE e = 34
  BY <1>1, <1>3, <1>4, <1>5, RegistersInside
<1>6. l \in Nat
  <2>1. Data2(Packet(c, m)) # NULL
    BY DEF ValidData2, isValidData2Packet, Data2
  <2> QED
    BY <1>1, <1>4, <2>1, PayloadInside, Zenon
<1>7. (l >= 38 => l >= 4) /\ (l \in 4..37 => l >= 4 /\ ~(l >= 38))
  BY <1>6
<1> QED
  BY <1>5, <1>7

(* Obis elements are read inside of any packet with data2.                 *)
LEMMA ElementsReadInsideFollows ==
  ASSUME PacketsInv, stage = "received", ValidData2(Received)
  PROVE  ElementsReadInside
<1>1. PICK b, c, m, s, z, goes : /\ ReceivedPart(b, c, m, s, z, goes)
                                 /\ c = rx /\ m = nbytes /\ s = sent
  BY PartIs
<1>2. PICK p, q, l, w : /\ p = Packet(c, m) /\ q = Payload(p) /\ l = getTagLength(p, Data2(p))
                        /\ w = ObisElements(q)
  OBVIOUS
<1>3. Received = p
  BY <1>1, <1>2 DEF Received
<1>4. SUFFICES ASSUME l >= getPayloadOffset(p) - 4, q.at + 14 <= BufferSize
               PROVE  /\ \A i \in DOMAIN w \ {1} : w[i] + getObisLength(c, w[i]) <= m
                      /\ s.kind \in Meters /\ q.size >= 14 =>
                             \A i \in DOMAIN w : w[i] + getObisLength(c, w[i]) <= m
  <2>1. 10 + 4 = 14
    OBVIOUS
  <2> QED
    BY <1>1, <1>2, <1>3, <2>1 DEF ElementsReadInside, sma_first_obis_offset, TAG_HEADER_LENGTH
<1>5. /\ b \in Area(BufferSize) /\ c \in Area(BufferSize) /\ z \in 0..BufferSize /\ m \in 0..z
      /\ SameUpTo(b, c, m) /\ SentPacket(b, s, z, goes)
  BY <1>1 DEF ReceivedPart
<1>6. BufferSize \in Nat /\ m \in 0..BufferSize
  BY <1>5, BufferIs
<1>7. q.udp = c /\ q.at \in Nat /\ q.size \in Nat /\ q.at + q.size <= m
  <2>1. Data2(Packet(c, m)) # NULL
    BY <1>2, <1>3 DEF ValidData2, isValidData2Packet, Data2
  <2> QED
    BY <1>2, <1>4, <1>5, <1>6, <2>1, PayloadInside, ZenonT(60)
<1>8. MeterPayload(q, BufferSize)
  BY <1>5, <1>6, <1>7 DEF MeterPayload
<1>9. ASSUME NEW o \in ElementPlaces(q) PROVE o + getObisLength(c, o) <= m
  BY <1>6, <1>7, <1>8, PlaceEnds
<1>10. ASSUME NEW i \in DOMAIN w \ {1} PROVE w[i] \in ElementPlaces(q)
  BY <1>2, <1>4, <1>8, OthersInside
<1>11. ASSUME s.kind \in Meters, q.size >= 14, NEW i \in DOMAIN w PROVE w[i] \in ElementPlaces(q)
  <2>1. MeterSent(b, s, z - 20, goes)
    BY <1>5, <1>11 DEF SentPacket
  <2>2. (q.at + 10) + getObisLength(q.udp, q.at + 10) <= q.at + q.size
    BY <1>2, <1>3, <1>5, <1>11, <2>1, MetersInside
  <2> QED
    BY <1>2, <1>8, <1>11, <2>2, AllInside
<1> QED
  BY <1>9, <1>10, <1>11

(* The invariant keeps all reads inside of what was received.              *)
LEMMA ReadsInsideFollows == PacketsInv => ReadsInside
<1>1. SUFFICES ASSUME PacketsInv, stage = "received"
               PROVE  ReadsInside
  BY DEF ReadsInside
<1>2. PICK c \in Area(BufferSize), m \in 0..BufferSize : c = rx /\ m = nbytes
  <2>1. rx \in Area(BufferSize) /\ size \in 0..BufferSize /\ nbytes \in 0..size
    BY <1>1, TypeOf DEF PacketsInv
  <2>2. nbytes \in 0..BufferSize
    BY <2>1, BufferIs
  <2> QED
    BY <2>1, <2>2
<1>3. Received = Packet(c, m) /\ BufferSize \in Nat
  BY <1>2, BufferIs DEF Received
<1>4. TagsReadInside
  BY <1>2, <1>3, TagsInside DEF TagsReadInside
<1>5. ASSUME isValidData2Packet(Received, FALSE)
      PROVE  RegistersReadInside /\ ElementsReadInside
  <2>1. ValidData2(Received) /\ ValidData2(Packet(c, m))
    BY <1>3, <1>5 DEF ValidData2
  <2> QED
    BY <1>1, <1>2, <2>1, RegistersReadInsideFollows, ElementsReadInsideFollows
<1> QED
  BY <1>4, <1>5 DEF ReadsInside

(* A whole packet tells the places of its tags to readers of any size.     *)
Places(b, m, group, data2, discovery, ip) ==
    /\ findTagPacket(Packet(b, m), 672) = group /\ findTagPacket(Packet(b, m), 16) = data2
    /\ findTagPacket(Packet(b, m), 32) = discovery /\ findTagPacket(Packet(b, m), 48) = ip

(* Where the tags of a packet with data2 are, whether or not it is taken   *)
(* for longer than it is.                                                  *)
LEMMA Data2Places ==
  ASSUME NEW b \in Area(BufferSize), NEW l \in Nat, NEW z, z = 20 + l, z <= BufferSize,
         NEW protocol, Headed(b, l, protocol), NEW m \in {z, BufferSize}
  PROVE  Places(b, m, 4, 12, NULL, NULL)
<1>1. m \in (20 + l)..BufferSize /\ BufferSize \in Nat /\ 20 + l <= BufferSize
  BY BufferIs
<1>2. Tagged(b, Data2Shape(l))
  BY DEF Headed
<1> QED
  BY <1>1, <1>2, FindInData2 DEF Places

(* Where the tags of a discovery request are.                              *)
LEMMA RequestPlaces ==
  ASSUME NEW b, DiscoveryRequest(BufferSize, b), NEW m \in {20, BufferSize}
  PROVE  Places(b, m, 4, NULL, 12, NULL)
<1>1. m \in 20..BufferSize /\ BufferSize \in Nat /\ 20 <= BufferSize
  BY BufferIs
<1>2. b \in Area(BufferSize) /\ Tagged(b, RequestShape)
  BY DEF DiscoveryRequest
<1> QED
  BY <1>1, <1>2, FindInRequest DEF Places

(* Where the tags of a discovery response are.                             *)
LEMMA ResponsePlaces ==
  ASSUME NEW b, NEW ip, DiscoveryResponse(BufferSize, b, ip), NEW m \in {57, BufferSize}
  PROVE  Places(b, m, 4, 18, 26, 34)
<1>1. m \in 57..BufferSize /\ BufferSize \in Nat /\ 57 <= BufferSize
  BY BufferIs
<1>2. b \in Area(BufferSize) /\ Tagged(b, ResponseShape)
  BY DEF DiscoveryResponse
<1> QED
  BY <1>1, <1>2, FindInResponse DEF Places

(* A data2 packet that was sent: its payload, of l bytes, and its protocol *)
ProtocolOf(kind) ==
    CASE kind \in Requests \cup Replies -> sma_inverter_protocol_id
      [] kind = "encryption" -> sma_encryption_protocol_id
      [] OTHER -> MeterProtocol(kind)

Data2Kinds == Requests \cup Replies \cup Meters \cup {"encryption"}

(* A packet that was sent with a data2 tag has its header.                 *)
LEMMA Data2Sent ==
  ASSUME NEW b, NEW s, s.kind \in Data2Kinds, NEW z \in 0..BufferSize, NEW goes, SentPacket(b, s, z, goes)
  PROVE  /\ z - 20 \in Nat /\ z - 20 >= 12 /\ b \in Area(BufferSize)
         /\ Headed(b, z - 20, ProtocolOf(s.kind))
<1>1. PICK l \in Int : l = z - 20
  BY BufferIs
<1>2. CASE s.kind \in Requests \cup Replies
  <2>1. InverterSent(b, s, l)
    BY <1>1, <1>2 DEF SentPacket
  <2>2. ProtocolOf(s.kind) = sma_inverter_protocol_id
    BY <1>2, KindsApart DEF ProtocolOf
  <2> QED
    BY <1>1, <2>1, <2>2 DEF InverterSent, InverterPacket
<1>3. CASE s.kind = "encryption"
  <2>1. z = 51 /\ EncryptionSent(b, s)
    BY <1>3 DEF SentPacket
  <2>2. ProtocolOf(s.kind) = sma_encryption_protocol_id
    BY <1>3, KindsApart DEF ProtocolOf
  <2>3. l = 31
    BY <1>1, <2>1
  <2> QED
    BY <1>1, <2>1, <2>2, <2>3 DEF EncryptionSent, EncryptionPacket
<1>4. CASE s.kind \in Meters
  <2>1. MeterSent(b, s, l, goes)
    BY <1>1, <1>4 DEF SentPacket
  <2>2. ProtocolOf(s.kind) = MeterProtocol(s.kind)
    BY <1>4, KindsApart DEF ProtocolOf
  <2>3. PICK at \in {18, 20} : at = PayloadAt(MeterProtocol(s.kind))
    BY KindIs DEF MeterProtocol, MeterProtocols
  <2>4. l >= (at - 16) + 10
    BY <2>1, <2>3 DEF MeterSent
  <2> QED
    BY <1>1, <2>1, <2>2, <2>4 DEF MeterSent, MeterPacket
<1> QED
  BY <1>2, <1>3, <1>4 DEF Data2Kinds

(* Where the tags of a packet lie that was received as a whole.            *)
LEMMA WholePlaces ==
  ASSUME NEW b, NEW s, NEW z \in 0..BufferSize, NEW goes, SentPacket(b, s, z, goes), s.kind \in KindsSent,
         s.kind # "datagram", NEW m \in {z, BufferSize}
  PROVE  /\ s.kind \in Data2Kinds => Places(b, m, 4, 12, NULL, NULL)
         /\ s.kind = "multicast_request" => Places(b, m, 4, NULL, 12, NULL)
         /\ s.kind = "multicast_response" => Places(b, m, 4, 18, 26, 34)
         /\ s.kind \in Data2Kinds \cup {"multicast_request", "multicast_response"}
<1>1. ASSUME s.kind \in Data2Kinds PROVE Places(b, m, 4, 12, NULL, NULL)
  <2>1. z - 20 \in Nat /\ b \in Area(BufferSize) /\ Headed(b, z - 20, ProtocolOf(s.kind))
    BY <1>1, Data2Sent
  <2>2. PICK l \in Nat : l = z - 20
    BY <2>1
  <2>3. z = 20 + l /\ z <= BufferSize
    BY <2>2, BufferIs
  <2>4. Headed(b, l, ProtocolOf(s.kind))
    BY <2>1, <2>2
  <2> QED
    BY <2>1, <2>3, <2>4, Data2Places
<1>2. ASSUME s.kind = "multicast_request" PROVE Places(b, m, 4, NULL, 12, NULL)
  BY <1>2, RequestPlaces DEF SentPacket
<1>3. ASSUME s.kind = "multicast_response" PROVE Places(b, m, 4, 18, 26, 34)
  BY <1>3, ResponsePlaces DEF SentPacket
<1>4. s.kind \in Data2Kinds \cup {"multicast_request", "multicast_response"}
  BY DEF KindsSent, Data2Kinds, Discovery
<1> QED
  BY <1>1, <1>2, <1>3, <1>4

(* The first k stops are these.                                            *)
Begun(w, pos, k) == \A i \in 1..k : i <= Len(w) /\ w[i] = pos[i]

(* One gets from each of these stops to the next.                          *)
Steps(step, pos, k) == \A i \in 1..(k - 1) : step[pos[i]] = pos[i + 1] /\ pos[i + 1] # NULL

(* A walk visits the positions that each step leads to.                    *)
LEMMA PathFollows ==
  ASSUME NEW w, NEW first, NEW step, NEW G, Path(w, first, step, G), NEW k \in Nat, NEW pos,
         pos[1] = first, first # NULL, Steps(step, pos, k)
  PROVE  Begun(w, pos, k)
<1> DEFINE S == {j \in Nat : j + 1 <= k => j + 1 <= Len(w) /\ w[j + 1] = pos[j + 1]}
<1>1. /\ w \in Seq(G) /\ Len(w) >= 1 /\ w[1] = pos[1] /\ step[w[Len(w)]] = NULL
      /\ \A i \in 1..(Len(w) - 1) : w[i + 1] = step[w[i]]
  BY DEF Path
<1>2. PICK m \in Nat : m = Len(w)
  BY <1>1
<1>3. 0 \in S
  BY <1>1
<1>4. ASSUME NEW j \in S PROVE j + 1 \in S
  <2>1. j \in Nat /\ j + 1 \in Nat
    OBVIOUS
  <2>2. CASE (j + 1) + 1 <= k
    <3>1. j + 1 <= m /\ w[j + 1] = pos[j + 1]
      BY <1>2, <2>1, <2>2
    <3>2. step[pos[j + 1]] = pos[(j + 1) + 1] /\ pos[(j + 1) + 1] # NULL
      <4>1. j + 1 \in 1..(k - 1)
        BY <2>1, <2>2
      <4> QED
        BY <4>1 DEF Steps
    <3>3. j + 1 # m
      BY <1>1, <1>2, <3>1, <3>2
    <3>4. j + 1 \in 1..(m - 1) /\ (j + 1) + 1 <= m
      BY <2>1, <3>1, <3>3
    <3>5. w[(j + 1) + 1] = step[w[j + 1]]
      BY <1>1, <1>2, <3>4
    <3> QED
      BY <1>2, <2>1, <3>1, <3>2, <3>4, <3>5
  <2>3. CASE ~((j + 1) + 1 <= k)
    BY <2>1, <2>3
  <2> QED
    BY <2>2, <2>3
<1>5. S \in SUBSET Nat
  OBVIOUS
<1>6. \A j \in Nat : j \in S
  <2> HIDE DEF S
  <2> QED
    BY <1>3, <1>4, <1>5, AllNumbers, Zenon
<1>7. ASSUME NEW i \in 1..k PROVE i <= Len(w) /\ w[i] = pos[i]
  <2>1. PICK j \in Nat : j + 1 = i
    <3>1. i - 1 \in Nat /\ (i - 1) + 1 = i
      OBVIOUS
    <3> QED
      BY <3>1
  <2>2. j \in S
    BY <1>6
  <2>3. j + 1 <= k
    BY <2>1
  <2>4. j + 1 <= Len(w) /\ w[j + 1] = pos[j + 1]
    BY <2>2, <2>3
  <2> QED
    BY <2>1, <2>4
<1> QED
  BY <1>7 DEF Begun

(* A walk over the tags of a packet is the beginning of one that believes  *)
(* the packet to be longer.                                                *)
LEMMA WalkGoesOn ==
  ASSUME NEW n \in Nat, NEW b \in Area(n), NEW s \in 0..n
  PROVE  Begun(TagPackets(Packet(b, n)), TagPackets(Packet(b, s)), Len(TagPackets(Packet(b, s))))
<1>1. n \in 0..n
  OBVIOUS
<1>2. PICK w, v, G, H, step, more :
         /\ w = TagPackets(Packet(b, s)) /\ v = TagPackets(Packet(b, n))
         /\ G = Fitting(Packet(b, s)) /\ H = Fitting(Packet(b, n))
         /\ step = NextTag(Packet(b, s)) /\ more = NextTag(Packet(b, n))
  OBVIOUS
<1>3. Path(w, IF 4 \in G THEN 4 ELSE NULL, step, G) /\ Path(v, IF 4 \in H THEN 4 ELSE NULL, more, H)
  BY <1>1, <1>2, TagsFacts
<1>4. PICK m \in Nat : m = Len(w)
  BY <1>3 DEF Path
<1>5. ASSUME NEW tag \in G PROVE tag \in H /\ tag \in Nat /\ tag \in 0..s /\ tag \in 0..n
  <2>1. tag \in Int /\ tag \in 0..s
    BY <1>2, PacketIs DEF Fitting
  <2>2. /\ tag \in Nat /\ tag + 4 <= s
        /\ tag + 4 + getTagLength(Packet(b, s), tag) <= s
    BY <1>2, <2>1, FittingTag
  <2>3. /\ getTagLength(Packet(b, s), tag) = getTagLength(Packet(b, n), tag)
        /\ getTagLength(Packet(b, s), tag) \in Nat
    BY <2>2, TagNumbers
  <2>4. PICK x \in Nat : x = getTagLength(Packet(b, n), tag) /\ tag + 4 + x <= n
    BY <2>2, <2>3
  <2> QED
    BY <1>1, <1>2, <2>1, <2>2, <2>4, FittingTag
<1>6. ASSUME NEW tag \in G, step[tag] # NULL PROVE more[tag] = step[tag]
  <2>1. step[tag] = getNextTagPacket(Packet(b, s), tag) /\ more[tag] = getNextTagPacket(Packet(b, n), tag)
    BY <1>2, <1>5, PacketIs DEF NextTag
  <2>2. PICK after : after = tag + getTotalLength(Packet(b, s), tag)
    OBVIOUS
  <2>3. tag + 4 <= n
    <3>1. tag \in Int /\ tag \in Nat
      BY <1>5
    <3>2. tag + 4 <= s
      BY <1>2, <3>1, FittingTag
    <3> QED
      BY <3>1, <3>2
  <2>4. /\ getTotalLength(Packet(b, n), tag) = getTotalLength(Packet(b, s), tag)
        /\ getTotalLength(Packet(b, s), tag) \in Nat
    BY <1>5, <2>3, TagNumbers
  <2>5. step[tag] = after /\ tagPacketFitsIntoUdp(Packet(b, s), after)
    BY <1>6, <2>1, <2>2 DEF getNextTagPacket
  <2>6. after \in Nat /\ after + 4 <= s
    <3>1. after \in Nat
      BY <1>5, <2>2, <2>4
    <3>2. s >= after + 4
      BY <2>5, PacketIs DEF tagPacketFitsIntoUdp, TAG_HEADER_LENGTH
    <3> QED
      BY <3>1, <3>2
  <2>7. after \in G
    BY <1>2, <2>5, <2>6, PacketIs DEF Fitting
  <2>8. after \in H /\ tag \in H
    BY <1>5, <2>7
  <2>9. tagPacketFitsIntoUdp(Packet(b, n), after) /\ tagPacketFitsIntoUdp(Packet(b, n), tag)
    BY <1>2, <2>8 DEF Fitting
  <2> QED
    BY <2>1, <2>2, <2>4, <2>5, <2>9 DEF getNextTagPacket
<1>7. CASE m = 0
  BY <1>2, <1>4, <1>7 DEF Begun
<1>8. CASE m # 0
  <2>1. 4 \in G /\ w[1] = 4 /\ w \in Seq(G) /\ \A i \in 1..(m - 1) : w[i + 1] = step[w[i]]
    <3>1. 4 \in G
      BY <1>3, <1>4, <1>8 DEF Path
    <3>2. 4 # NULL
      BY DEF NULL
    <3> QED
      BY <1>3, <1>4, <3>1, <3>2 DEF Path
  <2>2. 4 \in H /\ 4 # NULL
    BY <1>5, <2>1 DEF NULL
  <2>3. Path(v, 4, more, H)
    BY <1>3, <2>2
  <2>4. ASSUME NEW i \in 1..(m - 1) PROVE more[w[i]] = w[i + 1] /\ w[i + 1] # NULL
    <3>1. i \in 1..Len(w) /\ i + 1 \in 1..Len(w)
      BY <1>4
    <3>2. w[i] \in G /\ w[i + 1] \in G
      BY <2>1, <3>1, ElementTyped
    <3>3. w[i + 1] # NULL
      BY <1>5, <3>2 DEF NULL
    <3> QED
      BY <1>6, <2>1, <3>2, <3>3
  <2>5. Steps(more, w, m)
    BY <2>4 DEF Steps
  <2>6. Begun(v, w, m)
    BY <2>1, <2>2, <2>3, <2>5, PathFollows
  <2> QED
    BY <1>2, <1>4, <2>6
<1> QED
  BY <1>7, <1>8

(* A reader that believes a packet to be longer finds the same tags if the *)
(* packet was received with its end-of-data tag.                           *)
LEMMA SameTags ==
  ASSUME NEW n \in Nat, NEW b \in Area(n), NEW s \in 0..n,
         findEodTagPacket(Packet(b, s)) # NULL, NEW id
  PROVE  findTagPacket(Packet(b, n), id) = findTagPacket(Packet(b, s), id)
<1>1. PICK w, v : w = TagPackets(Packet(b, s)) /\ v = TagPackets(Packet(b, n))
  OBVIOUS
<1>2. PICK G, H : w \in Seq(G) /\ v \in Seq(H)
  <2>1. n \in 0..n
    OBVIOUS
  <2>2. w \in Seq(Fitting(Packet(b, s))) /\ v \in Seq(Fitting(Packet(b, n)))
    BY <1>1, <2>1, TagsFacts DEF Path
  <2> QED
    BY <2>2
<1>3. PICK k, m \in Nat : k = Len(w) /\ m = Len(v)
  BY <1>2
<1>4. Begun(v, w, k)
  BY <1>1, <1>3, WalkGoesOn
<1>5. \A i \in 1..k : i <= m /\ v[i] = w[i]
  BY <1>3, <1>4 DEF Begun
<1>6. \A tag : /\ getTagId(Packet(b, s), tag) = getTagId(Packet(b, n), tag)
               /\ EndOfData(Packet(b, s), tag) <=> EndOfData(Packet(b, n), tag)
  BY PacketIs DEF EndOfData, getTagId, getTagLength
<1>7. PICK e \in 1..k : EndOfData(Packet(b, s), w[e])
  <2>1. {i \in DOMAIN w : EndOfData(Packet(b, s), w[i])} # {}
    <3>1. {i \in DOMAIN w : EndOfData(Packet(b, s), w[i])} = {} => findEodTagPacket(Packet(b, s)) = NULL
      BY <1>1 DEF findEodTagPacket, FirstStop
    <3> QED
      BY <3>1
  <2>2. DOMAIN w = 1..k
    BY <1>2, <1>3
  <2> QED
    BY <2>1, <2>2
<1>8. PICK S, T : S = Sought(Packet(b, s), id) /\ T = Sought(Packet(b, n), id)
  OBVIOUS
<1>9. \A i : i \in S <=> /\ i \in 1..k /\ getTagId(Packet(b, s), w[i]) = id
                          /\ \A j \in 1..(i - 1) : ~EndOfData(Packet(b, s), w[j])
  BY <1>1, <1>2, <1>3, <1>8 DEF Sought
<1>10. \A i : i \in T <=> /\ i \in 1..m /\ getTagId(Packet(b, n), v[i]) = id
                           /\ \A j \in 1..(i - 1) : ~EndOfData(Packet(b, n), v[j])
  BY <1>1, <1>2, <1>3, <1>8 DEF Sought
<1>11. ASSUME NEW i \in 1..k
       PROVE  (\A j \in 1..(i - 1) : ~EndOfData(Packet(b, s), w[j]))
                  <=> (\A j \in 1..(i - 1) : ~EndOfData(Packet(b, n), v[j]))
  <2>1. \A j \in 1..(i - 1) : j \in 1..k
    BY <1>3
  <2>2. \A j \in 1..(i - 1) : EndOfData(Packet(b, s), w[j]) <=> EndOfData(Packet(b, n), v[j])
    BY <1>5, <1>6, <2>1
  <2> QED
    BY <2>2
<1>12. ASSUME NEW i \in 1..k PROVE i \in S <=> i \in T
  <2>1. i \in 1..m /\ v[i] = w[i]
    BY <1>3, <1>5
  <2> QED
    BY <1>6, <1>9, <1>10, <1>11, <2>1
<1>13. ASSUME NEW i \in T PROVE i \in 1..k
  <2>1. i \in 1..m /\ \A j \in 1..(i - 1) : ~EndOfData(Packet(b, n), v[j])
    BY <1>10
  <2>2. EndOfData(Packet(b, n), v[e]) /\ e \in Nat
    BY <1>5, <1>6, <1>7
  <2>3. e \notin 1..(i - 1)
    BY <2>1, <2>2
  <2> QED
    BY <1>3, <1>7, <2>1, <2>3
<1>14. S = T
  BY <1>9, <1>12, <1>13
<1>15. S \in SUBSET Nat
  BY <1>3, <1>9
<1>16. FirstStop(v, S) = FirstStop(w, S)
  <2>1. CASE S = {}
    BY <2>1 DEF FirstStop
  <2>2. CASE S # {}
    <3>1. PICK x \in S : FirstStop(w, S) = w[x] /\ \A j \in S : x <= j
      BY <1>15, <2>2, FirstStopIs
    <3>2. PICK y \in S : FirstStop(v, S) = v[y] /\ \A j \in S : y <= j
      BY <1>15, <2>2, FirstStopIs
    <3>3. x = y
      BY <1>15, <3>1, <3>2
    <3> QED
      BY <1>5, <1>9, <3>1, <3>2, <3>3
  <2> QED
    BY <2>1, <2>2
<1> QED
  BY <1>1, <1>8, <1>14, <1>16, FindIs

(* By the invariant the readers find the same tags in a whole packet       *)
(* whatever lies behind it.                                                *)
LEMMA WholeIgnoresLeftovers ==
  ASSUME PacketsInv, Whole, sent.kind # "datagram"
  PROVE  \A id \in {672, 16, 32, 48} : findTagPacket(WholeArea, id) = findTagPacket(Received, id)
<1>2. /\ SentPacket(rx, sent, size, next) /\ size \in 0..BufferSize /\ sent.kind \in KindsSent
      /\ nbytes = size
  BY WholeIs
<1>3. PICK b, s, goes : b = rx /\ s = sent /\ goes = next
  OBVIOUS
<1>4. PICK z \in 0..BufferSize : z = size
  BY <1>2
<1>5. SentPacket(b, s, z, goes) /\ s.kind \in KindsSent /\ s.kind # "datagram"
  BY <1>2, <1>3, <1>4
<1>6. WholeArea = Packet(b, BufferSize) /\ Received = Packet(b, z)
  BY <1>2, <1>3, <1>4 DEF WholeArea, Received
<1>7. z \in {z, BufferSize} /\ BufferSize \in {z, BufferSize}
  OBVIOUS
<1>8. CASE s.kind \in Data2Kinds
  <2>1. Places(b, z, 4, 12, NULL, NULL) /\ Places(b, BufferSize, 4, 12, NULL, NULL)
    BY <1>5, <1>7, <1>8, WholePlaces
  <2> QED
    BY <1>6, <2>1 DEF Places
<1>9. CASE s.kind = "multicast_request"
  <2>1. Places(b, z, 4, NULL, 12, NULL) /\ Places(b, BufferSize, 4, NULL, 12, NULL)
    BY <1>5, <1>7, <1>9, WholePlaces
  <2> QED
    BY <1>6, <2>1 DEF Places
<1>10. CASE s.kind = "multicast_response"
  <2>1. Places(b, z, 4, 18, 26, 34) /\ Places(b, BufferSize, 4, 18, 26, 34)
    BY <1>5, <1>7, <1>10, WholePlaces
  <2> QED
    BY <1>6, <2>1 DEF Places
<1> QED
  BY <1>5, <1>8, <1>9, <1>10, WholePlaces

(* So do they in what was received with its end-of-data tag.               *)
LEMMA LeftoversIgnoredFollows == PacketsInv => LeftoversIgnored
<1>1. ASSUME PacketsInv, stage = "received", findEodTagPacket(Received) # NULL, NEW id
      PROVE  findTagPacket(WholeArea, id) = findTagPacket(Received, id)
  <2>1. rx \in Area(BufferSize) /\ size \in 0..BufferSize /\ nbytes \in 0..size /\ BufferSize \in Nat
    BY <1>1, TypeOf, BufferIs DEF PacketsInv
  <2>2. PICK b \in Area(BufferSize), m \in 0..BufferSize : b = rx /\ m = nbytes
    BY <2>1
  <2>3. WholeArea = Packet(b, BufferSize) /\ Received = Packet(b, m)
    BY <2>2 DEF WholeArea, Received
  <2> QED
    BY <1>1, <2>1, <2>3, SameTags
<1> QED
  BY <1>1, WholeIgnoresLeftovers
     DEF LeftoversIgnored, sma_tag_group_id, sma_tag_data2, sma_tag_discovery, sma_tag_ip_address

(* Readers of tags, registers and obis elements look at no bytes behind    *)
(* the ones that recvfrom returned, even when the packet was cut off or    *)
(* somebody made it up, but for data2 tags that are too short for their    *)
(* own header, whose size wraps around (SpeedwireInverterProtocol.cpp:35,  *)
(* SpeedwireEmeterProtocol.cpp:40), and the first obis element of made up  *)
(* packets. What an earlier packet left in the buffer changes nothing that *)
(* is found if an end-of-data tag was received.                            *)
THEOREM ReadersStayInsideAlways == PacketsSpec => []ReadersStayInside
<1>1. PacketsInv => ReadersStayInside
  BY ReadsInsideFollows, LeftoversIgnoredFollows DEF ReadersStayInside, PacketsInv
<1> QED
  BY <1>1, PacketsInductive, PTL

-----------------------------------------------------------------------------
(* Fields are read back                                                    *)

(* The smaller one of two numbers.                                         *)
LEMMA MinOfTwo ==
  ASSUME NEW a \in Nat, NEW k \in Nat
  PROVE  Min({a, k}) = IF a <= k THEN a ELSE k
<1>1. PICK m \in Nat : m = (IF a <= k THEN a ELSE k)
  OBVIOUS
<1>2. m \in {a, k} /\ \A y \in {a, k} : m <= y
  BY <1>1
<1>3. \A x \in {a, k} : (\A y \in {a, k} : x <= y) => x = m
  BY <1>1
<1> QED
  BY <1>1, <1>2, <1>3 DEF Min

(* The payload of a data2 packet that was received as a whole.             *)
LEMMA WholePayload ==
  ASSUME NEW b, NEW s, s.kind \in Data2Kinds, NEW z \in 0..BufferSize, NEW goes, SentPacket(b, s, z, goes)
  PROVE  /\ Data2(Packet(b, z)) = 12 /\ getTagLength(Packet(b, z), 12) = z - 20
         /\ getProtocolID(Packet(b, z)) = ProtocolOf(s.kind)
         /\ Payload(Packet(b, z)).udp = b /\ Payload(Packet(b, z)).at = PayloadAt(ProtocolOf(s.kind))
         /\ Payload(Packet(b, z)).size = (z - 4) - PayloadAt(ProtocolOf(s.kind))
<1>0. z - 20 \in Nat /\ z - 20 >= 12
  BY Data2Sent
<1>1. PICK l \in Nat : l = z - 20 /\ l >= 12 /\ z = 20 + l
  BY <1>0, BufferIs
<1>2. b \in Area(BufferSize) /\ Headed(b, l, ProtocolOf(s.kind))
  BY <1>1, Data2Sent
<1>3. BufferSize \in Nat /\ 20 + l <= BufferSize /\ z \in (20 + l)..BufferSize /\ l >= 4
  BY <1>1, BufferIs
<1>4. /\ Data2(Packet(b, z)) = 12 /\ getTagLength(Packet(b, z), 12) = l
      /\ getProtocolID(Packet(b, z)) = ProtocolOf(s.kind)
      /\ Payload(Packet(b, z)).udp = b /\ Payload(Packet(b, z)).at = PayloadAt(ProtocolOf(s.kind))
      /\ Payload(Packet(b, z)).size = (16 + l) - PayloadAt(ProtocolOf(s.kind))
  BY <1>2, <1>3, Data2PayloadIs
<1>5. 16 + l = z - 4
  BY <1>1
<1> QED
  BY <1>1, <1>4, <1>5

(* The protocol of each kind, and where its payload is.                    *)
LEMMA ProtocolAt ==
  /\ \A kind \in Requests \cup Replies :
        ProtocolOf(kind) = sma_inverter_protocol_id /\ PayloadAt(ProtocolOf(kind)) = 20
  /\ ProtocolOf("encryption") = sma_encryption_protocol_id /\ PayloadAt(ProtocolOf("encryption")) = 18
  /\ \A kind \in Meters : ProtocolOf(kind) = MeterProtocol(kind)
  /\ ProtocolOf("emeter") = sma_emeter_protocol_id
  /\ ProtocolOf("extended_emeter") = sma_extended_emeter_protocol_id
<1>1. ASSUME NEW kind \in Requests \cup Replies
      PROVE  ProtocolOf(kind) = sma_inverter_protocol_id /\ PayloadAt(ProtocolOf(kind)) = 20
  <2>1. ProtocolOf(kind) = sma_inverter_protocol_id
    BY KindsApart DEF ProtocolOf
  <2> QED
    BY <2>1 DEF PayloadAt
<1>2. ProtocolOf("encryption") = sma_encryption_protocol_id
  BY KindsApart DEF ProtocolOf
<1>3. PayloadAt(ProtocolOf("encryption")) = 18
  BY <1>2 DEF PayloadAt, sma_encryption_protocol_id, sma_extended_emeter_protocol_id, sma_inverter_protocol_id
<1>4. ASSUME NEW kind \in Meters PROVE ProtocolOf(kind) = MeterProtocol(kind)
  BY KindsApart DEF ProtocolOf
<1>5. "emeter" \in Meters /\ "extended_emeter" \in Meters
  BY DEF Meters
<1> QED
  BY <1>1, <1>2, <1>3, <1>4, <1>5 DEF MeterProtocol

(* Coding and decoding of one character.                                   *)
Coding(x, base) == (x + base) % 256
Uncoded(y, base) == (y + 256 - base) % 256

(* Adding and subtracting the pattern modulo 256 cancel out.               *)
LEMMA CodeBack ==
  ASSUME NEW x \in Byte, NEW base \in {136, 187}
  PROVE  Uncoded(Coding(x, base), base) = x
<1> USE DEF Coding, Uncoded
<1>1. x \in 0..255
  BY DEF Byte
<1>2. CASE x + base < 256
  BY <1>1, <1>2
<1>3. CASE x + base >= 256
  BY <1>1, <1>3
<1> QED
  BY <1>1, <1>2, <1>3

(* The first n bytes of a sequence, filled up with zeros to twelve.        *)
FilledUp(all, password, n) ==
    /\ password \in Seq(Byte) /\ n \in 0..12 /\ n <= Len(password)
    /\ all = SubSeq(password, 1, n) \o Zeros(12 - n)

TwelveBytes(all, password, n) ==
    /\ all \in Seq(Byte) /\ Len(all) = 12
    /\ \A i \in 1..n : all[i] = password[i]
    /\ \A i \in (n + 1)..12 : all[i] = 0

(* The password filled up with zeros, or cut off, to twelve bytes.         *)
LEMMA Padded ==
  ASSUME NEW password, NEW n, NEW all, FilledUp(all, password, n)
  PROVE  TwelveBytes(all, password, n)
<1> USE DEF FilledUp, TwelveBytes
<1>1. PICK front : front = SubSeq(password, 1, n)
  OBVIOUS
<1>2. \A i \in 1..n : password[i] \in Byte
  BY ElementTyped
<1>3. /\ SubSeq(password, 1, n) \in Seq(Byte)
      /\ Len(SubSeq(password, 1, n)) = IF 1 <= n THEN n - 1 + 1 ELSE 0
      /\ \A i \in 1 .. n - 1 + 1 : SubSeq(password, 1, n)[i] = password[1 + i - 1]
  BY <1>2, SubSeqProperties
<1>4. front \in Seq(Byte) /\ Len(front) = n /\ \A i \in 1..n : front[i] = password[i]
  BY SMTT(30), <1>1, <1>3
<1>5. PICK rest \in Nat : rest = 12 - n
  OBVIOUS
<1>6. PICK zeros : zeros = Zeros(rest)
  OBVIOUS
<1>7. zeros \in Seq(Byte) /\ Len(zeros) = rest /\ \A i \in 1..rest : zeros[i] = 0
  BY <1>6, ZerosTyped
<1>8. all = front \o zeros
  BY <1>1, <1>5, <1>6
<1>9. /\ all \in Seq(Byte) /\ Len(all) = Len(front) + Len(zeros)
      /\ Begins(all, front, Len(front)) /\ Holds(all, Len(front), zeros)
  BY <1>4, <1>7, <1>8, JoinedOn
<1>10. \A i \in 1..n : all[i] = password[i]
  BY <1>4, <1>9 DEF Begins
<1>11. ASSUME NEW i \in (n + 1)..12 PROVE all[i] = 0
  <2>1. PICK j \in 1..rest : j = i - n
    BY <1>5
  <2>2. all[n + j] = zeros[j]
    BY <1>4, <1>7, <1>9 DEF Holds
  <2>3. n + j = i /\ j \in 1..rest
    BY <2>1
  <2> QED
    BY <1>7, <2>2, <2>3
<1>12. Len(all) = 12
  BY <1>4, <1>5, <1>7, <1>9
<1> QED
  BY <1>9, <1>10, <1>11, <1>12

(* Each byte of an encoded password decoded.                               *)
LEMMA Decoded ==
  ASSUME NEW password \in Seq(Byte), NEW user, NEW i \in 1..12
  PROVE  Uncoded(getEncodedPassword(user, password)[i], Pattern(user)) =
             IF i <= Len(password) THEN password[i] ELSE 0
<1>1. PICK base \in {136, 187} : base = Pattern(user)
  BY DEF Pattern
<1>2. PICK x : x = (IF i <= Len(password) THEN password[i] ELSE 0)
  OBVIOUS
<1>3. x \in Byte
  <2>1. CASE i <= Len(password)
    BY <1>2, <2>1, ElementTyped
  <2>2. CASE ~(i <= Len(password))
    BY <1>2, <2>2 DEF Byte
  <2> QED
    BY <2>1, <2>2
<1>4. getEncodedPassword(user, password)[i] = Coding(x, base)
  BY <1>1, <1>2 DEF getEncodedPassword, Coding
<1>5. Uncoded(Coding(x, base), base) = x
  BY <1>1, <1>3, CodeBack
<1> QED
  BY <1>1, <1>2, <1>4, <1>5

(* What a device reads in a login is what was coded.                       *)
CodeOf(code, user, password) == \A i \in 1..12 : code[i] = getEncodedPassword(user, password)[i]

TextOf(text, code, user) == text = [i \in 1..12 |-> Uncoded(code[i], Pattern(user))]

(* The decoded text is the password, cut off at twelve bytes and filled up *)
(* with zeros.                                                             *)
LEMMA CodeKept ==
  ASSUME NEW password \in Seq(Byte), NEW user, NEW code, CodeOf(code, user, password),
         NEW text, TextOf(text, code, user), NEW n, n = Min({12, Len(password)})
  PROVE  text = SubSeq(password, 1, n) \o Zeros(12 - n)
<1>1. PICK k \in Nat : k = Len(password)
  OBVIOUS
<1>2. n = IF 12 <= k THEN 12 ELSE k
  BY <1>1, MinOfTwo
<1>3. n \in 0..12 /\ n <= Len(password) /\ (k <= 12 => n = k)
  BY <1>1, <1>2
<1>4. PICK all : all = SubSeq(password, 1, n) \o Zeros(12 - n)
  OBVIOUS
<1>5. /\ all \in Seq(Byte) /\ Len(all) = 12
      /\ \A i \in 1..n : all[i] = password[i]
      /\ \A i \in (n + 1)..12 : all[i] = 0
  <2>1. FilledUp(all, password, n)
    BY <1>3, <1>4 DEF FilledUp
  <2>2. TwelveBytes(all, password, n)
    BY <2>1, Padded
  <2> QED
    BY <2>2 DEF TwelveBytes
<1>6. ASSUME NEW i \in 1..12 PROVE text[i] = all[i]
  <2>1. code[i] = getEncodedPassword(user, password)[i]
    BY DEF CodeOf
  <2>2. text[i] = Uncoded(getEncodedPassword(user, password)[i], Pattern(user))
    BY <2>1 DEF TextOf
  <2>3. text[i] = IF i <= Len(password) THEN password[i] ELSE 0
    BY <2>2, Decoded
  <2>4. CASE i <= n
    <3>1. i \in 1..n /\ i <= Len(password)
      BY <1>1, <1>3, <2>4
    <3> QED
      BY <1>5, <2>3, <3>1
  <2>5. CASE i > n
    <3>1. i \in (n + 1)..12 /\ ~(i <= Len(password))
      BY <1>1, <1>2, <2>5
    <3> QED
      BY <1>5, <2>3, <3>1
  <2> QED
    BY <1>3, <2>4, <2>5
<1>7. text = [i \in 1..12 |-> all[i]]
  BY <1>6 DEF TextOf
<1>8. all = [i \in 1..12 |-> all[i]]
  BY <1>5
<1> QED
  BY <1>4, <1>7, <1>8

InverterFieldsKept(q, s) ==
    /\ \A f \in DOMAIN s.fields : getField(q, f) = s.fields[f]
    /\ s.kind = "login" => PasswordKept(q, s.fields["FirstRegisterID"], s.parts[1])

(* The fields of an inverter packet are read as they were sent.            *)
LEMMA InverterKept ==
  ASSUME NEW b, NEW s, s.kind \in Requests \cup Replies, NEW z \in 0..BufferSize, NEW goes,
         SentPacket(b, s, z, goes), NEW q, q = Payload(Packet(b, z))
  PROVE  InverterFieldsKept(q, s)
<1>1. InverterSent(b, s, z - 20)
  BY DEF SentPacket
<1>2. q.udp = b /\ q.at = 20
  <2>1. s.kind \in Data2Kinds
    BY DEF Data2Kinds
  <2>2. q.udp = b /\ q.at = PayloadAt(ProtocolOf(s.kind))
    BY <2>1, WholePayload
  <2> QED
    BY <2>2, ProtocolAt
<1>3. \A f \in DOMAIN s.fields : getField(q, f) = s.fields[f]
  BY <1>1, <1>2 DEF InverterSent, InverterPacket, Carries, getField
<1>4. ASSUME s.kind = "login" PROVE PasswordKept(q, s.fields["FirstRegisterID"], s.parts[1])
  <2>1. PICK password \in Seq(Byte) : password = s.parts[1]
    BY <1>1, <1>4 DEF InverterSent, Coded
  <2>2. PICK user : user = s.fields["FirstRegisterID"]
    OBVIOUS
  <2>3. \A i \in 1..12 : b[61 + i] = getEncodedPassword(user, password)[i]
    BY <1>1, <1>4, <2>1, <2>2 DEF InverterSent, Coded
  <2>4. PICK code : code = ReadBytes(b, q.at + sma_data_offset + 8, 12)
    OBVIOUS
  <2>5. CodeOf(code, user, password)
    <3>1. ASSUME NEW i \in 1..12 PROVE code[i] = getEncodedPassword(user, password)[i]
      <4>1. (q.at + sma_data_offset + 8) + i - 1 = 61 + i
        BY <1>2 DEF sma_data_offset
      <4>2. code[i] = b[(q.at + sma_data_offset + 8) + i - 1]
        BY <2>4 DEF ReadBytes
      <4>3. code[i] = b[61 + i]
        BY <4>1, <4>2
      <4> QED
        BY <2>3, <4>3
    <3> QED
      BY <3>1 DEF CodeOf
  <2>6. PICK n : n = Min({12, Len(password)})
    OBVIOUS
  <2>7. PICK text : text = [i \in 1..12 |-> (code[i] + 256 - Pattern(user)) % 256]
    OBVIOUS
  <2>8. TextOf(text, code, user)
    BY <2>7 DEF TextOf, Uncoded
  <2>9. text = SubSeq(password, 1, n) \o Zeros(12 - n)
    BY <2>5, <2>6, <2>8, CodeKept
  <2> QED
    BY ZenonT(60), <1>2, <2>1, <2>2, <2>4, <2>6, <2>7, <2>9 DEF PasswordKept
<1> QED
  BY <1>3, <1>4 DEF InverterFieldsKept

(* The fields of an emeter packet are read as they were sent.              *)
LEMMA MeterKept ==
  ASSUME NEW b, NEW s, s.kind \in Meters, NEW z \in 0..BufferSize, NEW goes,
         SentPacket(b, s, z, goes), NEW q, q = Payload(Packet(b, z))
  PROVE  \A f \in DOMAIN s.fields : getEmeterField(q, f) = s.fields[f]
<1>1. MeterSent(b, s, z - 20, goes)
  BY DEF SentPacket
<1>2. q.udp = b /\ q.at = PayloadAt(MeterProtocol(s.kind))
  <2>1. s.kind \in Data2Kinds
    BY DEF Data2Kinds
  <2>2. q.udp = b /\ q.at = PayloadAt(ProtocolOf(s.kind))
    BY <2>1, WholePayload
  <2> QED
    BY <2>2, ProtocolAt
<1> QED
  BY <1>1, <1>2 DEF MeterSent, MeterPacket, getEmeterField

(* What SubSeq takes from the beginning of a sequence of bytes.            *)
Opening(t, s, n) == t \in Seq(Byte) /\ Len(t) = n /\ \A i \in 1..n : t[i] = s[i]

(* The first bytes of a sequence.                                          *)
LEMMA FirstOnes ==
  ASSUME NEW s \in Seq(Byte), NEW n \in Nat, n <= Len(s)
  PROVE  Opening(SubSeq(s, 1, n), s, n)
<1>1. PICK k \in Nat : k = Len(s)
  OBVIOUS
<1>2. \A i \in 1..n : i \in 1..Len(s)
  BY <1>1
<1>3. \A i \in 1..n : s[i] \in Byte
  BY <1>2, ElementTyped
<1>4. /\ SubSeq(s, 1, n) \in Seq(Byte)
      /\ Len(SubSeq(s, 1, n)) = IF 1 <= n THEN n - 1 + 1 ELSE 0
      /\ \A i \in 1 .. n - 1 + 1 : SubSeq(s, 1, n)[i] = s[1 + i - 1]
  BY <1>3, SubSeqProperties
<1> QED
  BY <1>4 DEF Opening

(* The seed as it is set: cut or filled up with zeros to sixteen bytes.    *)
SeedIn(field, seed) ==
    /\ field \in Seq(Byte) /\ Len(field) = 16
    /\ \A i \in 1..16 : field[i] = IF i <= Len(seed) THEN seed[i] ELSE 0

(* The first sixteen bytes of the seed are at the beginning of its field.  *)
LEMMA PrefixKept ==
  ASSUME NEW seed \in Seq(Byte), NEW field, SeedIn(field, seed)
  PROVE  IsPrefix(SubSeq(seed, 1, Min({16, Len(seed)})), field)
<1>0. field \in Seq(Byte) /\ Len(field) = 16
  BY DEF SeedIn
<1>1. PICK k \in Nat : k = Len(seed)
  OBVIOUS
<1>2. PICK n \in Nat : n = Min({16, Len(seed)}) /\ n <= 16 /\ n <= Len(seed)
  <2>1. PICK a \in Nat : a = 16
    OBVIOUS
  <2>2. Min({a, k}) = IF a <= k THEN a ELSE k
    BY MinOfTwo
  <2>3. PICK m \in Nat : m = Min({a, k})
    BY <2>2
  <2>4. m <= 16 /\ m <= k
    BY <2>1, <2>2, <2>3
  <2>5. m = Min({16, Len(seed)})
    BY <1>1, <2>1, <2>3
  <2> QED
    BY <1>1, <2>4, <2>5
<1>3. PICK front : front = SubSeq(seed, 1, n)
  OBVIOUS
<1>4. Opening(front, seed, n)
  BY <1>2, <1>3, FirstOnes
<1>5. PICK other : other = SubSeq(field, 1, n)
  OBVIOUS
<1>6. Opening(other, field, n)
  <2>1. n <= Len(field)
    BY <1>0, <1>2
  <2> QED
    BY <1>0, <1>5, <2>1, FirstOnes
<1>7. PICK again : again = SubSeq(front, 1, n)
  OBVIOUS
<1>8. Opening(again, front, n)
  <2>1. front \in Seq(Byte) /\ n <= Len(front)
    BY <1>4 DEF Opening
  <2> QED
    BY <1>7, <2>1, FirstOnes
<1>9. \A i \in 1..n : again[i] = other[i]
  <2>1. \A i \in 1..n : i \in 1..16 /\ i <= Len(seed)
    BY <1>2
  <2> QED
    BY ZenonT(60), <1>4, <1>6, <1>8, <2>1 DEF Opening, SeedIn
<1>10. again = other
  BY <1>6, <1>8, <1>9, SeqEqual DEF Opening
<1>11. n <= Len(field) /\ Len(front) = n
  BY <1>0, <1>2, <1>4 DEF Opening
<1> QED
  BY <1>2, <1>3, <1>5, <1>7, <1>10, <1>11 DEF IsPrefix

(* The fields of an encryption packet are read as they were sent, but for  *)
(* SrcSerialNumber.                                                        *)
LEMMA EncryptionKept ==
  ASSUME NEW b, NEW s, s.kind = "encryption", NEW z \in 0..BufferSize, NEW goes,
         SentPacket(b, s, z, goes), NEW q, q = Payload(Packet(b, z))
  PROVE  /\ \A f \in DOMAIN s.fields \ {"SrcSerialNumber"} : getEncryptionField(q, f) = s.fields[f]
         /\ SeedKept(q, s.parts[1])
<1>1. z = 51 /\ EncryptionSent(b, s)
  BY DEF SentPacket
<1>2. q.udp = b /\ q.at = 18
  <2>1. s.kind \in Data2Kinds
    BY DEF Data2Kinds
  <2>2. q.udp = b /\ q.at = PayloadAt(ProtocolOf(s.kind))
    BY <2>1, WholePayload
  <2> QED
    BY <2>2, ProtocolAt
<1>3. \A f \in DOMAIN s.fields \ {"SrcSerialNumber"} : getEncryptionField(q, f) = s.fields[f]
  BY <1>1, <1>2 DEF EncryptionSent, EncryptionPacket, getEncryptionField
<1>4. PICK seed \in Seq(Byte) : seed = s.parts[1]
  BY <1>1 DEF EncryptionSent
<1>5. \A i \in 1..16 : b[30 + i] = IF i <= Len(seed) THEN seed[i] ELSE 0
  BY <1>1, <1>4 DEF EncryptionSent, EncryptionPacket
<1>6. PICK field : field = getString16(q, 0)
  OBVIOUS
<1>7. PICK w \in Nat : w = 16
  OBVIOUS
<1>8. field = ReadBytes(b, 31, w)
  <2>1. q.at + sma_encryption_data_offset + 0 = 31
    BY <1>2 DEF sma_encryption_data_offset
  <2> QED
    BY <1>2, <1>6, <1>7, <2>1 DEF getString16
<1>9. field \in [1..w -> Byte]
  <2>1. BufferSize \in Nat /\ 31 \in Nat /\ 31 + w <= BufferSize /\ b \in Area(BufferSize)
    BY <1>1, <1>7, BufferIs DEF EncryptionSent, EncryptionPacket
  <2> QED
    BY <1>8, <2>1, ReadTyped
<1>10. field \in Seq(Byte) /\ Len(field) = 16
  BY <1>7, <1>9, BytesOf
<1>11. ASSUME NEW i \in 1..16 PROVE field[i] = IF i <= Len(seed) THEN seed[i] ELSE 0
  <2>1. field[i] = b[31 + i - 1]
    BY <1>7, <1>8 DEF ReadBytes
  <2>2. 31 + i - 1 = 30 + i
    OBVIOUS
  <2> QED
    BY <1>5, <2>1, <2>2
<1>12. IsPrefix(SubSeq(seed, 1, Min({16, Len(seed)})), field)
  <2>1. SeedIn(field, seed)
    BY <1>10, <1>11 DEF SeedIn
  <2> QED
    BY <2>1, PrefixKept
<1> QED
  BY <1>3, <1>4, <1>6, <1>12 DEF SeedKept

(* The ip address of a discovery response is read as it was sent.          *)
LEMMA AddressKept ==
  ASSUME NEW b, NEW s, s.kind = "multicast_response", NEW z \in 0..BufferSize, NEW goes,
         SentPacket(b, s, z, goes), s.kind \in KindsSent
  PROVE  getIPv4Address(Packet(b, z)) = s.fields.ip
<1>1. PICK ip : ip = s.fields["ip"]
  OBVIOUS
<1>2. z = 57 /\ DiscoveryResponse(BufferSize, b, ip)
  BY <1>1 DEF SentPacket
<1>3. b \in Area(BufferSize) /\ Tagged(b, ResponseShape) /\ ip \in FourBytes
      /\ \A i \in 1..4 : b[37 + i] = ip[i]
  BY <1>2 DEF DiscoveryResponse
<1>4. PICK p : p = Packet(b, z)
  OBVIOUS
<1>5. findTagPacket(p, sma_tag_ip_address) = 34
  <2>1. z \in {57, BufferSize}
    BY <1>2
  <2> QED
    BY <1>2, <1>4, <2>1, ResponsePlaces DEF Places, sma_tag_ip_address
<1>6. getTagLength(p, 34) = 4
  <2>1. BufferSize \in Nat /\ 34 \in Nat /\ 34 + 4 <= BufferSize
    BY BufferIs
  <2>2. getTagLength(p, 34) = b[34] * 256 + b[34 + 1]
    BY <1>3, <1>4, <2>1, TagNumbers
  <2>3. Tag(b, 34, 48, 4)
    <3>1. /\ 5 \in DOMAIN ResponseShape /\ ResponseShape[5].at = 34 /\ ResponseShape[5].id = 48
          /\ ResponseShape[5].length = 4
      BY DEF ResponseShape
    <3> QED
      BY <1>3, <3>1 DEF Tagged
  <2> QED
    BY <2>2, <2>3 DEF Tag
<1>7. ReadBytes(b, 38, 4) = ip
  <2>1. PICK w \in Nat : w = 4
    OBVIOUS
  <2>2. ip \in [1..w -> Byte]
    BY <1>3, <2>1 DEF FourBytes
  <2>3. PICK at \in Nat : at = 38
    OBVIOUS
  <2>4. ASSUME NEW i \in 1..w PROVE b[(at + i) - 1] = ip[i]
    <3>1. (at + i) - 1 = 37 + i /\ i \in 1..4
      BY <2>1, <2>3
    <3> QED
      BY <1>3, <3>1
  <2>5. ReadBytes(b, at, w) = ip
    BY <2>2, <2>4 DEF ReadBytes
  <2> QED
    BY <2>1, <2>3, <2>5
<1>8. p.udp = b /\ 34 + 4 = 38 /\ 34 # NULL
  BY <1>4, PacketIs DEF NULL
<1> QED
  BY <1>1, <1>4, <1>5, <1>6, <1>7, <1>8 DEF getIPv4Address

(* The invariant makes the fields be read as they were sent.               *)
LEMMA FieldsKeptFollows == PacketsInv => FieldsKept
<1>1. SUFFICES ASSUME PacketsInv, Whole PROVE FieldsKept
  BY DEF FieldsKept
<1>2. /\ SentPacket(rx, sent, size, next) /\ size \in 0..BufferSize /\ sent.kind \in KindsSent
      /\ nbytes = size
  BY <1>1, WholeIs
<1>3. PICK b, s, goes : b = rx /\ s = sent /\ goes = next
  OBVIOUS
<1>4. PICK z \in 0..BufferSize : z = size
  BY <1>2
<1>5. SentPacket(b, s, z, goes) /\ s.kind \in KindsSent
  BY <1>2, <1>3, <1>4
<1>6. PICK q : q = Payload(Packet(b, z))
  OBVIOUS
<1>7. Received = Packet(b, z)
  BY <1>2, <1>3, <1>4 DEF Received
<1>8. CASE s.kind \in Requests \cup Replies
  <2>1. InverterFieldsKept(q, s)
    BY <1>5, <1>6, <1>8, InverterKept
  <2>2. s.kind # "encryption" /\ s.kind \notin Meters /\ s.kind # "multicast_response"
    BY <1>8, KindsApart
  <2> QED
    BY <1>3, <1>6, <1>7, <1>8, <2>1, <2>2 DEF FieldsKept, InverterFieldsKept
<1>9. CASE s.kind \in Meters
  <2>1. \A f \in DOMAIN s.fields : getEmeterField(q, f) = s.fields[f]
    BY <1>5, <1>6, <1>9, MeterKept
  <2>2. s.kind # "encryption" /\ s.kind \notin Requests \cup Replies /\ s.kind # "multicast_response"
    BY <1>9, KindsApart
  <2> QED
    BY <1>3, <1>6, <1>7, <1>9, <2>1, <2>2 DEF FieldsKept
<1>10. CASE s.kind = "encryption"
  <2>1. /\ \A f \in DOMAIN s.fields \ {"SrcSerialNumber"} : getEncryptionField(q, f) = s.fields[f]
        /\ SeedKept(q, s.parts[1])
    BY <1>5, <1>6, <1>10, EncryptionKept
  <2>2. s.kind \notin Meters /\ s.kind \notin Requests \cup Replies /\ s.kind # "multicast_response"
    BY <1>10, KindsApart
  <2> QED
    BY <1>3, <1>6, <1>7, <1>10, <2>1, <2>2 DEF FieldsKept
<1>11. CASE s.kind = "multicast_response"
  <2>1. getIPv4Address(Packet(b, z)) = s.fields.ip
    BY <1>5, <1>11, AddressKept
  <2>2. s.kind \notin Meters /\ s.kind \notin Requests \cup Replies /\ s.kind # "encryption"
    BY <1>11, KindsApart
  <2> QED
    BY <1>3, <1>6, <1>7, <1>11, <2>1, <2>2 DEF FieldsKept
<1>12. CASE s.kind = "multicast_request"
  <2>1. s.kind \notin Meters /\ s.kind \notin Requests \cup Replies /\ s.kind # "encryption"
        /\ s.kind # "multicast_response"
    BY <1>12, KindsApart
  <2> QED
    BY <1>3, <1>6, <1>7, <1>12, <2>1 DEF FieldsKept
<1>13. CASE s.kind = "datagram"
  <2>1. s.kind \notin Meters /\ s.kind \notin Requests \cup Replies /\ s.kind # "encryption"
        /\ s.kind # "multicast_response"
    BY <1>13, KindsApart
  <2> QED
    BY <1>3, <1>6, <1>7, <1>13, <2>1 DEF FieldsKept
<1> QED
  BY <1>5, <1>8, <1>9, <1>10, <1>11, <1>12, <1>13 DEF KindsSent, Discovery

(* Whatever is sent, every field that a reader has a getter for is read as *)
(* the setter was told it, in the offset, width and byte order that both   *)
(* sides agree on: ids, commands and registers of inverters, the password  *)
(* of a login, the header of emeters, the seed of encryption and the ip    *)
(* address of discovery.                                                   *)
THEOREM FieldsKeptAlways == PacketsSpec => []FieldsKept
  BY FieldsKeptFollows, PacketsInductive, PTL

-----------------------------------------------------------------------------
(* Packets are classified                                                  *)

FullData2(p) == isValidData2Packet(p, TRUE)
OfProtocol(p, protocol) == FullData2(p) /\ getProtocolID(p) = protocol

(* The protocol ids differ.                                                *)
LEMMA ProtocolsApart ==
  /\ sma_inverter_protocol_id # sma_emeter_protocol_id
  /\ sma_inverter_protocol_id # sma_extended_emeter_protocol_id
  /\ sma_inverter_protocol_id # sma_encryption_protocol_id
  /\ sma_emeter_protocol_id # sma_extended_emeter_protocol_id
  /\ sma_emeter_protocol_id # sma_encryption_protocol_id
  /\ sma_extended_emeter_protocol_id # sma_encryption_protocol_id
  BY DEF sma_inverter_protocol_id, sma_emeter_protocol_id, sma_extended_emeter_protocol_id,
         sma_encryption_protocol_id

(* What the predicates of the library ask, kind by kind.                   *)
LEMMA KindsSeen ==
  ASSUME NEW p
  PROVE  /\ Is(p, "multicast_request") <=> isValidDiscovery(p) /\ isMulticastRequestPacket(p)
         /\ Is(p, "multicast_response") <=> isValidDiscovery(p) /\ isMulticastResponsePacket(p)
         /\ Is(p, "unicast_request") <=> isUnicastRequestPacket(p)
         /\ Is(p, "unicast_response") <=> isUnicastResponsePacket(p)
         /\ Is(p, "inverter") <=> OfProtocol(p, sma_inverter_protocol_id)
         /\ Is(p, "emeter") <=> OfProtocol(p, sma_emeter_protocol_id)
         /\ Is(p, "extended_emeter") <=> OfProtocol(p, sma_extended_emeter_protocol_id)
         /\ Is(p, "encryption") <=> OfProtocol(p, sma_encryption_protocol_id)
<1>1. Is(p, "multicast_request") <=> isValidDiscovery(p) /\ isMulticastRequestPacket(p)
  BY Zenon DEF Is
<1>2. Is(p, "multicast_response") <=> isValidDiscovery(p) /\ isMulticastResponsePacket(p)
  BY Zenon DEF Is
<1>3. Is(p, "unicast_request") <=> isUnicastRequestPacket(p)
  BY Zenon DEF Is
<1>4. Is(p, "unicast_response") <=> isUnicastResponsePacket(p)
  BY Zenon DEF Is
<1>5. Is(p, "inverter") <=> OfProtocol(p, sma_inverter_protocol_id)
  BY Zenon DEF Is, OfProtocol, FullData2
<1>6. Is(p, "emeter") <=> OfProtocol(p, sma_emeter_protocol_id)
  BY Zenon DEF Is, OfProtocol, FullData2
<1>7. Is(p, "extended_emeter") <=> OfProtocol(p, sma_extended_emeter_protocol_id)
  BY Zenon DEF Is, OfProtocol, FullData2
<1>8. Is(p, "encryption") <=> OfProtocol(p, sma_encryption_protocol_id)
  BY Zenon DEF Is, OfProtocol, FullData2
<1> QED
  BY <1>1, <1>2, <1>3, <1>4, <1>5, <1>6, <1>7, <1>8

(* A packet with the signature is an SMA packet.                           *)
LEMMA SMAPacketIs ==
  ASSUME NEW n \in Nat, NEW b \in Area(n), Signed(b), NEW z \in 4..n
  PROVE  isSMAPacket(Packet(b, z))
<1>1. PICK w \in Nat : w = 4
  OBVIOUS
<1>2. PICK v : v = ReadBytes(b, 0, w)
  OBVIOUS
<1>3. v \in [1..w -> Byte]
  <2>1. 0 \in Nat /\ 0 + w <= n
    BY <1>1
  <2> QED
    BY <1>2, <2>1, ReadTyped
<1>4. v \in Seq(Byte) /\ Len(v) = 4
  BY <1>1, <1>3, BytesOf
<1>5. v[1] = 83 /\ v[2] = 77 /\ v[3] = 65 /\ v[4] = 0
  <2>1. v[1] = b[0] /\ v[2] = b[1] /\ v[3] = b[2] /\ v[4] = b[3]
    BY <1>1, <1>2 DEF ReadBytes
  <2> QED
    BY <2>1 DEF Signed
<1>6. PICK s : s = sma_signature
  OBVIOUS
<1>7. s \in Seq(Byte) /\ Len(s) = 4 /\ s[1] = 83 /\ s[2] = 77 /\ s[3] = 65 /\ s[4] = 0
  BY <1>6, SignatureIs DEF SignedBytes
<1>8. v = s
  <2>1. \A i \in 1..4 : i = 1 \/ i = 2 \/ i = 3 \/ i = 4
    OBVIOUS
  <2>2. \A i \in 1..Len(v) : v[i] = s[i]
    BY <1>4, <1>5, <1>7, <2>1
  <2> QED
    BY <1>4, <1>7, <2>2, SeqEqual
<1>9. PICK p : p = Packet(b, z)
  OBVIOUS
<1>10. p.udp = b /\ p.size >= 4
  BY <1>9, PacketIs
<1> QED
  BY <1>1, <1>2, <1>6, <1>8, <1>9, <1>10 DEF isSMAPacket

(* The full check of a packet that the library has written.                *)
LEMMA FullyChecked ==
  ASSUME NEW l \in Nat, l >= 4, NEW b \in Area(BufferSize), NEW protocol, Headed(b, l, protocol),
         NEW z, z = 20 + l, z <= BufferSize
  PROVE  FullData2(Packet(b, z)) /\ isSMAPacket(Packet(b, z))
<1>1. BufferSize \in Nat /\ z \in 0..BufferSize /\ z \in 4..BufferSize /\ z \in z..BufferSize
  BY BufferIs
<1>2. PICK p : p = Packet(b, z)
  OBVIOUS
<1>3. PICK t : t = Data2Shape(l)
  OBVIOUS
<1>4. Chain(t, z) /\ Tagged(b, t)
  BY <1>3, Shapes DEF Shape, Headed
<1>5. /\ Len(t) = 3 /\ t[1].at = 4 /\ t[1].length = 4 /\ t[2].at = 12 /\ t[2].length = l
      /\ t[3].at = 16 + l /\ t[3].length = 0 /\ EndsData(t[3])
  BY <1>3 DEF Data2Shape, EndsData
<1>6. \A i \in 1..3 : /\ t[i].at \in Fitting(p) /\ getTagLength(p, t[i].at) = t[i].length
                      /\ EndOfData(p, t[i].at) <=> EndsData(t[i])
  <2>1. ASSUME NEW i \in 1..3
        PROVE  /\ t[i].at \in Fitting(Packet(b, z)) /\ getTagLength(Packet(b, z), t[i].at) = t[i].length
               /\ EndOfData(Packet(b, z), t[i].at) <=> EndsData(t[i])
    <3>1. i \in 1..Len(t)
      BY <1>5
    <3> QED
      BY <1>1, <1>4, <3>1, ShapedTag
  <2> QED
    BY <1>2, <2>1
<1>7. 4 \in Fitting(p) /\ getTagLength(p, 4) = 4
  <2>1. 1 \in 1..3
    OBVIOUS
  <2> QED
    BY <1>5, <1>6, <2>1
<1>8. 12 \in Fitting(p) /\ getTagLength(p, 12) = l
  <2>1. 2 \in 1..3
    OBVIOUS
  <2> QED
    BY <1>5, <1>6, <2>1
<1>9. 16 + l \in Fitting(p) /\ getTagLength(p, 16 + l) = 0 /\ EndOfData(p, 16 + l)
  <2>1. 3 \in 1..3
    OBVIOUS
  <2> QED
    BY <1>5, <1>6, <2>1
<1>10. PICK eod \in Nat : eod = 16 + l
  OBVIOUS
<1>11. getNextTagPacket(p, 12) = eod
  <2>1. 12 + 4 + getTagLength(p, 12) = eod
    BY <1>8, <1>10
  <2>2. getNextTagPacket(p, 12) = IF 12 + 4 + getTagLength(p, 12) \in Fitting(p)
                                  THEN 12 + 4 + getTagLength(p, 12) ELSE NULL
    BY <1>1, <1>2, <1>8, NextTagIs
  <2> QED
    BY <1>9, <1>10, <2>1, <2>2
<1>12. getNextTagPacket(p, eod) = NULL
  <2>1. eod + 4 + getTagLength(p, eod) = z
    BY <1>9, <1>10
  <2>2. z \notin Fitting(p)
    <3>1. ~(z + 4 <= z) /\ z \in Int
      BY <1>1
    <3> QED
      BY <1>1, <1>2, <3>1, FittingTag
  <2>3. getNextTagPacket(p, eod) = IF eod + 4 + getTagLength(p, eod) \in Fitting(p)
                                   THEN eod + 4 + getTagLength(p, eod) ELSE NULL
    BY <1>1, <1>2, <1>9, <1>10, NextTagIs
  <2> QED
    BY <2>1, <2>2, <2>3
<1>13. getTotalLength(p, 4) = 8
  <2>1. 4 \in Nat /\ 4 + 4 <= BufferSize
    BY <1>1
  <2>2. getTotalLength(p, 4) = 4 + getTagLength(p, 4)
    BY <1>1, <1>2, <2>1, TagNumbers
  <2> QED
    BY <1>7, <2>2
<1>14. FullCheck(p, 12)
  BY <1>9, <1>10, <1>11, <1>12, <1>13 DEF FullCheck, sma_tag0_offset, NULL
<1>15. findTagPacket(p, 672) = 4 /\ findTagPacket(p, 16) = 12
  <2>1. z \in {z, BufferSize}
    OBVIOUS
  <2> QED
    BY <1>2, <2>1, Data2Places DEF Places
<1>16. isSMAPacket(p)
  <2>1. Signed(b)
    BY DEF Headed
  <2> QED
    BY <1>1, <1>2, <2>1, SMAPacketIs
<1>17. GroupIdFirst(p)
  BY <1>7, <1>15 DEF GroupIdFirst, sma_tag_group_id, sma_tag0_offset
<1> QED
  BY <1>2, <1>8, <1>14, <1>15, <1>16, <1>17 DEF FullData2, isValidData2Packet, sma_tag_data2, NULL

(* A packet is seen as these kinds, and no others.                         *)
SeenAs(p, S) == \A kind \in PacketKinds : Is(p, kind) <=> kind \in S

(* What a packet is seen as, kind by kind.                                 *)
LEMMA SeenIs ==
  ASSUME NEW p, NEW S,
         Is(p, "multicast_request") <=> "multicast_request" \in S,
         Is(p, "multicast_response") <=> "multicast_response" \in S,
         Is(p, "unicast_request") <=> "unicast_request" \in S,
         Is(p, "unicast_response") <=> "unicast_response" \in S,
         Is(p, "inverter") <=> "inverter" \in S,
         Is(p, "emeter") <=> "emeter" \in S,
         Is(p, "extended_emeter") <=> "extended_emeter" \in S,
         Is(p, "encryption") <=> "encryption" \in S
  PROVE  SeenAs(p, S)
<1>1. \A kind \in PacketKinds : kind \in {"multicast_request", "multicast_response", "unicast_request",
          "unicast_response", "inverter", "emeter", "extended_emeter", "encryption"}
  BY DEF PacketKinds, Meters, Discovery
<1> QED
  BY <1>1 DEF SeenAs

(* Both notions of a discovery packet.                                     *)
Agreed(p) == isValidDiscoveryPacket(p) <=> isValidDiscovery(p)

(* The tags that a packet has.                                             *)
TagsOf(p, group, data2, discovery, ip) ==
    /\ findTagPacket(p, sma_tag_group_id) = group /\ findTagPacket(p, sma_tag_data2) = data2
    /\ findTagPacket(p, sma_tag_discovery) = discovery /\ findTagPacket(p, sma_tag_ip_address) = ip

(* The tags by the places where they are.                                  *)
LEMMA PlacesTags ==
  ASSUME NEW b, NEW m, NEW group, NEW data2, NEW discovery, NEW ip,
         Places(b, m, group, data2, discovery, ip)
  PROVE  TagsOf(Packet(b, m), group, data2, discovery, ip)
  BY DEF Places, TagsOf, sma_tag_group_id, sma_tag_data2, sma_tag_discovery, sma_tag_ip_address

(* A discovery request is seen as one.                                     *)
LEMMA RequestSeen ==
  ASSUME NEW b, DiscoveryRequest(BufferSize, b), NEW p, p = Packet(b, 20)
  PROVE  SeenAs(p, {"multicast_request"}) /\ Agreed(p)
<1>1. TagsOf(p, 4, NULL, 12, NULL)
  <2>1. 20 \in {20, BufferSize}
    OBVIOUS
  <2> QED
    BY <2>1, RequestPlaces, PlacesTags
<1>2. b \in Area(BufferSize) /\ Signed(b) /\ Tagged(b, RequestShape)
  BY DEF DiscoveryRequest
<1>3. isSMAPacket(p)
  <2>1. BufferSize \in Nat /\ 20 \in 4..BufferSize
    BY BufferIs
  <2> QED
    BY <1>2, <2>1, SMAPacketIs
<1>4. getTagLength(p, 4) = 4
  <2>1. BufferSize \in Nat /\ 4 \in Nat /\ 4 + 4 <= BufferSize
    BY BufferIs
  <2>2. getTagLength(p, 4) = b[4] * 256 + b[4 + 1]
    BY <1>2, <2>1, TagNumbers
  <2>3. Tag(b, 4, 672, 4)
    <3>1. /\ 1 \in DOMAIN RequestShape /\ RequestShape[1].at = 4 /\ RequestShape[1].id = 672
          /\ RequestShape[1].length = 4
      BY DEF RequestShape
    <3> QED
      BY <1>2, <3>1 DEF Tagged
  <2> QED
    BY <2>2, <2>3 DEF Tag
<1>5. 4 # NULL /\ 12 # NULL
  BY DEF NULL
<1>6. isMulticastRequestPacket(p) /\ ~isMulticastResponsePacket(p)
  BY <1>1, <1>5 DEF TagsOf, isMulticastRequestPacket, isMulticastResponsePacket, HasTag
<1>7. ~UnicastDiscovery(p, <<0, 0, 2, 0>>) /\ ~UnicastDiscovery(p, <<0, 0, 2, 1>>)
  BY <1>1 DEF TagsOf, UnicastDiscovery, HasTag
<1>8. ~isUnicastRequestPacket(p) /\ ~isUnicastResponsePacket(p)
  BY <1>7 DEF isUnicastRequestPacket, isUnicastResponsePacket
<1>9. ~FullData2(p)
  BY <1>1 DEF TagsOf, FullData2, isValidData2Packet
<1>10. isValidDiscovery(p)
  BY <1>3, <1>6 DEF isValidDiscovery
<1>11. isValidDiscoveryPacket(p)
  BY <1>1, <1>3, <1>4, <1>5 DEF TagsOf, isValidDiscoveryPacket, GroupIdFirst, sma_tag0_offset
<1>12. SeenAs(p, {"multicast_request"})
  <2>1. PICK S : S = {"multicast_request"}
    OBVIOUS
  <2>2. /\ "multicast_request" \in S /\ "multicast_response" \notin S /\ "unicast_request" \notin S
        /\ "unicast_response" \notin S /\ "inverter" \notin S /\ "emeter" \notin S
        /\ "extended_emeter" \notin S /\ "encryption" \notin S
    BY <2>1
  <2>3. /\ Is(p, "multicast_request") /\ ~Is(p, "multicast_response") /\ ~Is(p, "unicast_request")
        /\ ~Is(p, "unicast_response") /\ ~Is(p, "inverter") /\ ~Is(p, "emeter")
        /\ ~Is(p, "extended_emeter") /\ ~Is(p, "encryption")
    BY <1>6, <1>8, <1>9, <1>10, KindsSeen DEF OfProtocol
  <2>4. SeenAs(p, S)
    BY <2>2, <2>3, SeenIs
  <2> QED
    BY <2>1, <2>4
<1> QED
  BY <1>10, <1>11, <1>12 DEF Agreed

(* A discovery response is seen as one.                                    *)
LEMMA ResponseSeen ==
  ASSUME NEW b, NEW ip, DiscoveryResponse(BufferSize, b, ip), NEW p, p = Packet(b, 57)
  PROVE  SeenAs(p, {"multicast_response"}) /\ Agreed(p)
<1>1. TagsOf(p, 4, 18, 26, 34)
  <2>1. 57 \in {57, BufferSize}
    OBVIOUS
  <2> QED
    BY <2>1, ResponsePlaces, PlacesTags
<1>2. b \in Area(BufferSize) /\ Signed(b) /\ Tagged(b, ResponseShape)
  BY DEF DiscoveryResponse
<1>3. isSMAPacket(p)
  <2>1. BufferSize \in Nat /\ 57 \in 4..BufferSize
    BY BufferIs
  <2> QED
    BY <1>2, <2>1, SMAPacketIs
<1>4. getTagLength(p, 4) = 4 /\ getTagLength(p, 34) = 4 /\ getTotalLength(p, 4) = 8
  <2>1. BufferSize \in Nat /\ 4 \in Nat /\ 4 + 4 <= BufferSize /\ 34 \in Nat /\ 34 + 4 <= BufferSize
    BY BufferIs
  <2>2. getTagLength(p, 4) = b[4] * 256 + b[4 + 1] /\ getTotalLength(p, 4) = 4 + getTagLength(p, 4)
    BY <1>2, <2>1, TagNumbers
  <2>3. getTagLength(p, 34) = b[34] * 256 + b[34 + 1]
    BY <1>2, <2>1, TagNumbers
  <2>4. Tag(b, 4, 672, 4) /\ Tag(b, 34, 48, 4)
    <3>1. /\ 1 \in DOMAIN ResponseShape /\ ResponseShape[1].at = 4 /\ ResponseShape[1].id = 672
          /\ ResponseShape[1].length = 4
          /\ 5 \in DOMAIN ResponseShape /\ ResponseShape[5].at = 34 /\ ResponseShape[5].id = 48
          /\ ResponseShape[5].length = 4
      BY DEF ResponseShape
    <3> QED
      BY <1>2, <3>1 DEF Tagged
  <2> QED
    BY <2>2, <2>3, <2>4 DEF Tag
<1>5. 4 # NULL /\ 18 # NULL /\ 26 # NULL /\ 34 # NULL
  BY DEF NULL
<1>6. ~isMulticastRequestPacket(p) /\ isMulticastResponsePacket(p)
  BY <1>1, <1>5 DEF TagsOf, isMulticastRequestPacket, isMulticastResponsePacket, HasTag
<1>7. ~UnicastDiscovery(p, <<0, 0, 2, 0>>) /\ ~UnicastDiscovery(p, <<0, 0, 2, 1>>)
  BY <1>1, <1>5 DEF TagsOf, UnicastDiscovery, HasTag
<1>8. ~isUnicastRequestPacket(p) /\ ~isUnicastResponsePacket(p)
  BY <1>7 DEF isUnicastRequestPacket, isUnicastResponsePacket
<1>9. ~FullData2(p)
  <2>1. ~FullCheck(p, 18)
    BY <1>4 DEF FullCheck, sma_tag0_offset
  <2> QED
    BY <1>1, <2>1 DEF TagsOf, FullData2, isValidData2Packet
<1>10. isValidDiscovery(p)
  BY <1>3, <1>6 DEF isValidDiscovery
<1>11. isValidDiscoveryPacket(p)
  BY <1>1, <1>3, <1>4, <1>5 DEF TagsOf, isValidDiscoveryPacket, GroupIdFirst, sma_tag0_offset
<1>12. SeenAs(p, {"multicast_response"})
  <2>1. PICK S : S = {"multicast_response"}
    OBVIOUS
  <2>2. /\ "multicast_request" \notin S /\ "multicast_response" \in S /\ "unicast_request" \notin S
        /\ "unicast_response" \notin S /\ "inverter" \notin S /\ "emeter" \notin S
        /\ "extended_emeter" \notin S /\ "encryption" \notin S
    BY <2>1
  <2>3. /\ ~Is(p, "multicast_request") /\ Is(p, "multicast_response") /\ ~Is(p, "unicast_request")
        /\ ~Is(p, "unicast_response") /\ ~Is(p, "inverter") /\ ~Is(p, "emeter")
        /\ ~Is(p, "extended_emeter") /\ ~Is(p, "encryption")
    BY <1>6, <1>8, <1>9, <1>10, KindsSeen DEF OfProtocol
  <2>4. SeenAs(p, S)
    BY <2>2, <2>3, SeenIs
  <2> QED
    BY <2>1, <2>4
<1> QED
  BY <1>10, <1>11, <1>12 DEF Agreed

(* A data2 packet that is received as a whole: of its protocol, and not of *)
(* multicast discovery.                                                    *)
LEMMA Data2Seen ==
  ASSUME NEW l \in Nat, l >= 4, NEW b \in Area(BufferSize), NEW protocol, Headed(b, l, protocol),
         NEW z, z = 20 + l, z <= BufferSize, NEW p, p = Packet(b, z)
  PROVE  /\ TagsOf(p, 4, 12, NULL, NULL) /\ getProtocolID(p) = protocol
         /\ \A id \in Protocols : OfProtocol(p, id) <=> id = protocol
         /\ ~isMulticastRequestPacket(p) /\ ~isMulticastResponsePacket(p)
         /\ Agreed(p)
<1>1. TagsOf(p, 4, 12, NULL, NULL)
  <2>1. z \in {z, BufferSize}
    OBVIOUS
  <2>2. Places(b, z, 4, 12, NULL, NULL)
    BY <2>1, Data2Places
  <2> QED
    BY <2>2, PlacesTags
<1>2. FullData2(p)
  BY FullyChecked
<1>3. getProtocolID(p) = protocol
  <2>1. BufferSize \in Nat /\ 20 + l <= BufferSize /\ z \in (20 + l)..BufferSize
    BY BufferIs
  <2> QED
    BY <2>1, Data2PayloadIs
<1>4. ~isMulticastRequestPacket(p) /\ ~isMulticastResponsePacket(p)
  <2>1. 12 # NULL
    BY DEF NULL
  <2> QED
    BY <1>1, <2>1 DEF TagsOf, isMulticastRequestPacket, isMulticastResponsePacket, HasTag
<1>5. ~isValidDiscovery(p) /\ ~isValidDiscoveryPacket(p)
  BY <1>1, <1>4 DEF TagsOf, isValidDiscovery, isValidDiscoveryPacket
<1>6. \A id \in Protocols : OfProtocol(p, id) <=> id = protocol
  BY <1>2, <1>3 DEF OfProtocol
<1> QED
  BY <1>1, <1>3, <1>4, <1>5, <1>6 DEF Agreed

(* An emeter or encryption packet is seen as one.                          *)
LEMMA MeterSeen ==
  ASSUME NEW l \in Nat, l >= 4, NEW b \in Area(BufferSize), NEW kind \in Meters \cup {"encryption"},
         Headed(b, l, ProtocolOf(kind)), NEW z, z = 20 + l, z <= BufferSize, NEW p, p = Packet(b, z)
  PROVE  SeenAs(p, {kind}) /\ Agreed(p)
<1>1. PICK protocol : protocol = ProtocolOf(kind)
  OBVIOUS
<1>2. Headed(b, l, protocol)
  BY <1>1
<1>3. /\ getProtocolID(p) = protocol /\ \A id \in Protocols : OfProtocol(p, id) <=> id = protocol
      /\ ~isMulticastRequestPacket(p) /\ ~isMulticastResponsePacket(p) /\ Agreed(p)
  BY <1>2, Data2Seen
<1>4. kind = "emeter" \/ kind = "extended_emeter" \/ kind = "encryption"
  BY DEF Meters
<1>5. /\ kind = "emeter" => protocol = sma_emeter_protocol_id
      /\ kind = "extended_emeter" => protocol = sma_extended_emeter_protocol_id
      /\ kind = "encryption" => protocol = sma_encryption_protocol_id
  BY <1>1, ProtocolAt
<1>6. /\ OfProtocol(p, sma_inverter_protocol_id) <=> sma_inverter_protocol_id = protocol
      /\ OfProtocol(p, sma_emeter_protocol_id) <=> sma_emeter_protocol_id = protocol
      /\ OfProtocol(p, sma_extended_emeter_protocol_id) <=> sma_extended_emeter_protocol_id = protocol
      /\ OfProtocol(p, sma_encryption_protocol_id) <=> sma_encryption_protocol_id = protocol
  BY <1>3 DEF Protocols
<1>7. protocol # sma_inverter_protocol_id
  BY <1>4, <1>5, ProtocolsApart
<1>8. ~isUnicastRequestPacket(p) /\ ~isUnicastResponsePacket(p)
  BY <1>3, <1>7 DEF isUnicastRequestPacket, isUnicastResponsePacket, UnicastDiscovery
<1>9. /\ ~Is(p, "multicast_request") /\ ~Is(p, "multicast_response") /\ ~Is(p, "unicast_request")
      /\ ~Is(p, "unicast_response") /\ ~Is(p, "inverter")
      /\ Is(p, "emeter") <=> sma_emeter_protocol_id = protocol
      /\ Is(p, "extended_emeter") <=> sma_extended_emeter_protocol_id = protocol
      /\ Is(p, "encryption") <=> sma_encryption_protocol_id = protocol
  BY <1>3, <1>6, <1>7, <1>8, KindsSeen
<1>10. PICK S : S = {kind}
  OBVIOUS
<1>11. /\ "multicast_request" \notin S /\ "multicast_response" \notin S /\ "unicast_request" \notin S
       /\ "unicast_response" \notin S /\ "inverter" \notin S
  BY <1>4, <1>10
<1>12. /\ Is(p, "emeter") <=> "emeter" \in S
       /\ Is(p, "extended_emeter") <=> "extended_emeter" \in S
       /\ Is(p, "encryption") <=> "encryption" \in S
  <2>1. CASE kind = "emeter"
    BY <1>5, <1>9, <1>10, <2>1, ProtocolsApart
  <2>2. CASE kind = "extended_emeter"
    BY <1>5, <1>9, <1>10, <2>2, ProtocolsApart
  <2>3. CASE kind = "encryption"
    BY <1>5, <1>9, <1>10, <2>3, ProtocolsApart
  <2> QED
    BY <1>4, <2>1, <2>2, <2>3
<1>13. SeenAs(p, S)
  BY <1>9, <1>11, <1>12, SeenIs
<1> QED
  BY <1>3, <1>10, <1>13

(* The commands of unicast discovery differ.                               *)
LEMMA OfUnicast == <<0, 0, 2, 0>> # <<0, 0, 2, 1>>
<1>1. <<0, 0, 2, 0>>[4] = 0 /\ <<0, 0, 2, 1>>[4] = 1
  OBVIOUS
<1> QED
  BY <1>1

UnicastRequest == Len(unicast_request) = 58

(* The unicast discovery request has one data2 tag of 38 bytes.            *)
LEMMA UnicastLength == UnicastRequest
  BY UnicastRequestIs DEF PutTogether, UnicastRequest

(* The command and the register ids of an inverter packet.                 *)
Ids(b, command) ==
    /\ getLittleEndian(b, 42, 4) = command
    /\ getLittleEndian(b, 46, 4) = Zeros(4) /\ getLittleEndian(b, 50, 4) = Zeros(4)

(* A packet is taken for unicast discovery by its command and its register *)
(* ids alone.                                                              *)
LEMMA UnicastIs ==
  ASSUME NEW p, TagsOf(p, 4, 12, NULL, NULL), getProtocolID(p) = sma_inverter_protocol_id,
         Payload(p).at = 20, NEW b, Payload(p).udp = b, NEW command
  PROVE  UnicastDiscovery(p, command) <=> Ids(b, command)
<1>1. PICK q : q = Payload(p)
  OBVIOUS
<1>2. /\ getField(q, "CommandID") = getLittleEndian(b, 42, 4)
      /\ getField(q, "FirstRegisterID") = getLittleEndian(b, 46, 4)
      /\ getField(q, "LastRegisterID") = getLittleEndian(b, 50, 4)
  <2>1. /\ InverterField("CommandID") = <<22, 4>> /\ InverterField("FirstRegisterID") = <<26, 4>>
        /\ InverterField("LastRegisterID") = <<30, 4>>
    BY DEF InverterField
  <2> QED
    BY <1>1, <2>1 DEF getField
<1>3. 4 # NULL /\ 12 # NULL
  BY DEF NULL
<1> QED
  BY <1>1, <1>2, <1>3 DEF UnicastDiscovery, Ids, TagsOf, HasTag

(* The answer to unicast discovery is read as one register of 40 bytes.    *)
LEMMA OneRegister ==
  ASSUME NEW b, Ids(b, <<0, 0, 2, 1>>), NEW q, q.udp = b, q.at = 20, q.size = 74
  PROVE  getRawDataLength(q) = 40
<1>1. getField(q, "FirstRegisterID") = Zeros(4) /\ getField(q, "LastRegisterID") = Zeros(4)
  <2>1. InverterField("FirstRegisterID") = <<26, 4>> /\ InverterField("LastRegisterID") = <<30, 4>>
    BY DEF InverterField
  <2> QED
    BY <2>1 DEF getField, Ids
<1>2. NumRegisters(q) = 1
  BY <1>1, ZeroNumber DEF NumRegisters
<1>3. (q.size - sma_data_offset) % UINT32_RANGE = 40
  <2>1. 40 \in Nat /\ 40 < UINT32_RANGE
    BY PacketsAssumption
  <2>2. PICK x \in Nat : x = 40
    OBVIOUS
  <2>3. x % UINT32_RANGE = x
    BY <2>1, <2>2, RangeIs, SmallRest
  <2>4. q.size - sma_data_offset = x
    BY <2>2 DEF sma_data_offset
  <2> QED
    BY <2>2, <2>3, <2>4, Zenon
<1>4. 40 % 1 = 0 /\ 40 \div 1 = 40
  OBVIOUS
<1> QED
  BY <1>2, <1>3, <1>4 DEF getRawDataLength

(* An inverter packet is seen as one, and a unicast discovery packet as    *)
(* that too.                                                               *)
LEMMA InverterSeen ==
  ASSUME NEW b, NEW s, s.kind \in Requests \cup Replies, NEW z \in 0..BufferSize, NEW goes,
         SentPacket(b, s, z, goes), NEW p, p = Packet(b, z)
  PROVE  /\ SeenAs(p, ({s.kind} \cap PacketKinds) \cup {"inverter"}) /\ Agreed(p)
         /\ getLongWords(p) = getTagLength(p, Data2(p)) \div 4
<1>1. s.kind \in Data2Kinds
  BY DEF Data2Kinds
<1>2. PICK l \in Nat : l = z - 20 /\ l >= 12 /\ z = 20 + l
  <2>1. z - 20 \in Nat /\ z - 20 >= 12
    BY <1>1, Data2Sent
  <2> QED
    BY <2>1, BufferIs
<1>3. b \in Area(BufferSize) /\ Headed(b, l, sma_inverter_protocol_id)
      /\ b[18] = (l \div 4) % 256 /\ Commands(b, l, s.kind)
  BY <1>2 DEF SentPacket, InverterSent, InverterPacket
<1>4. /\ TagsOf(p, 4, 12, NULL, NULL) /\ getProtocolID(p) = sma_inverter_protocol_id
      /\ \A id \in Protocols : OfProtocol(p, id) <=> id = sma_inverter_protocol_id
      /\ ~isMulticastRequestPacket(p) /\ ~isMulticastResponsePacket(p) /\ Agreed(p)
  <2>1. l >= 4 /\ z <= BufferSize
    BY <1>2, BufferIs
  <2> QED
    BY <1>2, <1>3, <2>1, Data2Seen
<1>5. /\ Data2(p) = 12 /\ getTagLength(p, 12) = l
      /\ Payload(p).udp = b /\ Payload(p).at = 20 /\ Payload(p).size = l - 4
  <2>1. ProtocolOf(s.kind) = sma_inverter_protocol_id /\ PayloadAt(ProtocolOf(s.kind)) = 20
    BY ProtocolAt
  <2>2. /\ Data2(p) = 12 /\ getTagLength(p, 12) = z - 20
        /\ Payload(p).udp = b /\ Payload(p).at = PayloadAt(ProtocolOf(s.kind))
        /\ Payload(p).size = (z - 4) - PayloadAt(ProtocolOf(s.kind))
    BY <1>1, WholePayload
  <2>3. (z - 4) - 20 = l - 4
    BY <1>2
  <2> QED
    BY <1>2, <2>1, <2>2, <2>3
<1>6. getLongWords(p) = getTagLength(p, Data2(p)) \div 4
  <2>1. p.udp = b
    BY PacketIs
  <2>2. l \div 4 \in 0..255
    BY <1>3 DEF Commands, Byte
  <2>3. (l \div 4) % 256 = l \div 4
    BY <2>2
  <2>4. getLongWords(p) = b[18]
    BY <1>5, <2>1 DEF getLongWords
  <2> QED
    BY <1>3, <1>5, <2>3, <2>4
<1>7. \A command : UnicastDiscovery(p, command) <=> Ids(b, command)
  BY <1>4, <1>5, UnicastIs
<1>8. /\ s.kind = "unicast_request" => l = 38 /\ Ids(b, <<0, 0, 2, 0>>) /\ ~Ids(b, <<0, 0, 2, 1>>)
      /\ s.kind = "unicast_response" => l = 78 /\ Ids(b, <<0, 0, 2, 1>>) /\ ~Ids(b, <<0, 0, 2, 0>>)
      /\ s.kind \notin {"unicast_request", "unicast_response"} =>
             ~Ids(b, <<0, 0, 2, 0>>) /\ ~Ids(b, <<0, 0, 2, 1>>)
  BY <1>3, OfUnicast DEF Commands, Ids
<1>9. isUnicastRequestPacket(p) <=> s.kind = "unicast_request"
  <2>1. p.size = 20 + l
    BY <1>2, PacketIs
  <2>2. s.kind = "unicast_request" => p.size = 58
    BY <1>8, <2>1
  <2>3. Len(unicast_request) = 58
    BY UnicastLength DEF UnicastRequest
  <2>4. UnicastDiscovery(p, <<0, 0, 2, 0>>) <=> s.kind = "unicast_request"
    BY <1>7, <1>8
  <2> QED
    BY <2>2, <2>3, <2>4 DEF isUnicastRequestPacket
<1>10. isUnicastResponsePacket(p) <=> s.kind = "unicast_response"
  <2>1. ASSUME s.kind = "unicast_response" PROVE getRawDataLength(Payload(p)) = 40
    <3>1. Payload(p).size = 74 /\ Ids(b, <<0, 0, 2, 1>>)
      BY <1>5, <1>8, <2>1
    <3> QED
      BY <1>5, <3>1, OneRegister
  <2>2. UnicastDiscovery(p, <<0, 0, 2, 1>>) <=> s.kind = "unicast_response"
    BY <1>7, <1>8
  <2> QED
    BY <2>1, <2>2 DEF isUnicastResponsePacket
<1>11. /\ OfProtocol(p, sma_inverter_protocol_id) /\ ~OfProtocol(p, sma_emeter_protocol_id)
       /\ ~OfProtocol(p, sma_extended_emeter_protocol_id) /\ ~OfProtocol(p, sma_encryption_protocol_id)
  BY <1>4, ProtocolsApart DEF Protocols
<1>12. /\ ~Is(p, "multicast_request") /\ ~Is(p, "multicast_response") /\ Is(p, "inverter")
       /\ Is(p, "unicast_request") <=> s.kind = "unicast_request"
       /\ Is(p, "unicast_response") <=> s.kind = "unicast_response"
       /\ ~Is(p, "emeter") /\ ~Is(p, "extended_emeter") /\ ~Is(p, "encryption")
  BY <1>4, <1>9, <1>10, <1>11, KindsSeen
<1>13. PICK S : S = ({s.kind} \cap PacketKinds) \cup {"inverter"}
  OBVIOUS
<1>14. /\ "multicast_request" \notin S /\ "multicast_response" \notin S /\ "inverter" \in S
       /\ "unicast_request" \in S <=> s.kind = "unicast_request"
       /\ "unicast_response" \in S <=> s.kind = "unicast_response"
       /\ "emeter" \notin S /\ "extended_emeter" \notin S /\ "encryption" \notin S
  BY <1>13 DEF PacketKinds, Requests, Replies
<1>15. SeenAs(p, S)
  BY <1>12, <1>14, SeenIs
<1> QED
  BY <1>4, <1>6, <1>13, <1>15

(* The invariant makes packets be taken for what they are.                 *)
LEMMA ClassifiedFollows == PacketsInv => Classified
<1>1. SUFFICES ASSUME PacketsInv, Whole, sent.kind # "datagram" PROVE Classified
  BY DEF Classified
<1>2. /\ SentPacket(rx, sent, size, next) /\ rx \in Area(BufferSize) /\ size \in 0..BufferSize
      /\ sent.kind \in KindsSent /\ nbytes = size
  BY <1>1, WholeIs
<1>3. PICK b, s, goes : b = rx /\ s = sent /\ goes = next
  OBVIOUS
<1>4. PICK z \in 0..BufferSize : z = size
  BY <1>2
<1>5. SentPacket(b, s, z, goes) /\ s.kind \in KindsSent /\ s.kind # "datagram"
  BY <1>1, <1>2, <1>3, <1>4
<1>6. PICK p : p = Packet(b, z)
  OBVIOUS
<1>7. Received = p
  BY <1>2, <1>3, <1>4, <1>6 DEF Received
<1>8. PICK S : S = ({s.kind} \cap PacketKinds)
                       \cup (IF s.kind \in Requests \cup Replies THEN {"inverter"} ELSE {})
  OBVIOUS
<1>9. /\ SeenAs(p, S) /\ Agreed(p)
      /\ s.kind \in Requests \cup Replies => getLongWords(p) = getTagLength(p, Data2(p)) \div 4
  <2>1. CASE s.kind \in Requests \cup Replies
    <3>1. S = ({s.kind} \cap PacketKinds) \cup {"inverter"}
      BY <1>8, <2>1
    <3> QED
      BY <1>5, <1>6, <2>1, <3>1, InverterSeen
  <2>2. CASE s.kind \in Meters \cup {"encryption"}
    <3>1. s.kind \in Data2Kinds /\ s.kind \notin Requests \cup Replies
      BY <2>2, KindsApart DEF Data2Kinds
    <3>2. z - 20 \in Nat /\ z - 20 >= 12 /\ b \in Area(BufferSize) /\ Headed(b, z - 20, ProtocolOf(s.kind))
      BY <1>5, <3>1, Data2Sent
    <3>3. PICK l \in Nat : l = z - 20
      BY <3>2
    <3>4. l >= 4 /\ z = 20 + l /\ z <= BufferSize
      BY <3>2, <3>3, BufferIs
    <3>5. Headed(b, l, ProtocolOf(s.kind))
      BY <3>2, <3>3
    <3>6. SeenAs(p, {s.kind}) /\ Agreed(p)
      BY <1>6, <2>2, <3>2, <3>4, <3>5, MeterSeen
    <3>7. S = {s.kind}
      BY <1>8, <2>2, <3>1 DEF PacketKinds, Meters
    <3> QED
      BY <3>1, <3>6, <3>7
  <2>3. CASE s.kind = "multicast_request"
    <3>1. z = 20 /\ DiscoveryRequest(BufferSize, b)
      BY <1>5, <2>3 DEF SentPacket
    <3>2. SeenAs(p, {"multicast_request"}) /\ Agreed(p)
      BY <1>6, <3>1, RequestSeen
    <3>3. S = {"multicast_request"} /\ s.kind \notin Requests \cup Replies
      BY <1>8, <2>3 DEF PacketKinds, Discovery, Requests, Replies
    <3> QED
      BY <3>2, <3>3
  <2>4. CASE s.kind = "multicast_response"
    <3>1. z = 57 /\ DiscoveryResponse(BufferSize, b, s.fields["ip"])
      BY <1>5, <2>4 DEF SentPacket
    <3>2. SeenAs(p, {"multicast_response"}) /\ Agreed(p)
      BY <1>6, <3>1, ResponseSeen
    <3>3. S = {"multicast_response"} /\ s.kind \notin Requests \cup Replies
      BY <1>8, <2>4 DEF PacketKinds, Discovery, Requests, Replies
    <3> QED
      BY <3>2, <3>3
  <2> QED
    BY <1>5, <2>1, <2>2, <2>3, <2>4 DEF KindsSent, Discovery
<1>10. {kind \in PacketKinds : Is(p, kind)} = S
  <2>1. S \subseteq PacketKinds
    BY <1>8 DEF PacketKinds
  <2> QED
    BY <1>9, <2>1 DEF SeenAs
<1> QED
  BY <1>3, <1>7, <1>8, <1>9, <1>10 DEF Classified, Agreed

(* Every packet is taken for its own kind by the predicates of             *)
(* SpeedwireHeader and SpeedwireDiscoveryProtocol, and for no other,       *)
(* whatever its addresses, registers and contents are.                     *)
THEOREM ClassifiedAlways == PacketsSpec => []Classified
  BY ClassifiedFollows, PacketsInductive, PTL

-----------------------------------------------------------------------------
(* Elements are delivered                                                  *)

(* The stops of a reader that goes forward rise.                           *)
Rising(w, j) == \A i \in j..Len(w) : w[i] >= w[j]

(* A walk that only moves forward rises.                                   *)
LEMMA PathRises ==
  ASSUME NEW w, NEW first, NEW step, NEW G, Path(w, first, step, G), NEW lo, NEW limit,
         Forward(step, G, lo, limit), NEW j \in 1..Len(w)
  PROVE  Rising(w, j)
<1> DEFINE S == {i \in Nat : j + i <= Len(w) => w[j + i] >= w[j]}
<1>1. w \in Seq(G) /\ \A i \in 1..(Len(w) - 1) : w[i + 1] = step[w[i]]
  BY DEF Path
<1>2. G \in SUBSET Int /\ NULL \notin G /\ \A o \in G : step[o] # NULL => step[o] > o
  BY DEF Forward
<1>3. PICK m \in Nat : m = Len(w)
  BY <1>1
<1>4. \A i \in 1..m : w[i] \in G /\ w[i] \in Int /\ w[i] # NULL
  <2>1. ASSUME NEW i \in 1..m PROVE w[i] \in G
    <3>1. i \in 1..Len(w)
      BY <1>3
    <3> QED
      BY <1>1, <3>1, ElementTyped
  <2> QED
    BY <1>2, <2>1
<1>5. 0 \in S
  <2>1. j + 0 = j /\ w[j] \in Int
    BY <1>3, <1>4
  <2> QED
    BY <2>1
<1>6. ASSUME NEW i \in S PROVE i + 1 \in S
  <2>1. i \in Nat /\ i + 1 \in Nat /\ j \in Nat /\ j >= 1
    OBVIOUS
  <2>2. CASE j + (i + 1) <= m
    <3>1. /\ j + i \in 1..(m - 1) /\ (j + i) + 1 = j + (i + 1) /\ j + i <= m
          /\ j + i \in 1..m /\ j + (i + 1) \in 1..m /\ j \in 1..m
      BY <1>3, <2>1, <2>2
    <3>2. w[j + i] >= w[j]
      BY <1>3, <3>1
    <3>3. w[j + (i + 1)] = step[w[j + i]]
      BY <1>1, <1>3, <3>1
    <3>4. w[j + (i + 1)] > w[j + i]
      BY <1>2, <1>4, <3>1, <3>3
    <3>5. w[j] \in Int /\ w[j + i] \in Int /\ w[j + (i + 1)] \in Int
      BY <1>4, <3>1
    <3>6. w[j + (i + 1)] >= w[j]
      BY <3>2, <3>4, <3>5
    <3> QED
      BY <1>3, <2>1, <3>6
  <2>3. CASE ~(j + (i + 1) <= m)
    BY <1>3, <2>1, <2>3
  <2> QED
    BY <2>2, <2>3
<1>7. S \in SUBSET Nat
  OBVIOUS
<1>8. \A i \in Nat : i \in S
  <2> HIDE DEF S
  <2> QED
    BY <1>5, <1>6, <1>7, AllNumbers, Zenon
<1>9. ASSUME NEW i \in j..Len(w) PROVE w[i] >= w[j]
  <2>1. PICK d \in Nat : j + d = i
    <3>1. i - j \in Nat /\ j + (i - j) = i
      BY <1>3
    <3> QED
      BY <3>1
  <2>2. d \in S
    BY <1>8
  <2>3. j + d <= Len(w)
    BY <1>3, <2>1
  <2>4. w[j + d] >= w[j]
    BY <2>2, <2>3
  <2> QED
    BY <2>1, <2>4
<1> QED
  BY <1>9 DEF Rising

(* An emeter packet in which these elements lie at these places.           *)
Laid(b, q, parts, pos, k) ==
    /\ MeterPayload(q, BufferSize) /\ q.udp = b /\ q.at \in {18, 20} /\ q.size >= 10
    /\ q.at + q.size + 4 <= BufferSize /\ \A o \in (q.at + q.size)..(q.at + q.size + 3) : b[o] = 0
    /\ parts \in Seq(Elements) /\ k = Len(parts) /\ pos \in [1..(k + 1) -> Nat]
    /\ Layout(b, parts, pos, q.at + 10, q.at + q.size)

(* The positions of the elements that were laid into a packet, and the     *)
(* zeros behind them.                                                      *)
LEMMA LaidOut ==
  ASSUME NEW b, NEW q, NEW parts, NEW pos, NEW k, Laid(b, q, parts, pos, k)
  PROVE  /\ k \in Nat /\ q.at \in Nat /\ q.size \in Nat /\ q.at + 10 <= q.at + q.size
         /\ pos[1] = q.at + 10
         /\ \A i \in 1..k : pos[i + 1] = pos[i] + ElementLength(parts[i]) /\ ElementAt(b, pos[i], parts[i])
         /\ \A i \in 1..(k + 1) : /\ pos[i] \in Nat /\ q.at + 10 <= pos[i]
                                  /\ pos[i] <= pos[k + 1] /\ pos[i] <= q.at + q.size
         /\ \A o \in pos[k + 1]..((q.at + q.size) - 1) : b[o] = 0
<1>1. k \in Nat /\ q.at \in Nat /\ q.size \in Nat /\ q.size >= 10
  BY DEF Laid, MeterPayload
<1>2. PICK end \in Nat : end = q.at + q.size
  BY <1>1
<1>3. Layout(b, parts, pos, q.at + 10, end) /\ k = Len(parts) /\ pos \in [1..(k + 1) -> Nat]
  BY <1>2 DEF Laid
<1>4. /\ pos[1] = q.at + 10
      /\ \A i \in 1..k : pos[i + 1] = pos[i] + ElementLength(parts[i]) /\ ElementAt(b, pos[i], parts[i])
      /\ \A i \in 1..(k + 1) : q.at + 10 <= pos[i] /\ pos[i] <= pos[k + 1]
      /\ pos[k + 1] <= end
      /\ \A o \in pos[k + 1]..(end - 1) : b[o] = 0
  BY <1>3 DEF Layout
<1>5. ASSUME NEW i \in 1..(k + 1)
      PROVE  pos[i] \in Nat /\ q.at + 10 <= pos[i] /\ pos[i] <= pos[k + 1] /\ pos[i] <= end
  <2>1. pos[i] \in Nat /\ pos[k + 1] \in Nat
    BY <1>1, <1>3
  <2> QED
    BY <1>2, <1>4, <2>1
<1>6. q.at + 10 <= q.at + q.size
  BY <1>1
<1> QED
  BY <1>1, <1>2, <1>4, <1>5, <1>6

(* Each element lies inside, and tells its length.                         *)
LEMMA ElementPlaced ==
  ASSUME NEW b, NEW q, NEW parts, NEW pos, NEW k, Laid(b, q, parts, pos, k), NEW i \in 1..k
  PROVE  /\ pos[i] \in ElementPlaces(q) /\ pos[i] \in Nat
         /\ pos[i + 1] = pos[i] + getObisLength(q.udp, pos[i])
         /\ parts[i] \in Elements /\ ElementAt(b, pos[i], parts[i])
         /\ pos[i] + ElementLength(parts[i]) <= q.at + q.size
<1>1. /\ k \in Nat /\ q.at \in Nat /\ q.size \in Nat /\ i \in 1..(k + 1) /\ i + 1 \in 1..(k + 1)
  BY LaidOut
<1>2. PICK at \in Nat, end \in Nat : at = q.at /\ end = q.at + q.size
  BY <1>1
<1>3. pos[i + 1] = pos[i] + ElementLength(parts[i]) /\ ElementAt(b, pos[i], parts[i])
  BY LaidOut
<1>4. /\ pos[i] \in Nat /\ at + 10 <= pos[i] /\ pos[i] <= end
      /\ pos[i + 1] \in Nat /\ pos[i + 1] <= end
  BY <1>1, <1>2, LaidOut
<1>5. PICK e \in Elements : e = parts[i]
  <2>1. parts \in Seq(Elements) /\ i \in 1..Len(parts)
    BY DEF Laid
  <2> QED
    BY <2>1, ElementTyped
<1>6. PICK w \in {8, 11, 12} : w = ElementLength(e)
  BY PacketsAssumption, ElementIs
<1>7. getObisLength(b, pos[i]) = w
  BY <1>3, <1>5, <1>6 DEF getObisLength, getObisChannel, getObisType, ElementAt, ElementLength
<1>8. q.udp = b
  BY DEF Laid
<1>9. pos[i] + w <= end /\ pos[i] + 4 <= end
  BY <1>3, <1>4, <1>5, <1>6
<1>10. pos[i] \in ElementPlaces(q)
  <2>1. pos[i] \in q.at..(q.at + q.size)
    BY <1>1, <1>2, <1>4
  <2> QED
    BY <1>2, <1>7, <1>8, <1>9, <2>1 DEF ElementPlaces
<1> QED
  BY <1>2, <1>3, <1>4, <1>5, <1>6, <1>7, <1>8, <1>9, <1>10

(* What lies behind the elements reads as an element of four zeros, the    *)
(* end-of-data tag too.                                                    *)
LEMMA BehindElements ==
  ASSUME NEW b, NEW q, NEW parts, NEW pos, NEW k, Laid(b, q, parts, pos, k),
         NEW o \in Nat, pos[k + 1] <= o, o <= q.at + q.size
  PROVE  /\ ReadBytes(b, o, 4) = Zeros(4) /\ getObisLength(q.udp, o) = 4
         /\ o + 4 <= q.at + q.size => o \in ElementPlaces(q)
<1>1. k \in Nat /\ q.at \in Nat /\ q.size \in Nat /\ k + 1 \in 1..(k + 1) /\ q.udp = b
  <2>1. k \in Nat /\ q.at \in Nat /\ q.size \in Nat
    BY LaidOut
  <2> QED
    BY <2>1 DEF Laid
<1>2. PICK at \in Nat, end \in Nat : at = q.at /\ end = q.at + q.size
  BY <1>1
<1>3. PICK p \in Nat : p = pos[k + 1] /\ at + 10 <= p /\ p <= o /\ o <= end
  BY <1>1, <1>2, LaidOut
<1>4. ASSUME NEW x \in p..(end + 3) PROVE b[x] = 0
  <2>1. CASE x < end
    <3>1. x \in pos[k + 1]..((q.at + q.size) - 1)
      BY <1>2, <1>3, <2>1
    <3> QED
      BY <3>1, LaidOut
  <2>2. CASE ~(x < end)
    <3>1. x \in (q.at + q.size)..(q.at + q.size + 3)
      BY <1>2, <1>3, <2>2
    <3> QED
      BY <3>1 DEF Laid
  <2> QED
    BY <2>1, <2>2
<1>5. PICK w \in Nat : w = 4
  OBVIOUS
<1>6. ASSUME NEW i \in 1..w PROVE b[(o + i) - 1] = 0
  <2>1. (o + i) - 1 \in p..(end + 3)
    BY <1>3, <1>5
  <2> QED
    BY <1>4, <2>1
<1>7. PICK v \in [1..w -> Byte] : v = [i \in 1..w |-> 0]
  <2>1. 0 \in Byte
    BY DEF Byte
  <2>2. [i \in 1..w |-> 0] \in [1..w -> Byte]
    BY <2>1
  <2> QED
    BY <2>2
<1>8. ReadBytes(b, o, w) = v
  BY <1>6, <1>7, ReadBack
<1>9. Zeros(w) = v
  BY <1>7 DEF Zeros
<1>10. getObisLength(b, o) = 4
  <2>1. o \in p..(end + 3) /\ o + 2 \in p..(end + 3)
    BY <1>3
  <2>2. b[o] = 0 /\ b[o + 2] = 0
    BY <1>4, <2>1
  <2> QED
    BY <2>2 DEF getObisLength, getObisChannel, getObisType, sma_firmware_version_channel
<1>11. ASSUME o + 4 <= end PROVE o \in ElementPlaces(q)
  <2>1. o \in q.at..(q.at + q.size) /\ o + 4 <= q.at + q.size
    <3>1. o \in at..end /\ o + 4 <= end
      BY <1>3, <1>11
    <3> QED
      BY <1>2, <3>1
  <2> QED
    BY <1>1, <1>10, <2>1 DEF ElementPlaces
<1> QED
  BY <1>1, <1>2, <1>5, <1>8, <1>9, <1>10, <1>11

(* From each element the reader comes to the next one.                     *)
LEMMA ElementsStepped ==
  ASSUME NEW b, NEW q, NEW parts, NEW pos, NEW k, Laid(b, q, parts, pos, k)
  PROVE  Steps(ElementAfter(q), pos, k)
<1>1. k \in Nat
  BY LaidOut
<1>2. ASSUME NEW i \in 1..(k - 1)
      PROVE  ElementAfter(q)[pos[i]] = pos[i + 1] /\ pos[i + 1] # NULL
  <2>1. i \in 1..k /\ i + 1 \in 1..k
    BY <1>1
  <2>2. pos[i] \in ElementPlaces(q) /\ pos[i + 1] = pos[i] + getObisLength(q.udp, pos[i])
    BY <2>1, ElementPlaced
  <2>3. PICK j \in 1..k : j = i + 1
    BY <2>1
  <2>4. pos[j] \in ElementPlaces(q) /\ pos[j] \in Nat
    BY ElementPlaced
  <2>5. PICK follow : follow = pos[i] + getObisLength(q.udp, pos[i])
    OBVIOUS
  <2>6. MeterPayload(q, BufferSize)
    BY DEF Laid
  <2>7. ElementAfter(q)[pos[i]] = IF follow \in ElementPlaces(q) THEN follow ELSE NULL
    BY <2>2, <2>5, <2>6, ElementAfterIs
  <2> QED
    BY <2>2, <2>3, <2>4, <2>5, <2>7 DEF NULL
<1> QED
  BY <1>2 DEF Steps

(* A reader finds the value of an element that lies at this place.         *)
ValueThere(b, o, e) == e.value \in {getObisValue4(b, o), getObisValue8(b, o)}

(* The value of an element is read as it was put.                          *)
LEMMA ValueFound ==
  ASSUME NEW b, NEW o \in Nat, NEW e \in Elements, ElementAt(b, o, e)
  PROVE  /\ getObisChannel(b, o) = e.channel /\ getObisType(b, o) = e.type
         /\ ValueThere(b, o, e)
<1>1. e.value \in Seq(Byte) /\ Len(e.value) \in {4, 8}
  BY PacketsAssumption, ElementIs
<1>2. PICK w \in Nat : w = Len(e.value)
  BY <1>1
<1>3. PICK v \in [1..w -> Byte] : v = e.value
  BY <1>1, <1>2
<1>4. PICK at \in Nat : at = o + 4
  OBVIOUS
<1>5. ASSUME NEW i \in 1..w PROVE b[(at + i) - 1] = v[i]
  <2>1. (at + i) - 1 = (o + 3) + i /\ i \in 1..Len(e.value)
    BY <1>2, <1>4
  <2>2. b[(o + 3) + i] = e.value[i]
    BY <2>1 DEF ElementAt
  <2> QED
    BY <1>3, <2>1, <2>2
<1>6. ReadBytes(b, at, w) = v
  <2>1. \A i \in 1..w : b[(at + i) - 1] = v[i]
    BY <1>5
  <2> QED
    BY <2>1 DEF ReadBytes
<1>7. ValueThere(b, o, e)
  <2>1. w = 4 => getObisValue4(b, o) = v
    BY <1>4, <1>6 DEF getObisValue4, getBigEndian
  <2>2. w = 8 => getObisValue8(b, o) = v
    BY <1>4, <1>6 DEF getObisValue8, getBigEndian
  <2> QED
    BY <1>1, <1>2, <1>3, <2>1, <2>2 DEF ValueThere
<1> QED
  BY <1>7 DEF ElementAt, getObisChannel, getObisType

(* The walk of a reader starts with the elements that were sent.           *)
Walked(found, q, pos, k) ==
    /\ found \in Seq(ElementReach(q)) /\ k <= Len(found) /\ Len(found) >= 1
    /\ \A i \in 1..k : found[i] = pos[i]
    /\ found[1] = pos[1]
    /\ \A i \in 1..(Len(found) - 1) : found[i + 1] = ElementAfter(q)[found[i]]
    /\ ElementAfter(q)[found[Len(found)]] = NULL
    /\ \A j \in 1..Len(found) : Rising(found, j)

(* The walk of a reader visits the elements that were put, and behind them *)
(* four zeros at a time.                                                   *)
LEMMA WalkedThrough ==
  ASSUME NEW b, NEW q, NEW parts, NEW pos, NEW k, Laid(b, q, parts, pos, k),
         NEW found, found = ObisElements(q)
  PROVE  Walked(found, q, pos, k)
<1>1. PICK G : G = ElementReach(q)
  OBVIOUS
<1>2. PICK step : step = ElementAfter(q)
  OBVIOUS
<1>3. PICK first, lo, limit : first = q.at + 10 /\ lo = q.at + 10 /\ limit = q.size
  OBVIOUS
<1>4. Forward(step, G, lo, limit) /\ Path(found, first, step, G)
  <2>1. MeterPayload(q, BufferSize) /\ q.size >= 10 /\ q.at + q.size + 4 <= BufferSize
    BY DEF Laid
  <2>2. q.at + 14 <= BufferSize
    BY <2>1 DEF MeterPayload
  <2> QED
    BY <1>1, <1>2, <1>3, <2>1, <2>2, ElementsPath
<1>5. k \in Nat /\ pos[1] = first /\ first \in Nat
  <2>1. q.at \in Nat
    BY LaidOut
  <2> QED
    BY <1>3, <2>1, LaidOut
<1>6. Steps(step, pos, k)
  BY <1>2, ElementsStepped
<1>7. Begun(found, pos, k)
  <2>1. first # NULL
    BY <1>5 DEF NULL
  <2> QED
    BY <1>4, <1>5, <1>6, <2>1, PathFollows
<1>8. ASSUME NEW j \in 1..Len(found) PROVE Rising(found, j)
  BY <1>4, PathRises
<1>9. /\ found \in Seq(G) /\ Len(found) >= 1 /\ found[1] = pos[1] /\ step[found[Len(found)]] = NULL
      /\ \A i \in 1..(Len(found) - 1) : found[i + 1] = step[found[i]]
  <2>1. first # NULL
    BY <1>5 DEF NULL
  <2> QED
    BY <1>4, <1>5, <2>1 DEF Path
<1>10. k <= Len(found) /\ \A i \in 1..k : found[i] = pos[i]
  <2>1. \A i \in 1..k : i <= Len(found) /\ found[i] = pos[i]
    BY <1>7 DEF Begun
  <2>2. k = 0 \/ k \in 1..k
    BY <1>5
  <2>3. k <= Len(found)
    BY <1>5, <1>9, <2>1, <2>2
  <2> QED
    BY <2>1, <2>3
<1> QED
  BY <1>1, <1>2, <1>8, <1>9, <1>10 DEF Walked

(* What the reader finds behind them are elements of four zeros.           *)
LEMMA RestIsEmpty ==
  ASSUME NEW b, NEW q, NEW parts, NEW pos, NEW k, Laid(b, q, parts, pos, k),
         NEW found, Walked(found, q, pos, k), NEW i \in (k + 1)..Len(found)
  PROVE  ReadBytes(b, found[i], 4) = Zeros(4)
<1>1. k \in Nat /\ q.at \in Nat /\ q.size \in Nat
  BY LaidOut
<1>2. PICK G : G = ElementReach(q)
  OBVIOUS
<1>3. PICK m \in Nat : m = Len(found)
  BY DEF Walked
<1>4. ASSUME NEW j \in 1..m PROVE found[j] \in Nat /\ found[j] <= q.at + q.size
  <2>1. found[j] \in G
    <3>1. found \in Seq(G) /\ j \in 1..Len(found)
      BY <1>2, <1>3 DEF Walked
    <3> QED
      BY <3>1, ElementTyped
  <2>2. CASE found[j] = q.at + 10
    BY <1>1, <2>2, LaidOut
  <2>3. CASE found[j] \in ElementPlaces(q)
    BY <1>1, <2>3 DEF ElementPlaces
  <2> QED
    BY <1>2, <2>1, <2>2, <2>3 DEF ElementReach
<1>5. k + 1 \in 1..m /\ i \in 1..m /\ i \in (k + 1)..m /\ k \in 0..(m - 1)
  BY <1>1, <1>3
<1>6. found[k + 1] = pos[k + 1]
  <2>1. CASE k = 0
    BY <2>1 DEF Walked
  <2>2. CASE k # 0
    <3>1. k \in 1..(m - 1) /\ k \in 1..k
      BY <1>1, <1>5, <2>2
    <3>2. found[k + 1] = ElementAfter(q)[found[k]] /\ found[k] = pos[k]
      BY <1>3, <3>1 DEF Walked
    <3>3. pos[k] \in ElementPlaces(q) /\ pos[k + 1] = pos[k] + getObisLength(q.udp, pos[k])
      BY <3>1, ElementPlaced
    <3>4. PICK follow : follow = pos[k] + getObisLength(q.udp, pos[k])
      OBVIOUS
    <3>5. MeterPayload(q, BufferSize)
      BY DEF Laid
    <3>6. ElementAfter(q)[pos[k]] = IF follow \in ElementPlaces(q) THEN follow ELSE NULL
      BY <3>3, <3>4, <3>5, ElementAfterIs
    <3>7. found[k + 1] # NULL
      BY <1>4, <1>5 DEF NULL
    <3> QED
      BY <3>2, <3>3, <3>4, <3>6, <3>7
  <2> QED
    BY <2>1, <2>2
<1>7. found[i] >= found[k + 1]
  <2>1. Rising(found, k + 1)
    BY <1>3, <1>5 DEF Walked
  <2> QED
    BY <1>3, <1>5, <2>1 DEF Rising
<1>8. PICK o \in Nat : o = found[i] /\ pos[k + 1] <= o /\ o <= q.at + q.size
  <2>1. found[i] \in Nat /\ found[i] <= q.at + q.size /\ found[k + 1] \in Nat
    BY <1>4, <1>5
  <2> QED
    BY <1>6, <1>7, <2>1
<1>9. ReadBytes(b, o, 4) = Zeros(4)
  BY <1>8, BehindElements
<1> QED
  BY <1>8, <1>9

(* When it finds no more, there is no room for another element.            *)
LEMMA NoRoomLeft ==
  ASSUME NEW b, NEW q, NEW parts, NEW pos, NEW k, Laid(b, q, parts, pos, k),
         NEW found, Walked(found, q, pos, k), Len(found) = k
  PROVE  k # 0 /\ q.at + q.size - (found[k] + getObisLength(q.udp, found[k])) < 4
<1>1. k \in Nat /\ q.at \in Nat /\ q.size \in Nat /\ k >= 1
  <2>1. k \in Nat /\ q.at \in Nat /\ q.size \in Nat
    BY LaidOut
  <2>2. k >= 1
    BY DEF Walked
  <2> QED
    BY <2>1, <2>2
<1>2. k \in 1..k /\ k + 1 \in 1..(k + 1)
  BY <1>1
<1>3. found[k] = pos[k] /\ ElementAfter(q)[pos[k]] = NULL
  BY <1>2 DEF Walked
<1>4. pos[k] \in ElementPlaces(q) /\ pos[k + 1] = pos[k] + getObisLength(q.udp, pos[k])
  BY <1>2, ElementPlaced
<1>5. PICK follow : follow = pos[k] + getObisLength(q.udp, pos[k])
  OBVIOUS
<1>6. MeterPayload(q, BufferSize)
  BY DEF Laid
<1>7. ElementAfter(q)[pos[k]] = IF follow \in ElementPlaces(q) THEN follow ELSE NULL
  BY <1>4, <1>5, <1>6, ElementAfterIs
<1>8. follow \in Nat /\ follow = pos[k + 1]
  <2>1. pos[k + 1] \in Nat
    BY <1>2, LaidOut
  <2> QED
    BY <1>4, <1>5, <2>1
<1>9. follow \notin ElementPlaces(q)
  BY <1>3, <1>7, <1>8 DEF NULL
<1>10. ~(follow + 4 <= q.at + q.size)
  <2>1. SUFFICES ASSUME follow + 4 <= q.at + q.size PROVE FALSE
    OBVIOUS
  <2>2. pos[k + 1] <= follow /\ follow <= q.at + q.size
    BY <1>1, <1>8, <2>1
  <2>3. follow \in ElementPlaces(q)
    BY <1>8, <2>1, <2>2, BehindElements
  <2> QED
    BY <1>9, <2>3
<1>11. q.at + q.size - follow < 4
  BY <1>1, <1>8, <1>10
<1> QED
  BY <1>1, <1>3, <1>5, <1>11

(* A tag without id and length is four zeros.                              *)
LEMMA ZeroTag ==
  ASSUME NEW n \in Nat, NEW b \in Area(n), NEW t \in Nat, t + 4 <= n, Tag(b, t, 0, 0)
  PROVE  b[t] = 0 /\ b[t + 1] = 0 /\ b[t + 2] = 0 /\ b[t + 3] = 0
<1>1. \A x \in 0..(n - 1) : b[x] \in Nat
  <2>1. Byte \subseteq Nat
    BY DEF Byte
  <2>2. \A x \in 0..(n - 1) : b[x] \in Byte
    BY DEF Area
  <2> QED
    BY <2>1, <2>2
<1>2. t \in 0..(n - 1) /\ t + 1 \in 0..(n - 1) /\ t + 2 \in 0..(n - 1) /\ t + 3 \in 0..(n - 1)
  OBVIOUS
<1>3. PICK v \in Nat, w \in Nat, x \in Nat, y \in Nat :
         v = b[t] /\ w = b[t + 1] /\ x = b[t + 2] /\ y = b[t + 3]
  BY <1>1, <1>2
<1>4. v * 256 + w = 0 /\ x * 256 + y = 0
  BY <1>3 DEF Tag
<1>5. v = 0 /\ w = 0 /\ x = 0 /\ y = 0
  BY <1>4
<1> QED
  BY <1>3, <1>5

(* The elements of an emeter packet that was sent are laid out in its      *)
(* payload.                                                                *)
LEMMA MeterLaid ==
  ASSUME NEW b, NEW s, s.kind \in Meters, NEW z \in 0..BufferSize, NEW goes,
         SentPacket(b, s, z, goes), NEW q, q = Payload(Packet(b, z))
  PROVE  \E pos : Laid(b, q, s.parts, pos, Len(s.parts))
<1>0. BufferSize \in Nat
  BY BufferIs
<1>1. PICK protocol \in MeterProtocols, at \in {18, 20} :
         protocol = MeterProtocol(s.kind) /\ at = PayloadAt(protocol)
  <2>1. MeterProtocol(s.kind) \in MeterProtocols
    BY DEF MeterProtocol, MeterProtocols
  <2> QED
    BY <2>1, KindIs
<1>2. PICK l \in Int : l = z - 20
  BY <1>0
<1>3. MeterSent(b, s, l, goes)
  BY <1>2 DEF SentPacket
<1>4. /\ l >= (at - 16) + 10 /\ MeterPacket(b, l, protocol, s.fields)
      /\ s.parts \in Seq(Elements)
  BY <1>1, <1>3 DEF MeterSent
<1>5. PICK k : k = Len(s.parts)
  OBVIOUS
<1>6. PICK pos \in [1..(k + 1) -> Nat] : Layout(b, s.parts, pos, at + 10, 16 + l)
  BY <1>1, <1>3, <1>5 DEF MeterSent
<1>7. b \in Area(BufferSize)
  BY <1>4 DEF MeterPacket
<1>8. q.udp = b /\ q.at = at /\ q.size = (z - 4) - at
  <2>1. s.kind \in Data2Kinds
    BY DEF Data2Kinds
  <2>2. /\ Payload(Packet(b, z)).udp = b /\ Payload(Packet(b, z)).at = PayloadAt(ProtocolOf(s.kind))
        /\ Payload(Packet(b, z)).size = (z - 4) - PayloadAt(ProtocolOf(s.kind))
    BY <2>1, WholePayload
  <2>3. ProtocolOf(s.kind) = protocol
    BY <1>1, ProtocolAt
  <2> QED
    BY <1>1, <2>2, <2>3
<1>9. /\ q.at \in Nat /\ q.size \in Nat /\ q.size >= 10 /\ q.at + q.size = 16 + l
      /\ q.at + q.size + 4 <= BufferSize /\ q.at + q.size <= BufferSize
  BY <1>0, <1>2, <1>4, <1>8
<1>10. MeterPayload(q, BufferSize)
  BY <1>0, <1>7, <1>8, <1>9 DEF MeterPayload
<1>11. Layout(b, s.parts, pos, q.at + 10, q.at + q.size)
  BY <1>6, <1>8, <1>9
<1>12. \A o \in (q.at + q.size)..(q.at + q.size + 3) : b[o] = 0
  <2>1. Tag(b, 16 + l, 0, 0)
    BY <1>4, ThreeTags DEF MeterPacket, Headed
  <2>2. l \in Nat
    BY <1>4
  <2>3. b[16 + l] = 0 /\ b[(16 + l) + 1] = 0 /\ b[(16 + l) + 2] = 0 /\ b[(16 + l) + 3] = 0
    BY <1>0, <1>7, <1>9, <2>1, <2>2, ZeroTag
  <2>4. \A o \in (16 + l)..((16 + l) + 3) :
            o = 16 + l \/ o = (16 + l) + 1 \/ o = (16 + l) + 2 \/ o = (16 + l) + 3
    BY <2>2
  <2> QED
    BY <1>9, <2>3, <2>4
<1>13. Laid(b, q, s.parts, pos, k)
  BY <1>4, <1>5, <1>6, <1>8, <1>9, <1>10, <1>11, <1>12 DEF Laid
<1> QED
  BY <1>5, <1>13

(* What a reader of an emeter packet finds.                                *)
Delivered(b, q, parts, found, n) ==
    /\ n <= Len(found)
    /\ \A i \in 1..n : /\ getObisChannel(b, found[i]) = parts[i].channel
                       /\ getObisType(b, found[i]) = parts[i].type
                       /\ ValueThere(b, found[i], parts[i])
    /\ \A i \in (n + 1)..Len(found) : ReadBytes(b, found[i], 4) = Zeros(4)
    /\ Len(found) = n =>
           n # 0 /\ q.at + q.size - (found[n] + getObisLength(b, found[n])) < 4

(* Elements that are laid out are delivered.                               *)
LEMMA LaidDelivered ==
  ASSUME NEW b, NEW q, NEW parts, NEW pos, NEW k, Laid(b, q, parts, pos, k)
  PROVE  Delivered(b, q, parts, ObisElements(q), k)
<1>1. PICK found : found = ObisElements(q)
  OBVIOUS
<1>2. Walked(found, q, pos, k)
  BY <1>1, WalkedThrough
<1>3. ASSUME NEW i \in 1..k
      PROVE  /\ getObisChannel(b, found[i]) = parts[i].channel
             /\ getObisType(b, found[i]) = parts[i].type
             /\ ValueThere(b, found[i], parts[i])
  <2>1. PICK e \in Elements, o \in Nat : e = parts[i] /\ o = pos[i] /\ ElementAt(b, o, e)
    BY ElementPlaced
  <2>2. found[i] = o
    BY <1>2, <2>1 DEF Walked
  <2>3. getObisChannel(b, o) = e.channel /\ getObisType(b, o) = e.type /\ ValueThere(b, o, e)
    BY <2>1, ValueFound
  <2> QED
    BY <2>1, <2>2, <2>3
<1>4. ASSUME NEW i \in (k + 1)..Len(found) PROVE ReadBytes(b, found[i], 4) = Zeros(4)
  BY <1>2, RestIsEmpty
<1>5. Len(found) = k => k # 0 /\ q.at + q.size - (found[k] + getObisLength(b, found[k])) < 4
  <2>1. SUFFICES ASSUME Len(found) = k
                 PROVE  k # 0 /\ q.at + q.size - (found[k] + getObisLength(b, found[k])) < 4
    OBVIOUS
  <2>2. k # 0 /\ q.at + q.size - (found[k] + getObisLength(q.udp, found[k])) < 4
    BY <1>2, <2>1, NoRoomLeft
  <2>3. q.udp = b
    BY DEF Laid
  <2> QED
    BY <2>2, <2>3
<1>6. k <= Len(found)
  BY <1>2 DEF Walked
<1> QED
  BY <1>1, <1>3, <1>4, <1>5, <1>6 DEF Delivered

(* By the invariant the elements are delivered.                            *)
LEMMA ElementsDeliveredFollows == PacketsInv => ElementsDelivered
<1>1. SUFFICES ASSUME PacketsInv, Whole, sent.kind \in Meters PROVE ElementsDelivered
  BY DEF ElementsDelivered
<1>2. /\ SentPacket(rx, sent, size, next) /\ size \in 0..BufferSize /\ nbytes = size
  BY <1>1, WholeIs
<1>3. PICK b, s, goes : b = rx /\ s = sent /\ goes = next
  OBVIOUS
<1>4. PICK z \in 0..BufferSize : z = size
  BY <1>2
<1>5. SentPacket(b, s, z, goes) /\ s.kind \in Meters
  BY <1>1, <1>2, <1>3, <1>4
<1>6. PICK q : q = Payload(Packet(b, z))
  OBVIOUS
<1>7. Received = Packet(b, z)
  BY <1>2, <1>3, <1>4 DEF Received
<1>8. PICK n : n = Len(s.parts)
  OBVIOUS
<1>9. PICK pos : Laid(b, q, s.parts, pos, n)
  BY <1>5, <1>6, <1>8, MeterLaid
<1>10. PICK found : found = ObisElements(q)
  OBVIOUS
<1>11. Delivered(b, q, s.parts, found, n)
  BY <1>9, <1>10, LaidDelivered
<1>12. n <= Len(found)
  BY <1>11 DEF Delivered
<1>13. ASSUME NEW i \in 1..n
       PROVE  /\ getObisChannel(rx, found[i]) = sent.parts[i].channel
              /\ getObisType(rx, found[i]) = sent.parts[i].type
              /\ sent.parts[i].value \in {getObisValue4(rx, found[i]), getObisValue8(rx, found[i])}
  BY <1>3, <1>11 DEF Delivered, ValueThere
<1>14. \A i \in (n + 1)..Len(found) : ReadBytes(rx, found[i], 4) = Zeros(4)
  BY <1>3, <1>11 DEF Delivered
<1>15. Len(found) = n => n # 0 /\ q.at + q.size - (found[n] + getObisLength(rx, found[n])) < 4
  BY <1>3, <1>11 DEF Delivered
<1>16. q = Payload(Received) /\ n = Len(sent.parts)
  BY <1>3, <1>6, <1>7, <1>8
<1> QED
  BY <1>10, <1>12, <1>13, <1>14, <1>15, <1>16 DEF ElementsDelivered

(* The elements that a sender put into an emeter packet are found by a     *)
(* reader in order and with their values, and nothing else is but elements *)
(* of four zeros in the room that is left: whatever rooms, elements and    *)
(* memory there are, the walk of getNextObisElement neither loses the      *)
(* boundaries of the elements nor stops before the last one.               *)
THEOREM ElementsDeliveredAlways == PacketsSpec => []ElementsDelivered
  BY ElementsDeliveredFollows, PacketsInductive, PTL

-----------------------------------------------------------------------------
(* Registers are understood                                                *)

(* What a reader of a reply has before it: n registers and u unused ones,  *)
(* each of length bytes.                                                   *)
Readable(b, q, reply, n, u, length) ==
    /\ b \in Area(BufferSize) /\ q.udp = b /\ q.at = 20
    /\ n \in Nat \ {0} /\ u \in Nat /\ length \in Nat /\ length >= 12
    /\ n = Len(reply.registers) /\ length = RegisterLength(reply)
    /\ q.size = 34 + ((n + u) * length) /\ 20 + q.size <= BufferSize
    /\ getField(q, "CommandID") = reply.command
    /\ getRawDataLength(q) = length
    /\ \A i \in 1..n : \A j \in 1..length : b[53 + (((i - 1) * length) + j)] = Wires(reply)[i][j]
    /\ \A x \in ((n * length) + 1)..((n + u) * length) : b[53 + x] = 0

(* The numbers of rows of the same length.                                 *)
LEMMA Rows ==
  ASSUME NEW length \in Nat, NEW n \in Nat, NEW u \in Nat, NEW i \in 1..n
  PROVE  /\ (i - 1) * length \in Nat /\ i * length \in Nat
         /\ n * length \in Nat /\ (n + u) * length \in Nat
         /\ ((i - 1) * length) + length = i * length
         /\ i * length <= n * length /\ n * length <= (n + u) * length
<1>1. PICK d \in Nat : n = i + d
  <2>1. n - i \in Nat /\ n = i + (n - i)
    OBVIOUS
  <2> QED
    BY <2>1
<1>2. i - 1 \in Nat /\ i \in Nat
  OBVIOUS
<1>3. /\ (i - 1) * length \in Nat /\ i * length \in Nat /\ n * length \in Nat
      /\ (n + u) * length \in Nat /\ d * length \in Nat /\ u * length \in Nat
  BY <1>2
<1>4. ((i - 1) * length) + length = i * length
  BY <1>2
<1>5. n * length = (i * length) + (d * length) /\ (n + u) * length = (n * length) + (u * length)
  BY <1>1, <1>2
<1> QED
  BY <1>3, <1>4, <1>5

(* A device's ids and the size of its packet tell the length of its        *)
(* registers.                                                              *)
LEMMA LengthIs ==
  ASSUME NEW reply \in Registers, NEW q, NEW m \in Nat \ {0}, m = RegistersOf(reply),
         NEW length \in Nat, length >= 12, q.size = 34 + (m * length), q.size < UINT32_RANGE,
         getField(q, "FirstRegisterID") = reply.first,
         getField(q, "LastRegisterID") = LastRegister(reply)
  PROVE  getRawDataLength(q) = length
<1>1. ToNat(LastRegister(reply)) = LastRegisterID(reply)
  <2>1. LastRegisterID(reply) \in Nat
    BY LastRegisterIs
  <2>2. LastRegisterID(reply) \div (UINT16_MAX + 1) <= UINT16_MAX
    BY ReplyIs DEF ReplyOfDevice
  <2> QED
    BY <2>1, <2>2, Uint32Of DEF LastRegister
<1>2. NumRegisters(q) = m
  <2>1. PICK f \in Nat : f = ToNat(reply.first) /\ LastRegisterID(reply) = f + m - 1
    BY LastRegisterIs
  <2>2. NumRegisters(q) = ((f + m - 1) - f) + 1
    BY <1>1, <2>1 DEF NumRegisters
  <2> QED
    BY <2>2
<1>3. PICK k \in Nat : k = m * length
  OBVIOUS
<1>4. k > 0
  <2>1. PICK p \in Nat : m = p + 1
    <3>1. m - 1 \in Nat /\ m = (m - 1) + 1
      OBVIOUS
    <3> QED
      BY <3>1
  <2>2. k = (p * length) + length /\ p * length \in Nat
    BY <1>3, <2>1
  <2> QED
    BY <2>2
<1>5. k % m = 0 /\ k \div m = length
  <2>1. length \in Int /\ 0 \in 0..(m - 1)
    OBVIOUS
  <2>2. (length * m + 0) % m = 0 /\ (length * m + 0) \div m = length
    BY <2>1, OneBit, Numbers!OnlyDivision
  <2>3. length * m + 0 = k
    BY <1>3
  <2> QED
    BY <2>2, <2>3
<1>6. (q.size - sma_data_offset) % UINT32_RANGE = k
  <2>1. q.size - sma_data_offset = k /\ k < UINT32_RANGE
    BY <1>3, RangeIs DEF sma_data_offset
  <2>2. k % UINT32_RANGE = k
    BY <2>1, RangeIs, SmallRest
  <2> QED
    BY <2>1, <2>2, Zenon
<1> QED
  BY <1>2, <1>4, <1>5, <1>6 DEF getRawDataLength

(* A reply that was received as a whole is what its reader has before it.  *)
LEMMA AnswerRead ==
  ASSUME NEW b, NEW s, s.kind \in Replies, NEW z \in 0..BufferSize, NEW goes,
         SentPacket(b, s, z, goes), NEW q, q = Payload(Packet(b, z)),
         NEW reply, reply = s.parts[1]
  PROVE  /\ reply \in Registers
         /\ Readable(b, q, reply, Len(reply.registers), reply.unused, RegisterLength(reply))
<1>1. InverterSent(b, s, z - 20)
  BY DEF SentPacket
<1>2. Answered(b, s, z - 20)
  BY <1>1 DEF InverterSent
<1>3. /\ reply \in Registers /\ z - 20 = 38 + Len(RegisterBytes(reply)) /\ AnswerFields(s.fields, reply)
      /\ \A i \in 1..Len(RegisterBytes(reply)) : b[53 + i] = RegisterBytes(reply)[i]
  BY <1>2 DEF Answered
<1>4. PICK n, u, length, raw : /\ n = Len(reply.registers) /\ u = reply.unused
                               /\ length = RegisterLength(reply) /\ raw = RegisterBytes(reply)
  OBVIOUS
<1>5. n \in Nat \ {0} /\ u \in Nat /\ length \in Nat /\ length >= 12
  BY <1>3, <1>4, ReplyCounts, ReplyIs
<1>6. /\ raw \in Seq(Byte) /\ Len(raw) = (n + u) * length /\ PiecesAt(raw, Wires(reply), n, length)
      /\ \A x \in ((n * length) + 1)..((n + u) * length) : raw[x] = 0
  BY <1>3, <1>4, RegisterBytesAre DEF RegistersLaid
<1>7. PICK k \in Nat : k = Len(raw)
  BY <1>6
<1>8. z = 58 + k
  <2>1. z - 20 = 38 + k /\ z \in Int
    BY <1>3, <1>4, <1>7, BufferIs
  <2> QED
    BY <2>1
<1>9. q.udp = b /\ q.at = 20 /\ q.size = 34 + k /\ 20 + q.size <= BufferSize /\ b \in Area(BufferSize)
  <2>1. s.kind \in Data2Kinds /\ s.kind \in Requests \cup Replies
    BY DEF Data2Kinds
  <2>2. ProtocolOf(s.kind) = sma_inverter_protocol_id /\ PayloadAt(ProtocolOf(s.kind)) = 20
    BY <2>1, ProtocolAt
  <2>3. q.udp = b /\ q.at = 20 /\ q.size = (z - 4) - 20
    BY <2>1, <2>2, WholePayload
  <2>4. z <= BufferSize /\ BufferSize \in Nat
    BY BufferIs
  <2>5. b \in Area(BufferSize)
    BY <1>1 DEF InverterSent, InverterPacket
  <2> QED
    BY <1>8, <2>3, <2>4, <2>5
<1>10. /\ getField(q, "CommandID") = reply.command /\ getField(q, "FirstRegisterID") = reply.first
       /\ getField(q, "LastRegisterID") = LastRegister(reply)
  <2>1. s.kind \in Requests \cup Replies
    OBVIOUS
  <2>2. \A f \in DOMAIN s.fields : getField(q, f) = s.fields[f]
    BY <2>1, InverterKept DEF InverterFieldsKept
  <2> QED
    BY <1>3, <2>2 DEF AnswerFields, LastRegister
<1>11. getRawDataLength(q) = length
  <2>1. PICK m \in Nat \ {0} : m = n + u
    BY <1>5
  <2>2. m = RegistersOf(reply)
    BY <1>4, <2>1 DEF RegistersOf
  <2>3. q.size = 34 + (m * length)
    BY <1>6, <1>7, <1>9, <2>1
  <2>4. q.size < UINT32_RANGE
    BY <1>9, RangeIs
  <2> QED
    BY <1>3, <1>5, <1>10, <2>2, <2>3, <2>4, LengthIs
<1>12. ASSUME NEW i \in 1..n, NEW j \in 1..length
       PROVE  b[53 + (((i - 1) * length) + j)] = Wires(reply)[i][j]
  <2>1. ((i - 1) * length) + j \in 1..(n * length) /\ n * length <= (n + u) * length
        /\ n * length \in Nat /\ (n + u) * length \in Nat
    BY <1>5, PieceInside, Rows
  <2>2. PICK x \in Int : x = ((i - 1) * length) + j
    BY <2>1
  <2>3. x \in 1..k
    BY <1>6, <1>7, <2>1, <2>2
  <2>4. raw[x] = Wires(reply)[i][j]
    BY <1>6, <2>2 DEF PiecesAt
  <2>5. b[53 + x] = raw[x]
    BY <1>3, <1>4, <1>7, <2>3
  <2> QED
    BY <2>2, <2>4, <2>5
<1>13. ASSUME NEW x \in ((n * length) + 1)..((n + u) * length)
       PROVE  b[53 + x] = 0
  <2>1. n * length \in Nat
    BY <1>5
  <2>2. x \in 1..k
    BY <1>6, <1>7, <2>1
  <2> QED
    BY <1>3, <1>4, <1>6, <1>7, <2>2
<1>14. q.size = 34 + ((n + u) * length)
  BY <1>6, <1>7, <1>9
<1> QED
  BY <1>3, <1>4, <1>5, <1>9, <1>10, <1>11, <1>12, <1>13, <1>14 DEF Readable

(* Four bytes are not all zeros.                                           *)
Starts(w) == ~(w[1] = 0 /\ w[2] = 0 /\ w[3] = 0 /\ w[4] = 0)

(* A register does not begin like the room behind the registers.           *)
LEMMA WireStarts ==
  ASSUME NEW r \in SentRegisters, NEW command, RegisterOf(command, r),
         NEW w, w = RegisterWire(command, r)
  PROVE  Starts(w)
<1>1. r.id \in [1..3 -> Byte] /\ r.time \in [1..4 -> Byte]
  BY RegisterIs
<1>2. CASE OfTimeline(command)
  <2>1. TimedWire(w, r) /\ r.time # Zeros(4)
    BY <1>2, WireIs DEF RegisterOf
  <2>2. w[1] = r.time[4] /\ w[2] = r.time[3] /\ w[3] = r.time[2] /\ w[4] = r.time[1]
    <3>1. /\ 1 \in 1..4 /\ 2 \in 1..4 /\ 3 \in 1..4 /\ 4 \in 1..4
          /\ 5 - 1 = 4 /\ 5 - 2 = 3 /\ 5 - 3 = 2 /\ 5 - 4 = 1
      OBVIOUS
    <3>2. \A i \in 1..4 : w[i] = r.time[5 - i]
      BY <2>1 DEF TimedWire
    <3> QED
      BY <3>1, <3>2
  <2>3. ~(r.time[1] = 0 /\ r.time[2] = 0 /\ r.time[3] = 0 /\ r.time[4] = 0)
    <3>1. PICK t \in [1..4 -> Byte] : t = r.time
      BY <1>1
    <3>2. \A i \in 1..4 : i = 1 \/ i = 2 \/ i = 3 \/ i = 4
      OBVIOUS
    <3>3. t = [i \in 1..4 |-> t[i]]
      OBVIOUS
    <3> QED
      BY <2>1, <3>1, <3>2, <3>3 DEF Zeros
  <2> QED
    BY <2>2, <2>3 DEF Starts
<1>3. CASE ~OfTimeline(command)
  <2>1. CodedWire(w, r) /\ r.id[1] = 0 /\ r.id # Zeros(3)
    BY <1>3, WireIs DEF RegisterOf
  <2>2. w[2] = r.id[3] /\ w[3] = r.id[2]
    BY <2>1 DEF CodedWire
  <2>3. ~(r.id[1] = 0 /\ r.id[2] = 0 /\ r.id[3] = 0)
    <3>1. PICK t \in [1..3 -> Byte] : t = r.id
      BY <1>1
    <3>2. \A i \in 1..3 : i = 1 \/ i = 2 \/ i = 3
      OBVIOUS
    <3>3. t = [i \in 1..3 |-> t[i]]
      OBVIOUS
    <3> QED
      BY <2>1, <3>1, <3>2, <3>3 DEF Zeros
  <2> QED
    BY <2>1, <2>2, <2>3 DEF Starts
<1> QED
  BY <1>2, <1>3

(* The registers of a reply, each with its bytes.                          *)
LEMMA RegisterSent ==
  ASSUME NEW reply \in Registers, NEW i \in 1..Len(reply.registers)
  PROVE  /\ reply.registers[i] \in SentRegisters /\ RegisterOf(reply.command, reply.registers[i])
         /\ Wires(reply)[i] = RegisterWire(reply.command, reply.registers[i])
         /\ Wires(reply)[i] \in Seq(Byte) /\ Len(Wires(reply)[i]) = RegisterLength(reply)
<1>1. reply.registers \in Seq(SentRegisters) /\ ReplyOfDevice(reply)
  BY ReplyIs
<1>2. reply.registers[i] \in SentRegisters
  BY <1>1, ElementTyped
<1>3. i \in DOMAIN reply.registers
  BY <1>1
<1>4. RegisterOf(reply.command, reply.registers[i])
  BY <1>1, <1>3 DEF ReplyOfDevice
<1>5. Wires(reply)[i] = RegisterWire(reply.command, reply.registers[i])
  BY DEF Wires
<1>6. Wires(reply)[i] \in Seq(Byte) /\ Len(Wires(reply)[i]) = RegisterLength(reply)
  BY ReplyCounts DEF Pieces
<1> QED
  BY <1>2, <1>4, <1>5, <1>6

(* Where the registers are.                                                *)
RegisterAt(i, length) == 34 + ((i - 1) * length)

(* Behind a register comes the next one, and behind the last one none.     *)
LEMMA RegisterNext ==
  ASSUME NEW reply \in Registers, NEW b, NEW q, NEW n, NEW u, NEW length,
         Readable(b, q, reply, n, u, length), NEW i \in 1..n
  PROVE  /\ RegisterAt(i, length) \in 0..q.size
         /\ RegisterAfter(q)[RegisterAt(i, length)] = IF i = n THEN NULL ELSE RegisterAt(i + 1, length)
<1>0. /\ n \in Nat \ {0} /\ u \in Nat /\ length \in Nat /\ length >= 12 /\ q.udp = b /\ q.at = 20
      /\ q.size = 34 + ((n + u) * length) /\ getRawDataLength(q) = length /\ n = Len(reply.registers)
  BY DEF Readable
<1>1. PICK x \in Nat, y \in Nat, k \in Nat, m \in Nat :
         /\ x = (i - 1) * length /\ y = i * length /\ k = n * length /\ m = (n + u) * length
         /\ x + length = y /\ y <= k /\ k <= m
  <2>1. /\ (i - 1) * length \in Nat /\ i * length \in Nat /\ n * length \in Nat /\ (n + u) * length \in Nat
        /\ ((i - 1) * length) + length = i * length
        /\ i * length <= n * length /\ n * length <= (n + u) * length
    BY <1>0, Rows
  <2> QED
    BY <2>1, Zenon
<1>9. length \in Nat /\ length >= 12
  BY <1>0
<1>2. q.size = 34 + m /\ RegisterAt(i, length) = 34 + x
  BY <1>0, <1>1 DEF RegisterAt
<1>3. 34 + x \in 0..q.size
  <2>1. x <= m
    BY <1>1, <1>9
  <2> QED
    BY <1>2, <2>1
<1>4. RegisterAfter(q)[34 + x] = getNextRawDataElement(q, 34 + x, length)
  <2>1. 34 + x \in 0..(q.size + 34)
    BY <1>1, <1>2, <1>3
  <2> QED
    BY <1>0, <2>1 DEF RegisterAfter
<1>5. getNextRawDataElement(q, 34 + x, length) =
         IF 38 + y > q.size \/ Word(q, 34 + y) = Zeros(4) \/ (34 + y) + length > q.size THEN NULL ELSE 34 + y
  <2>1. (34 + x) + length = 34 + y /\ (34 + y) + 4 = 38 + y
    BY <1>0, <1>1
  <2> QED
    BY <2>1 DEF getNextRawDataElement
<1>6. Word(q, 34 + y) = Zeros(4) <=>
         b[54 + y] = 0 /\ b[54 + y + 1] = 0 /\ b[54 + y + 2] = 0 /\ b[54 + y + 3] = 0
  <2>1. Word(q, 34 + y) = getLittleEndian(b, 54 + y, 4)
    <3>1. 20 + (34 + y) = 54 + y
      BY <1>1
    <3> QED
      BY <1>0, <3>1 DEF Word
  <2>2. 54 + y \in Nat
    BY <1>1
  <2> QED
    BY <2>1, <2>2, ZeroBytes
<1>7. CASE i = n
  <2>1. y = k
    BY <1>1, <1>7
  <2>2. ASSUME ~(38 + y > q.size) PROVE Word(q, 34 + y) = Zeros(4)
    <3>1. k + 4 <= m
      BY <1>1, <1>2, <2>1, <2>2
    <3>2. \A o \in (k + 1)..m : b[53 + o] = 0
      BY <1>1 DEF Readable
    <3>3. /\ k + 1 \in (k + 1)..m /\ k + 2 \in (k + 1)..m /\ k + 3 \in (k + 1)..m /\ k + 4 \in (k + 1)..m
          /\ 53 + (k + 1) = 54 + y /\ 53 + (k + 2) = 54 + y + 1
          /\ 53 + (k + 3) = 54 + y + 2 /\ 53 + (k + 4) = 54 + y + 3
      BY <1>1, <2>1, <3>1
    <3>4. b[54 + y] = 0 /\ b[54 + y + 1] = 0 /\ b[54 + y + 2] = 0 /\ b[54 + y + 3] = 0
      BY <3>2, <3>3
    <3> QED
      BY <1>6, <3>4
  <2> QED
    BY <1>2, <1>3, <1>4, <1>5, <1>7, <2>2
<1>8. CASE i # n
  <2>1. i + 1 \in 1..n /\ i \in Nat /\ (i + 1) - 1 = i
    BY <1>0, <1>8
  <2>2. y + length <= m /\ RegisterAt(i + 1, length) = 34 + y
    <3>1. ((i + 1) - 1) * length = y
      BY <1>1, <2>1
    <3>2. (((i + 1) - 1) * length) + length = (i + 1) * length /\ (i + 1) * length <= n * length
          /\ (i + 1) * length \in Nat
      BY <1>0, <2>1, Rows
    <3> QED
      BY <1>1, <3>1, <3>2 DEF RegisterAt
  <2>3. Word(q, 34 + y) # Zeros(4)
    <3>1. PICK w : w = Wires(reply)[i + 1]
      OBVIOUS
    <3>2. Starts(w)
      BY <1>0, <2>1, <3>1, RegisterSent, WireStarts
    <3>3. \A j \in 1..length : b[53 + (((i + 1) - 1) * length + j)] = w[j]
      BY <2>1, <3>1 DEF Readable
    <3>4. \A j \in 1..length : b[53 + (y + j)] = w[j]
      BY <1>1, <2>1, <3>3
    <3>5. /\ 1 \in 1..length /\ 2 \in 1..length /\ 3 \in 1..length /\ 4 \in 1..length
          /\ 53 + (y + 1) = 54 + y /\ 53 + (y + 2) = 54 + y + 1
          /\ 53 + (y + 3) = 54 + y + 2 /\ 53 + (y + 4) = 54 + y + 3
      BY <1>0, <1>1
    <3>6. b[54 + y] = w[1] /\ b[54 + y + 1] = w[2] /\ b[54 + y + 2] = w[3] /\ b[54 + y + 3] = w[4]
      BY <3>4, <3>5
    <3> QED
      BY <1>6, <3>2, <3>6 DEF Starts
  <2>4. ~(38 + y > q.size) /\ ~((34 + y) + length > q.size)
    <3>1. 38 + y <= 34 + m /\ (34 + y) + length <= 34 + m
      BY <1>9, <2>2
    <3> QED
      BY <1>2, <1>9, <3>1
  <2> QED
    BY <1>2, <1>3, <1>4, <1>5, <1>8, <2>2, <2>3, <2>4
<1> QED
  BY <1>7, <1>8

(* The walk over the registers visits each of them, and no unused one.     *)
LEMMA RegistersWalked ==
  ASSUME NEW reply \in Registers, NEW b, NEW q, NEW n, NEW u, NEW length,
         Readable(b, q, reply, n, u, length)
  PROVE  /\ DOMAIN RawElements(q) = 1..n /\ Len(RawElements(q)) = n
         /\ \A i \in 1..n : RawElements(q)[i] = RegisterAt(i, length)
<1>0. /\ b \in Area(BufferSize) /\ n \in Nat \ {0} /\ u \in Nat /\ length \in Nat /\ length >= 12
      /\ q.udp = b /\ q.at = 20 /\ q.size = 34 + ((n + u) * length) /\ 20 + q.size <= BufferSize
      /\ getRawDataLength(q) = length
  BY DEF Readable
<1>1. q.size \in Int /\ BufferSize \in Nat
  BY <1>0, BufferIs
<1>2. PICK w, G, step : w = RawElements(q) /\ G = RegisterPlaces(q) /\ step = RegisterAfter(q)
  OBVIOUS
<1>3. Path(w, 34, step, G)
  <2>1. /\ q.udp \in Area(BufferSize) /\ q.at \in Nat /\ q.size \in Nat /\ q.at + 34 <= BufferSize
        /\ getRawDataLength(q) # 0
    <3>1. PICK k \in Nat : k = (n + u) * length
      BY <1>0
    <3> QED
      BY <1>0, <1>1, <3>1
  <2> QED
    BY <1>1, <1>2, <2>1, RegistersPath
<1>4. PICK pos : pos = [i \in 1..n |-> RegisterAt(i, length)]
  OBVIOUS
<1>5. \A i \in 1..n : pos[i] \in Int /\ pos[i] >= 0
  <2>1. \A i \in 1..n : pos[i] = RegisterAt(i, length) /\ RegisterAt(i, length) \in 0..q.size
    BY <1>4, RegisterNext
  <2> QED
    BY <1>1, <2>1
<1>6. pos[1] = 34
  <2>1. 1 \in 1..n /\ (1 - 1) * length = 0
    BY <1>0
  <2> QED
    BY <1>4, <2>1 DEF RegisterAt
<1>7. ASSUME NEW i \in 1..(n - 1) PROVE step[pos[i]] = pos[i + 1] /\ pos[i + 1] # NULL
  <2>1. i \in 1..n /\ i + 1 \in 1..n /\ i # n
    BY <1>0
  <2>2. pos[i] = RegisterAt(i, length) /\ pos[i + 1] = RegisterAt(i + 1, length)
    BY <1>4, <2>1
  <2>3. step[pos[i]] = pos[i + 1]
    BY <1>2, <2>1, <2>2, RegisterNext
  <2>4. pos[i + 1] # NULL
    BY <1>5, <2>1 DEF NULL
  <2> QED
    BY <2>3, <2>4
<1>8. Begun(w, pos, n)
  <2>1. Steps(step, pos, n)
    BY <1>7 DEF Steps
  <2>2. 34 # NULL /\ n \in Nat
    BY <1>0 DEF NULL
  <2> QED
    BY <1>3, <1>6, <2>1, <2>2, PathFollows
<1>9. step[pos[n]] = NULL
  <2>1. n \in 1..n
    BY <1>0
  <2> QED
    BY <1>2, <1>4, <2>1, RegisterNext
<1>10. PICK m \in Nat : m = Len(w)
  BY <1>3 DEF Path
<1>11. n <= m /\ w[n] = pos[n]
  <2>1. n \in 1..n
    BY <1>0
  <2> QED
    BY <1>8, <1>10, <2>1 DEF Begun
<1>12. m = n
  <2>1. ASSUME n < m PROVE FALSE
    <3>1. n \in 1..(m - 1) /\ n + 1 \in 1..m
      BY <1>0, <2>1
    <3>2. w[n + 1] = NULL
      BY <1>3, <1>9, <1>10, <1>11, <3>1 DEF Path
    <3>3. w \in Seq(G) /\ n + 1 \in 1..Len(w)
      BY <1>3, <1>10, <3>1 DEF Path
    <3>4. w[n + 1] \in G
      BY <3>3, ElementTyped
    <3> QED
      BY <1>2, <3>2, <3>4 DEF RegisterPlaces, NULL
  <2> QED
    BY <1>0, <1>11, <2>1
<1>13. DOMAIN w = 1..n
  <2>1. DOMAIN w = 1..Len(w)
    BY <1>3, LenProperties DEF Path
  <2> QED
    BY <1>10, <1>12, <2>1, Zenon
<1>14. \A i \in 1..n : w[i] = RegisterAt(i, length)
  BY <1>4, <1>8 DEF Begun
<1> QED
  BY <1>2, <1>10, <1>12, <1>13, <1>14

(* The bytes of a register are where the walk finds it.                    *)
LEMMA RegisterBytesThere ==
  ASSUME NEW reply \in Registers, NEW b, NEW q, NEW n, NEW u, NEW length,
         Readable(b, q, reply, n, u, length), NEW i \in 1..n
  PROVE  /\ BytesAt(b, q, RegisterAt(i, length), Wires(reply)[i]) /\ Len(Wires(reply)[i]) = length
<1>1. /\ n \in Nat \ {0} /\ length \in Nat /\ length >= 12 /\ q.udp = b /\ q.at = 20
      /\ n = Len(reply.registers)
  BY DEF Readable
<1>2. PICK x \in Nat : x = (i - 1) * length
  <2>1. (i - 1) * length \in Nat
    BY <1>1, Rows
  <2> QED
    BY <2>1
<1>3. RegisterAt(i, length) = 34 + x
  BY <1>2 DEF RegisterAt
<1>4. Len(Wires(reply)[i]) = length
  <2>1. Wires(reply)[i] \in Seq(Byte) /\ Len(Wires(reply)[i]) = RegisterLength(reply)
    BY <1>1, RegisterSent
  <2> QED
    BY <2>1 DEF Readable
<1>5. ASSUME NEW j \in 1..length
      PROVE  b[19 + ((34 + x) + j)] = Wires(reply)[i][j]
  <2>1. b[53 + (x + j)] = Wires(reply)[i][j]
    <3>1. b[53 + (((i - 1) * length) + j)] = Wires(reply)[i][j]
      BY DEF Readable
    <3> QED
      BY <1>2, <3>1, Zenon
  <2>2. 53 + (x + j) = 19 + ((34 + x) + j)
    BY <1>1
  <2> QED
    BY <2>1, <2>2
<1> QED
  BY <1>1, <1>3, <1>4, <1>5 DEF BytesAt

(* What is numbered from 1 to n has the length n.                          *)
LEMMA LenOfDomain ==
  ASSUME NEW f, NEW n \in Nat, DOMAIN f = 1..n
  PROVE  Len(f) = n
  OBVIOUS

(* All registers that a device sent are found, each as it was sent.        *)
LEMMA RegistersRead ==
  ASSUME NEW reply \in Registers, NEW b, NEW q, NEW n, NEW u, NEW length,
         Readable(b, q, reply, n, u, length), NEW found, found = getRawDataElements(q)
  PROVE  /\ Len(found) = n /\ DOMAIN found = 1..n
         /\ \A i \in 1..n : found[i] = Parsed(reply.command, reply.registers[i])
<1>1. PICK command : command = reply.command
  OBVIOUS
<1>2. /\ n \in Nat /\ n = Len(reply.registers) /\ length = getRawDataLength(q)
      /\ command = getField(q, "CommandID")
  BY <1>1 DEF Readable
<1>3. command \in FourBytes /\ command[4] # 0
  BY <1>1, ReplyIs DEF ReplyOfDevice
<1>4. PICK places : places = RawElements(q)
  OBVIOUS
<1>5. found = [i \in DOMAIN places |-> Reading(q, places[i], length, command)]
  BY <1>2, <1>3, <1>4, FoundIs
<1>6. DOMAIN places = 1..n /\ \A i \in 1..n : places[i] = RegisterAt(i, length)
  BY <1>4, RegistersWalked
<1>7. found = [i \in 1..n |-> Reading(q, RegisterAt(i, length), length, command)]
  BY <1>5, <1>6
<1>8. ASSUME NEW i \in 1..n
      PROVE  found[i] = Parsed(command, reply.registers[i])
  <2>1. PICK w : w = Wires(reply)[i]
    OBVIOUS
  <2>2. PICK r \in SentRegisters : r = reply.registers[i] /\ RegisterOf(command, r) /\ w = RegisterWire(command, r)
    BY <1>1, <1>2, <2>1, RegisterSent
  <2>3. PICK e : e = RegisterAt(i, length)
    OBVIOUS
  <2>4. BytesAt(b, q, e, w) /\ Len(w) = length
    BY <2>1, <2>3, RegisterBytesThere
  <2>5. Reading(q, e, length, command) = Parsed(command, r)
    BY <1>2, <1>3, <2>2, <2>4, RegisterReadBack
  <2> QED
    BY <1>7, <2>2, <2>3, <2>5
<1>9. DOMAIN found = 1..n /\ Len(found) = n
  <2>1. DOMAIN found = 1..n
    BY <1>7
  <2> QED
    BY <1>2, <2>1, LenOfDomain
<1>10. \A i \in 1..n : found[i] = Parsed(reply.command, reply.registers[i])
  BY ONLY <1>1, <1>8, SMTT(30)
<1> QED
  BY ONLY <1>9, <1>10

(* What a reader of a whole reply finds and takes.                         *)
Understood(reply, found) ==
    /\ Len(found) = Len(reply.registers) /\ DOMAIN found = DOMAIN reply.registers
    /\ \A i \in DOMAIN reply.registers :
           /\ found[i].id = reply.registers[i].id /\ found[i].conn = reply.registers[i].conn
           /\ found[i].type = reply.registers[i].type /\ found[i].time = reply.registers[i].time
           /\ found[i].data = reply.registers[i].data
           /\ Misread(reply.registers[i]) \/ getValues(found[i]) = reply.registers[i].values
           /\ consume([f \in {"command", "id", "conn", "type"} |-> found[i][f]], found[i]) =
                  Taken(reply.registers[i])

LEMMA ReplyUnderstood ==
  ASSUME NEW b, NEW s, s.kind \in Replies, NEW z \in 0..BufferSize, NEW goes,
         SentPacket(b, s, z, goes), NEW q, q = Payload(Packet(b, z))
  PROVE  Understood(s.parts[1], getRawDataElements(q))
<1>1. PICK reply, n, u, length : /\ reply = s.parts[1] /\ n = Len(reply.registers)
                                 /\ u = reply.unused /\ length = RegisterLength(reply)
  OBVIOUS
<1>2. reply \in Registers /\ Readable(b, q, reply, n, u, length)
  BY <1>1, AnswerRead
<1>3. PICK found : found = getRawDataElements(q)
  OBVIOUS
<1>4. /\ Len(found) = n /\ DOMAIN found = 1..n
      /\ \A i \in 1..n : found[i] = Parsed(reply.command, reply.registers[i])
  BY <1>2, <1>3, RegistersRead
<1>5. DOMAIN reply.registers = 1..n
  BY <1>1, <1>2, ReplyIs, LenProperties
<1>6. ASSUME NEW i \in 1..n
      PROVE  /\ found[i].id = reply.registers[i].id /\ found[i].conn = reply.registers[i].conn
             /\ found[i].type = reply.registers[i].type /\ found[i].time = reply.registers[i].time
             /\ found[i].data = reply.registers[i].data
             /\ Misread(reply.registers[i]) \/ getValues(found[i]) = reply.registers[i].values
             /\ consume([f \in {"command", "id", "conn", "type"} |-> found[i][f]], found[i]) =
                    Taken(reply.registers[i])
  <2>1. PICK r \in SentRegisters : r = reply.registers[i] /\ RegisterOf(reply.command, r)
    BY <1>1, <1>2, RegisterSent
  <2>2. PICK x : x = found[i] /\ x = Parsed(reply.command, r)
    BY <1>4, <2>1
  <2>3. x.id = r.id /\ x.conn = r.conn /\ x.type = r.type /\ x.time = r.time /\ x.data = r.data
    BY <2>2 DEF Parsed
  <2>4. Misread(r) \/ getValues(x) = r.values
    BY <2>1, <2>2, ValuesRead
  <2>5. consume([f \in {"command", "id", "conn", "type"} |-> x[f]], x) = Taken(r)
    <3>1. PICK e : e = [f \in {"command", "id", "conn", "type"} |-> x[f]]
      OBVIOUS
    <3>2. consume(e, x) = Taken(r)
      BY <2>1, <2>2, <3>1, Consumed
    <3> QED
      BY <3>1, <3>2, Zenon
  <2> QED
    BY <2>1, <2>2, <2>3, <2>4, <2>5
<1> QED
  BY <1>1, <1>3, <1>4, <1>5, <1>6 DEF Understood

LEMMA RegistersUnderstoodFollows == PacketsInv => RegistersUnderstood
<1>1. SUFFICES ASSUME PacketsInv, Whole, sent.kind \in Replies PROVE RegistersUnderstood
  BY DEF RegistersUnderstood, RegistersDelivered, MeasurementsMeant
<1>2. /\ SentPacket(rx, sent, size, next) /\ size \in 0..BufferSize /\ nbytes = size
  BY <1>1, WholeIs
<1>3. PICK b, s, goes : b = rx /\ s = sent /\ goes = next
  OBVIOUS
<1>4. PICK z \in 0..BufferSize : z = size
  BY <1>2
<1>5. SentPacket(b, s, z, goes) /\ s.kind \in Replies
  BY <1>1, <1>2, <1>3, <1>4
<1>6. PICK q : q = Payload(Packet(b, z))
  OBVIOUS
<1>7. Received = Packet(b, z)
  BY <1>2, <1>3, <1>4 DEF Received
<1>8. PICK reply, found : reply = sent.parts[1] /\ found = getRawDataElements(Payload(Received))
  OBVIOUS
<1>9. Understood(reply, found)
  BY <1>3, <1>5, <1>6, <1>7, <1>8, ReplyUnderstood
<1>10. RegistersDelivered
  BY <1>8, <1>9 DEF RegistersDelivered, Understood
<1>11. MeasurementsMeant
  BY <1>8, <1>9 DEF MeasurementsMeant, Understood, Taken
<1> QED
  BY <1>10, <1>11 DEF RegistersUnderstood

(* What a device tells in a reply arrives in the application: whatever     *)
(* registers a reply has, whatever command it answers and whatever room is *)
(* left unused, a reader that knows neither the number nor the length of   *)
(* the registers finds each of them with its data and no other             *)
(* (getRawDataLength, getNextRawDataElement, getRawDataElements), reads of *)
(* the data the values that the device meant (SpeedwireData), and an       *)
(* element takes the measurement that is due to it                         *)
(* (SpeedwireData::consume). Of eight words not in pairs, as in the answer *)
(* to unicast discovery, the code reads values that nobody meant           *)
(* (SpeedwireData.cpp:359); of these only the data are as sent.            *)
THEOREM RegistersUnderstoodAlways == PacketsSpec => []RegistersUnderstood
  BY RegistersUnderstoodFollows, PacketsInductive, PTL

=============================================================================
