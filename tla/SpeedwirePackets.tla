-------------------------- MODULE SpeedwirePackets --------------------------
(***************************************************************************)
(* A packet on its way: it is assembled in the memory of its sender field  *)
(* by field, sent as a datagram, received into a memory area that holds    *)
(* what an earlier call or an earlier packet left there, and taken apart   *)
(* by readers that are told either the number of received bytes or the     *)
(* size of the whole area (query, login).                                  *)
(*                                                                         *)
(* The library assembles the requests, the emeter packets and the          *)
(* discovery packets; replies with registers and encryption packets come   *)
(* from devices, and datagrams of any bytes from anyone. The ghost         *)
(* variable sent tells what the sender meant.                              *)
(***************************************************************************)
EXTENDS SpeedwireDiscoveryProtocol, SpeedwireData, SpeedwireEmeterProtocol,
        SpeedwireEncryptionProtocol

CONSTANTS BufferSize,    \* bytes of a memory area that receives packets
          ReceiveSizes,  \* sizes callers tell recvfrom, up to BufferSize
          Addresses,     \* [susyID, serialNumber] of this host and of devices
          PacketIDs,     \* packet ids of requests
          Ips,           \* ip addresses of devices, in network byte order
          Passwords,     \* passwords as sequences of characters
          Registers,     \* replies of devices with registers
          Datagrams,     \* the bytes of other datagrams, malformed ones too
          Rooms,         \* bytes for obis elements in an emeter packet
          Elements       \* obis elements that are put into emeter packets

(* A register that a device answers with: what it is of, its data bytes,   *)
(* and the values that the device means by them.                           *)
FourBytes == [1..4 -> Byte]
SentRegisters == [id : [1..3 -> Byte], conn : Byte, type : Byte, time : FourBytes,
                  data : Seq(Byte), values : Seq(Seq(Byte))]

(* In a line of time the command tells what all registers are of.          *)
OfTimeline(command) == CommandClass(command) \in {EventClass} \cup YieldClasses

RegisterWire(command, r) ==
    IF OfTimeline(command) THEN Reverse(r.time) \o r.data
    ELSE <<r.conn, r.id[3], r.id[2], r.type>> \o (Reverse(r.time) \o r.data)

(* All registers of a reply are as long as the first one.                  *)
RegisterLength(reply) == Len(RegisterWire(reply.command, reply.registers[1]))

(* The registers of a reply and behind them unused ones, which are zero.   *)
RegisterBytes(reply) ==
    FlattenSeq([i \in 1..Len(reply.registers) |-> RegisterWire(reply.command, reply.registers[i])])
        \o Zeros(reply.unused * RegisterLength(reply))

DataWords(r) ==
    [i \in 1..(Len(r.data) \div 4) |-> Reverse([b \in 1..4 |-> r.data[4 * (i - 1) + b]])]

InPairs(w) == w[1] = w[2] /\ w[3] = w[4] /\ w[5] = w[6] /\ w[7] = w[8]

(* Words w that stand for numbers v, as getNumberOfSignificantValues tells *)
(* them: values of history, of which the second may be missing; one or     *)
(* three measurements and a one; four settings, each twice; or eight words *)
(* of a device's answer to discovery.                                      *)
NumbersMeant(w, v) ==
    \/ Len(v) = 1 /\ w \in {<<v[1], Zeros(4)>>, <<v[1], v[1], v[1], v[1], One>>}
    \/ Len(v) = 2 /\ w = v /\ v[2] # Zeros(4)
    \/ Len(v) = 3 /\ w = <<v[1], v[2], v[3], v[3], One>> /\ ~(v[1] = v[2] /\ v[2] = v[3])
    \/ Len(v) = 4 /\ w = <<v[1], v[1], v[2], v[2], v[3], v[3], v[4], v[4]>>
    \/ Len(v) = 8 /\ w = v /\ ~InPairs(w)

(* Words w are the choices of a status, of which one is marked, or none.   *)
StatusMeant(w, v) ==
    IF v = <<>> THEN \A i \in DOMAIN w : w[i][1] # 1
    ELSE /\ Len(v) = 1 /\ v[1] \in FourBytes /\ v[1][1] = 0
         /\ \E i \in DOMAIN w : /\ w[i] = <<1>> \o Tail(v[1])
                               /\ \A j \in DOMAIN w \ {i} : w[j][1] # 1

(* The data of a register are the values it is meant to have.              *)
RegisterOf(command, r) ==
    IF OfTimeline(command)
    THEN /\ r.time # Zeros(4) /\ r.conn = 0 /\ r.id = SubSeq(command, 1, 3)
         /\ IF CommandClass(command) = EventClass
            THEN r.type = Event /\ Len(r.data) = 44 /\ r.values = <<r.data>>
            ELSE r.type = Yield /\ Len(r.data) = 8 /\ r.values = <<Reverse(r.data)>>
    ELSE /\ r.id[1] = 0 /\ r.id # Zeros(3) /\ Len(r.data) <= MaxData
         /\ \/ TypeMask(r.type) \in {Unsigned32, Signed32} /\ NumbersMeant(DataWords(r), r.values)
            \/ TypeMask(r.type) = Status32 /\ StatusMeant(DataWords(r), r.values)
            \/ TypeMask(r.type) = String32 /\ Len(r.data) = 32 /\ r.values = <<r.data>>

(* An obis element whose value has the bytes of its type; the last one of  *)
(* a firmware version is a letter or a number, not a digit.                *)
ObisElement(e) ==
    /\ e.channel \in Byte /\ e.index \in Byte /\ e.type \in Byte /\ e.tariff \in Byte
    /\ IF e.channel = sma_firmware_version_channel
       THEN e.type = 0 /\ e.value \in FourBytes /\ e.value[4] \notin 48..57
       ELSE e.type \in {4, 7, 8} /\ e.value \in [1..(IF e.type = 8 THEN 8 ELSE 4) -> Byte]

RegistersOf(reply) == Len(reply.registers) + reply.unused
LastRegisterID(reply) == ToNat(reply.first) + RegistersOf(reply) - 1

(* A device marks a command as answered, counts the long words of a reply  *)
(* in a byte, and does not number registers beyond four bytes. One reply,  *)
(* of one register, is that to the unicast discovery request.              *)
ReplyOfDevice(reply) ==
    /\ reply.command[4] # 0
    /\ reply.registers # <<>> /\ RegisterLength(reply) >= 12
    /\ \A i \in DOMAIN reply.registers :
           /\ RegisterOf(reply.command, reply.registers[i])
           /\ Len(RegisterWire(reply.command, reply.registers[i])) = RegisterLength(reply)
    /\ LastRegisterID(reply) \div (UINT16_MAX + 1) <= UINT16_MAX
    /\ (38 + Len(RegisterBytes(reply))) \div 4 \in Byte
    /\ IF reply.kind = "unicast_response"
       THEN /\ reply.command = <<0, 0, 2, 1>> /\ reply.first = Zeros(4)
            /\ RegistersOf(reply) = 1 /\ Len(RegisterBytes(reply)) = 40
       ELSE reply.command \notin {<<0, 0, 2, 0>>, <<0, 0, 2, 1>>}

(* Every packet fits into the memory areas, and they into a datagram.      *)
ASSUME PacketsAssumption ==
    /\ BufferSize \in Nat /\ 78 <= BufferSize /\ BufferSize <= UINT16_MAX
    /\ UINT32_RANGE \in Nat /\ BufferSize < UINT32_RANGE
    /\ Behind \in [1..BehindBytes -> Byte]
    /\ ReceiveSizes \subseteq 0..BufferSize
    /\ Addresses \subseteq [susyID : [1..2 -> Byte], serialNumber : FourBytes]
    /\ PacketIDs \subseteq [1..2 -> Byte]
    /\ Ips \subseteq FourBytes
    /\ Passwords \subseteq Seq(Byte)
    /\ Registers \subseteq [kind : {"reply", "unicast_response"}, command : FourBytes,
                            first : FourBytes, registers : Seq(SentRegisters), unused : Nat]
    /\ \A reply \in Registers : 58 + Len(RegisterBytes(reply)) <= BufferSize /\ ReplyOfDevice(reply)
    /\ Datagrams \subseteq Seq(Byte) /\ \A d \in Datagrams : Len(d) <= BufferSize
    /\ \A room \in Rooms : room \in Nat /\ 34 + room <= BufferSize
    /\ \A e \in Elements : ObisElement(e)

VARIABLES udp,     \* the sender's memory
          size,    \* the length of the datagram
          next,    \* where the next obis element goes, or NULL
          sent,    \* ghost: kind of the packet, its fields and its parts
          rx,      \* the receiver's memory
          nbytes,  \* the number of bytes recvfrom returned
          stage    \* "start", "filling", "sent", "received"

packet_vars == <<udp, size, next, sent, rx, nbytes, stage>>

NoBytes == [o \in 0..(BufferSize - 1) |-> 0]
(* Two parties that talk to each other.                                    *)
Pairs == {pair \in Addresses \X Addresses : pair[1] # pair[2]}
Broadcast == [susyID |-> <<255, 255>>, serialNumber |-> <<255, 255, 255, 255>>]

(* What the receiver's memory may hold: uninitialised memory of the stack, *)
(* with small numbers in its words or with anything else, or an earlier    *)
(* discovery response.                                                     *)
Leftovers ==
    {[o \in 0..(BufferSize - 1) |-> 255],
     [o \in 0..(BufferSize - 1) |-> IF o % 4 = 3 THEN sma_tag_ip_address ELSE 0]}
        \cup {WriteBytes(NoBytes, 0, defaultResponse(Group1, ip)) : ip \in Ips}

PacketsInit ==
    /\ udp = NoBytes /\ size = 0 /\ next = NULL
    /\ sent = [kind |-> "none", fields |-> <<>>, parts |-> <<>>]
    /\ rx \in Leftovers
    /\ nbytes = 0
    /\ stage = "start"

-----------------------------------------------------------------------------
(* Senders                                                                 *)

Send(kind, bytes, length, fields, parts) ==
    /\ udp' = bytes /\ size' = length
    /\ sent' = [kind |-> kind, fields |-> fields, parts |-> parts]
    /\ stage' = "sent"
    /\ UNCHANGED <<next, rx, nbytes>>

SendMulticastRequest ==
    /\ stage = "start"
    /\ Send("multicast_request", setMulticastRequestPacket(udp), Len(multicast_request), <<>>,
            <<>>)

SendMulticastResponse(ip) ==
    /\ stage = "start"
    /\ Send("multicast_response", setDefaultResponsePacket(udp, Group1, ip),
            getDefaultResponsePacketLength, [ip |-> ip], <<>>)

SendUnicastRequest(local, id) ==
    /\ stage = "start"
    /\ Send("unicast_request", getUnicastRequest(udp, local, id), Len(unicast_request),
            [SrcSusyID |-> local.susyID, SrcSerialNumber |-> local.serialNumber, PacketID |-> id,
             DstSusyID |-> <<255, 255>>, CommandID |-> <<0, 0, 2, 0>>], <<>>)

(* The header of an inverter packet of length bytes and its control byte.  *)
InverterHeader(length) ==
    LET p == setDefaultHeader(Packet(NoBytes, length), Group1, length - 20, sma_inverter_protocol_id)
    IN  WriteBytes(p, Data2(Packet(p, length)) + 7, <<160>>)

InverterAt(length) == Payload(Packet(InverterHeader(length), length)).at

Fields(dst, src, control, id, command, first, last) ==
    [DstSusyID |-> dst.susyID, DstSerialNumber |-> dst.serialNumber, DstControl |-> control,
     SrcSusyID |-> src.susyID, SrcSerialNumber |-> src.serialNumber, SrcControl |-> control,
     ErrorCode |-> <<0, 0>>, FragmentCounter |-> <<0, 0>>, PacketID |-> id,
     CommandID |-> command, FirstRegisterID |-> first, LastRegisterID |-> last]

SendQueryRequest(peer, local, id, command, first, last) ==
    /\ stage = "start"
    /\ LET fields == Fields(peer, local, <<1, 0>>, id, command, first, last)
       IN  Send("query", setFields(InverterHeader(58), InverterAt(58), fields), 58, fields, <<>>)

USER == <<0, 0, 0, 7>>
INSTALLER == <<0, 0, 0, 10>>
Pattern(user) == IF user = USER THEN 136 ELSE 187

getEncodedPassword(user, password) ==
    [i \in 1..12 |-> ((IF i <= Len(password) THEN password[i] ELSE 0) + Pattern(user)) % 256]

SendLoginRequest(dst, src, id, user, password, now) ==
    /\ stage = "start"
    /\ LET fields == Fields(dst, src, <<1, 0>>, id, <<255, 253, 4, 12>>, user, <<0, 0, 3, 132>>)
           set    == setFields(InverterHeader(78), InverterAt(78), fields)
           data   == Reverse(now) \o Zeros(4) \o getEncodedPassword(user, password)
       IN  Send("login", setDataUint8Array(set, InverterAt(78), 0, data), 78, fields, <<password>>)

(* The last register id lies where the end-of-data tag does, and both are  *)
(* zero.                                                                   *)
SendLogoffRequest(dst, src, id) ==
    /\ stage = "start"
    /\ LET fields == Fields(dst, src, <<3, 0>>, id, <<255, 253, 1, 224>>,
                            <<255, 255, 255, 255>>, Zeros(4))
       IN  Send("logoff", setFields(InverterHeader(54), InverterAt(54), fields), 54, fields, <<>>)

(* A device answers with registers from first on.                          *)
SendReply(dst, src, id, reply) ==
    /\ stage = "start"
    /\ LET raw    == RegisterBytes(reply)
           length == 58 + Len(raw)
           fields == Fields(dst, src, <<0, 1>>, id, reply.command, reply.first,
                            Uint32(LastRegisterID(reply)))
           set    == setFields(InverterHeader(length), InverterAt(length), fields)
       IN  Send(reply.kind, setDataUint8Array(set, InverterAt(length), 0, raw), length, fields,
                <<reply>>)

SendEncryption(src, dst, seed) ==
    /\ stage = "start"
    /\ LET fields == [PacketType |-> <<1>>, SrcSusyID |-> src.susyID,
                      SrcSerialNumber |-> src.serialNumber, DstSusyID |-> dst.susyID,
                      DstSerialNumber |-> dst.serialNumber]
           length == getDefaultHeaderTotalLength(2 + 13 + 16)
           head   == setDefaultHeader(Packet(NoBytes, length), Group1, 2 + 13 + 16,
                                      sma_encryption_protocol_id)
           at     == Payload(Packet(head, length)).at
       IN  Send("encryption", setString16(setEncryptionFields(head, at, fields), at, 0, seed), length,
                fields, <<seed>>)

(* Whoever else sends to the socket.                                       *)
SendDatagram(d) ==
    /\ stage = "start"
    /\ Send("datagram", WriteBytes(udp, 0, d), Len(d), <<>>, <<>>)

(* An emeter packet with room for obis elements, which follow one by one.  *)
BeginEmeter(protocol, room, src, time) ==
    /\ stage = "start"
    /\ LET own    == IF protocol = sma_extended_emeter_protocol_id THEN 4 ELSE 2
           length == getDefaultHeaderTotalLength(own + sma_first_obis_offset + room)
           head   == setDefaultHeader(Packet(udp, length), Group1, own + sma_first_obis_offset + room,
                                      protocol)
           at     == Payload(Packet(head, length)).at
           fields == [SusyID |-> src.susyID, SerialNumber |-> src.serialNumber, Time |-> time]
       IN  /\ udp' = setEmeterFields(head, at, fields)
           /\ size' = length
           /\ next' = getFirstObisElement(Payload(Packet(head, length)))
           /\ sent' = [kind |-> IF own = 4 THEN "extended_emeter" ELSE "emeter",
                       fields |-> fields, parts |-> <<>>]
           /\ stage' = "filling"
           /\ UNCHANGED <<rx, nbytes>>

(* The sender goes on until an element does not fit.                       *)
AddElement(e) ==
    /\ stage = "filling" /\ next # NULL
    /\ LET q      == Payload(Packet(udp, size))
           bytes  == toByteArray(e)
           length == ObisBytesLength(bytes)
       IN  /\ udp' = setObisElement(q, next, bytes)
           /\ IF ObisFits(q, next, length)
              THEN next' = next + length /\ sent' = [sent EXCEPT !.parts = Append(@, e)]
              ELSE next' = NULL /\ UNCHANGED sent
           /\ UNCHANGED <<size, rx, nbytes, stage>>

SendEmeter ==
    /\ stage = "filling"
    /\ stage' = "sent"
    /\ UNCHANGED <<udp, size, next, sent, rx, nbytes>>

(* recvfrom copies what fits into the area it is told, and leaves the rest *)
(* of the area as it was.                                                  *)
Receive(room) ==
    /\ stage = "sent"
    /\ nbytes' = IF size < room THEN size ELSE room
    /\ rx' = [o \in DOMAIN rx |-> IF o < nbytes' THEN udp[o] ELSE rx[o]]
    /\ stage' = "received"
    /\ UNCHANGED <<udp, size, next, sent>>

PacketsNext ==
    \/ SendMulticastRequest
    \/ \E ip \in Ips : SendMulticastResponse(ip)
    \/ \E local \in Addresses, id \in PacketIDs : SendUnicastRequest(local, id)
    \/ \E pair \in Pairs, id \in PacketIDs :
           SendQueryRequest(pair[1], pair[2], id, <<83, 128, 2, 0>>, <<0, 37, 30, 0>>, <<0, 37, 30, 255>>)
    \/ \E local \in Addresses, id \in PacketIDs, user \in {USER, INSTALLER}, w \in Passwords :
           SendLoginRequest(Broadcast, local, id, user, w, <<95, 232, 216, 0>>)
    \/ \E src \in Addresses, id \in PacketIDs : SendLogoffRequest(Broadcast, src, id)
    \/ \E pair \in Pairs, id \in PacketIDs, r \in Registers : SendReply(pair[1], pair[2], id, r)
    \/ \E pair \in Pairs, w \in Passwords : SendEncryption(pair[1], pair[2], w)
    \/ \E d \in Datagrams : SendDatagram(d)
    \/ \E protocol \in {sma_emeter_protocol_id, sma_extended_emeter_protocol_id},
          room \in Rooms, src \in Addresses : BeginEmeter(protocol, room, src, <<1, 2, 3, 4>>)
    \/ \E e \in Elements : AddElement(e)
    \/ SendEmeter
    \/ \E room \in ReceiveSizes : Receive(room)

PacketsSpec == PacketsInit /\ [][PacketsNext]_packet_vars

-----------------------------------------------------------------------------
(* Properties                                                              *)

Received == Packet(rx, nbytes)
WholeArea == Packet(rx, BufferSize)
Whole == stage = "received" /\ nbytes = size

Requests == {"unicast_request", "query", "login", "logoff"}
Replies == {"reply", "unicast_response"}
Meters == {"emeter", "extended_emeter"}
Discovery == {"multicast_request", "multicast_response"}

(* Memory areas hold bytes, and a datagram fits into the sender's area.    *)
PacketsTypeOK ==
    /\ udp \in [0..(BufferSize - 1) -> Byte]
    /\ rx \in [0..(BufferSize - 1) -> Byte]
    /\ size \in 0..BufferSize /\ nbytes \in 0..size
    /\ next \in {NULL} \cup 0..size
    /\ sent.kind \in {"none", "encryption", "datagram"} \cup Requests \cup Replies \cup Meters \cup Discovery
    /\ stage \in {"start", "filling", "sent", "received"}

(* The kinds of packet that the predicates of the library see in p.        *)
Is(p, kind) ==
    LET Protocol(id) == isValidData2Packet(p, TRUE) /\ getProtocolID(p) = id
    IN  CASE kind = "multicast_request" -> isValidDiscovery(p) /\ isMulticastRequestPacket(p)
          [] kind = "multicast_response" -> isValidDiscovery(p) /\ isMulticastResponsePacket(p)
          [] kind = "unicast_request" -> isUnicastRequestPacket(p)
          [] kind = "unicast_response" -> isUnicastResponsePacket(p)
          [] kind = "inverter" -> Protocol(sma_inverter_protocol_id)
          [] kind = "emeter" -> Protocol(sma_emeter_protocol_id)
          [] kind = "extended_emeter" -> Protocol(sma_extended_emeter_protocol_id)
          [] kind = "encryption" -> Protocol(sma_encryption_protocol_id)

PacketKinds == {"inverter", "encryption", "unicast_request", "unicast_response"} \cup Meters \cup Discovery

(* Every packet is recognised as what it is, by the full check too, and as *)
(* nothing else; both notions of a valid discovery packet agree on it, and *)
(* an inverter packet counts its long words as checkReply expects.         *)
Classified ==
    Whole /\ sent.kind # "datagram" =>
        /\ {kind \in PacketKinds : Is(Received, kind)} =
               ({sent.kind} \cap PacketKinds)
                   \cup (IF sent.kind \in Requests \cup Replies THEN {"inverter"} ELSE {})
        /\ isValidDiscoveryPacket(Received) <=> isValidDiscovery(Received)
        /\ sent.kind \in Requests \cup Replies =>
               getLongWords(Received) = getTagLength(Received, Data2(Received)) \div 4

(* A reader that is told the size of the area instead of the number of     *)
(* received bytes finds the same tags in anything that was received with   *)
(* its end-of-data tag, as all packets are that the library and devices    *)
(* send: it stops there, whatever earlier packets left behind it.          *)
LeftoversIgnored ==
    (Whole /\ sent.kind # "datagram") \/ (stage = "received" /\ findEodTagPacket(Received) # NULL) =>
       \A id \in {sma_tag_group_id, sma_tag_data2, sma_tag_discovery, sma_tag_ip_address} :
           findTagPacket(WholeArea, id) = findTagPacket(Received, id)

(* Tags lie inside the received bytes.                                     *)
TagsReadInside == \A tag \in ToSet(TagPackets(Received)) : tag + getTotalLength(Received, tag) <= nbytes

(* Registers lie inside the data2 tag if it holds the fields in front of   *)
(* them. If it does not, the length of a register is wrong, yet there is   *)
(* no second one to be read. A tag too short for its own header is left    *)
(* out, the size of its payload wraps and readers go anywhere; so is a tag *)
(* whose missing fields would lie behind the memory area.                  *)
RegistersReadInside ==
    LET q == Payload(Received)
        l == getTagLength(Received, Data2(Received))
    IN  getProtocolID(Received) = sma_inverter_protocol_id /\ q.at + sma_data_offset <= BufferSize =>
            /\ l >= 4 + sma_data_offset =>
                   \A e \in ToSet(RawElements(q)) : q.at + e + getRawDataLength(q) <= nbytes
            /\ l \in 4..(3 + sma_data_offset) => ToSet(RawElements(q)) \subseteq {sma_data_offset}

(* The header of the first obis element lies inside the data2 tag if there *)
(* is room for it, and the whole of all others always does. The first one  *)
(* is as long as it says in packets of meters, in others it may say more   *)
(* than there is. A tag too short for its own header is left out as above. *)
ElementsReadInside ==
    LET q     == Payload(Received)
        own   == getPayloadOffset(Received) - TAG_HEADER_LENGTH
        found == ObisElements(q)
        Inside(o) == o + getObisLength(rx, o) <= nbytes
        head  == sma_first_obis_offset + 4
        OfMeter == getProtocolID(Received) \in {sma_emeter_protocol_id, sma_extended_emeter_protocol_id}
    IN  OfMeter /\ getTagLength(Received, Data2(Received)) >= own /\ q.at + head <= BufferSize =>
            /\ \A i \in DOMAIN found \ {1} : Inside(found[i])
            /\ sent.kind \in Meters /\ q.size >= head => \A i \in DOMAIN found : Inside(found[i])

(* What readers walk over lies inside the received bytes, however few of a *)
(* packet these are and whatever they hold. Requests have no registers.    *)
ReadsInside ==
    stage = "received" =>
        /\ TagsReadInside
        /\ isValidData2Packet(Received, FALSE) =>
               /\ sent.kind \notin Requests => RegistersReadInside
               /\ ElementsReadInside

(* No reader looks at what was not received in this packet: neither beyond *)
(* its end when it knows the number of bytes, nor at leftovers when it     *)
(* knows only the size of the area, but for what is said above of tags     *)
(* that are too short.                                                     *)
ReadersStayInside == PacketsTypeOK /\ ReadsInside /\ LeftoversIgnored

(* A device recovers a password, up to twelve characters, from its code.   *)
PasswordKept(q, user, password) ==
    LET code == ReadBytes(q.udp, q.at + sma_data_offset + 8, 12)
        text == [i \in 1..12 |-> (code[i] + 256 - Pattern(user)) % 256]
        n    == Min({12, Len(password)})
    IN  text = SubSeq(password, 1, n) \o Zeros(12 - n)

SeedKept(q, seed) == IsPrefix(SubSeq(seed, 1, Min({16, Len(seed)})), getString16(q, 0))

(* The fields of a packet are read back as they were set, each by its      *)
(* getter and in the byte order of its protocol, and with them a password  *)
(* and a seed. Left out is the source serial number of an encryption       *)
(* packet, whose getter and setter disagree on the byte order.             *)
FieldsKept ==
    Whole =>
        LET q == Payload(Received)
        IN  CASE sent.kind \in Requests \cup Replies ->
                     /\ \A f \in DOMAIN sent.fields : getField(q, f) = sent.fields[f]
                     /\ sent.kind = "login" =>
                            PasswordKept(q, sent.fields["FirstRegisterID"], sent.parts[1])
              [] sent.kind \in Meters ->
                     \A f \in DOMAIN sent.fields : getEmeterField(q, f) = sent.fields[f]
              [] sent.kind = "encryption" ->
                     /\ \A f \in DOMAIN sent.fields \ {"SrcSerialNumber"} :
                            getEncryptionField(q, f) = sent.fields[f]
                     /\ SeedKept(q, sent.parts[1])
              [] sent.kind = "multicast_response" -> getIPv4Address(Received) = sent.fields.ip
              [] OTHER -> TRUE

(* Elements of an emeter packet are found in order, complete and nothing   *)
(* else but end-of-data elements in the room that is left.                 *)
ElementsDelivered ==
    Whole /\ sent.kind \in Meters =>
        LET q     == Payload(Received)
            found == ObisElements(q)
            n     == Len(sent.parts)
        IN  /\ n <= Len(found)
            /\ \A i \in 1..n :
                   LET e == sent.parts[i]  o == found[i]
                   IN  /\ getObisChannel(rx, o) = e.channel /\ getObisType(rx, o) = e.type
                       /\ e.value \in {getObisValue4(rx, o), getObisValue8(rx, o)}
            /\ \A i \in (n + 1)..Len(found) : ReadBytes(rx, found[i], 4) = Zeros(4)
            /\ Len(found) = n => q.at + q.size - (IF n = 0 THEN q.at + 10 ELSE
                                     found[n] + getObisLength(rx, found[n])) < 4

(* Of eight words not in pairs the values are not those that were meant:   *)
(* every other word, and what lies behind the data.                        *)
Misread(r) == Len(r.values) = 8

(* All registers that a device sent are found with their data, and no      *)
(* unused one, although the packet tells neither their number nor their    *)
(* length, and of the values of each those that the device meant, but for  *)
(* eight words not in pairs.                                               *)
RegistersDelivered ==
    Whole /\ sent.kind \in Replies =>
        LET found == getRawDataElements(Payload(Received))
            used  == sent.parts[1].registers
        IN  /\ Len(found) = Len(used)
            /\ \A i \in DOMAIN used :
                   /\ found[i].id = used[i].id /\ found[i].conn = used[i].conn
                   /\ found[i].type = used[i].type /\ found[i].time = used[i].time
                   /\ found[i].data = used[i].data
                   /\ Misread(used[i]) \/ getValues(found[i]) = used[i].values

(* What an application wants to know of register r: the first number, zero *)
(* for none, of a measurement or a setting, or whether the status that the *)
(* device selected is the good one.                                        *)
Measurable(r) ==
    /\ Len(r.data) >= 20
    /\ \/ TypeMask(r.type) \in {Unsigned32, Signed32}
       \/ TypeMask(r.type) = Status32 /\ r.id \in {DeviceStatusId, GridRelayId}

Measured(r) ==
    LET NaN  == IF TypeMask(r.type) = Signed32 THEN SignedNaN ELSE UnsignedNaN
        good == IF r.id = DeviceStatusId THEN StatusOK ELSE RelayOn
    IN  IF TypeMask(r.type) = Status32 THEN Uint32(IF r.values = <<good>> THEN 1 ELSE 0)
        ELSE IF r.values[1] = NaN THEN Zeros(4) ELSE r.values[1]

(* An element takes from a register of its signature the measurement that  *)
(* the device meant, and none from a register that has no measurement.     *)
MeasurementsMeant ==
    Whole /\ sent.kind \in Replies =>
        LET found == getRawDataElements(Payload(Received))
        IN  \A i \in DOMAIN found :
                LET e == [f \in {"command", "id", "conn", "type"} |-> found[i][f]]
                    r == sent.parts[1].registers[i]
                IN  consume(e, found[i]) =
                        IF Measurable(r) THEN <<[value |-> Measured(r), time |-> r.time]>> ELSE <<>>

(* What a device tells in the registers of a reply is what arrives in the  *)
(* elements of the application.                                            *)
RegistersUnderstood == RegistersDelivered /\ MeasurementsMeant

=============================================================================
