--------------------- MODULE SpeedwireDiscoveryProtocol --------------------
(***************************************************************************)
(* SpeedwireDiscoveryProtocol: the four packets of device discovery, as    *)
(* the library writes them and as it tells them apart by the tags they     *)
(* hold.                                                                   *)
(***************************************************************************)
EXTENDS SpeedwireInverterProtocol

GroupTag(group) == TagBytes(sma_tag_group_id, group)
EndTag == TagBytes(sma_tag_endofdata, <<>>)
AnyGroup == <<255, 255, 255, 255>>
Group1 == <<0, 0, 0, 1>>

multicast_request ==
    sma_signature \o GroupTag(AnyGroup) \o TagBytes(sma_tag_discovery, <<>>) \o EndTag

(* Requests for any device; the bytes are those of the SMA documentation.  *)
unicast_request ==
    sma_signature \o GroupTag(Group1)
        \o TagBytes(sma_tag_data2,
               <<96, 101, 9, 160>> \o [i \in 1..6 |-> 255] \o <<0, 0>>
               \o <<125, 0, 82, 190, 40, 58>> \o Zeros(6) \o <<1, 128>>
               \o <<0, 2, 0, 0>> \o Zeros(8))
        \o EndTag

setMulticastRequestPacket(udp) == WriteBytes(udp, 0, multicast_request)

(* ip is in network byte order; it is stored as it is.                     *)
defaultResponse(group, ip) ==
    sma_signature \o GroupTag(group) \o TagBytes(0, <<0, 1>>)
        \o TagBytes(sma_tag_data2, <<0, 1, 0, 3>>) \o TagBytes(sma_tag_discovery, Group1)
        \o TagBytes(sma_tag_ip_address, ip) \o TagBytes(112, <<239, 12>>)
        \o TagBytes(128, <<0>>) \o EndTag

setDefaultResponsePacket(udp, group, ip) == WriteBytes(udp, 0, defaultResponse(group, ip))

(* The end-of-data tag of a response in 128 zero bytes is looked up.       *)
getDefaultResponsePacketLength ==
    findEodTagPacket(Packet(setDefaultResponsePacket([o \in 0..127 |-> 0], Group1, Zeros(4)), 128))
        + TAG_HEADER_LENGTH

getUnicastRequest(udp, local, packet_id) ==
    LET template == WriteBytes(udp, 0, unicast_request)
        at       == Payload(Packet(template, Len(unicast_request))).at
    IN  setFields(template, at, [SrcSusyID |-> local.susyID,
                                 SrcSerialNumber |-> local.serialNumber,
                                 PacketID |-> packet_id])

-----------------------------------------------------------------------------

HasTag(p, id) == findTagPacket(p, id) # NULL

isMulticastRequestPacket(p) ==
    /\ HasTag(p, sma_tag_group_id) /\ ~HasTag(p, sma_tag_data2)
    /\ HasTag(p, sma_tag_discovery) /\ ~HasTag(p, sma_tag_ip_address)

isMulticastResponsePacket(p) ==
    /\ HasTag(p, sma_tag_group_id) /\ HasTag(p, sma_tag_data2)
    /\ HasTag(p, sma_tag_discovery) /\ HasTag(p, sma_tag_ip_address)

(* An inverter packet with the given command and register ids of 0.        *)
UnicastDiscovery(p, command) ==
    /\ HasTag(p, sma_tag_group_id) /\ HasTag(p, sma_tag_data2)
    /\ ~HasTag(p, sma_tag_discovery) /\ ~HasTag(p, sma_tag_ip_address)
    /\ getProtocolID(p) = sma_inverter_protocol_id
    /\ getField(Payload(p), "CommandID") = command
    /\ getField(Payload(p), "FirstRegisterID") = Zeros(4)
    /\ getField(Payload(p), "LastRegisterID") = Zeros(4)

isUnicastRequestPacket(p) ==
    p.size = Len(unicast_request) /\ UnicastDiscovery(p, <<0, 0, 2, 0>>)

isUnicastResponsePacket(p) ==
    UnicastDiscovery(p, <<0, 0, 2, 1>>) /\ getRawDataLength(Payload(p)) = 40

isValidDiscovery(p) ==
    isSMAPacket(p) /\ (isMulticastRequestPacket(p) \/ isMulticastResponsePacket(p))

getIPv4Address(p) ==
    LET tag == findTagPacket(p, sma_tag_ip_address)
    IN  IF tag # NULL /\ getTagLength(p, tag) = 4 THEN ReadBytes(p.udp, tag + 4, 4) ELSE Zeros(4)

=============================================================================
