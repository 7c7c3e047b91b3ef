-------------------------- MODULE SpeedwireHeader --------------------------
(***************************************************************************)
(* SpeedwireHeader, SpeedwireTagHeader and SpeedwireData2Packet: a packet  *)
(* is the signature "SMA\0" and a sequence of tags, each of a length, an   *)
(* id and a payload, up to the end-of-data tag. Readers walk that sequence *)
(* inside a memory area that a receive call has filled in part only.       *)
(*                                                                         *)
(* A packet p is the record of its buffer and of the size the reader was   *)
(* told; a tag is the offset of its first byte.                            *)
(***************************************************************************)
EXTENDS SpeedwireByteEncoding

CONSTANT UINT32_RANGE       \* the number of values of a uint32_t

NULL == -1
sma_signature == <<83, 77, 65, 0>>
sma_tag0_offset == 4
TAG_HEADER_LENGTH == 4

sma_tag_endofdata == 0
sma_tag_data2 == 16
sma_tag_discovery == 32
sma_tag_ip_address == 48
sma_tag_group_id == 672

sma_emeter_protocol_id == 24681             \* 0x6069
sma_extended_emeter_protocol_id == 24705    \* 0x6081
sma_inverter_protocol_id == 24677           \* 0x6065
sma_encryption_protocol_id == 24693         \* 0x6075

Packet(udp, size) == [udp |-> udp, size |-> size]

(* The stops of a reader that starts at first and goes on by the function  *)
(* next until it is told NULL; limit is a bound of their number.           *)
Walk(first, next, limit) ==
    LET at[k \in 0..limit] ==
            IF k = 0 THEN first
            ELSE LET stop == at[k - 1] IN IF stop = NULL THEN NULL ELSE next[stop]
        n == CHOOSE k \in 0..limit : at[k] = NULL /\ \A j \in 0..(k - 1) : at[j] # NULL
    IN  [i \in 1..n |-> at[i - 1]]

(* The first stop whose index is in found.                                 *)
FirstStop(stops, found) == IF found = {} THEN NULL ELSE stops[Min(found)]

-----------------------------------------------------------------------------
(* Tags                                                                    *)

getTagLength(p, tag) == ToNat(getBigEndian(p.udp, tag, 2))
getTagId(p, tag) == ToNat(getBigEndian(p.udp, tag + 2, 2))
getTotalLength(p, tag) == TAG_HEADER_LENGTH + getTagLength(p, tag)

(* The bytes of a tag that a sender writes.                                *)
TagBytes(id, payload) == Uint16(Len(payload)) \o Uint16(id) \o payload

(* Mutant: the header fits, the payload is not looked at.                  *)
tagPacketFitsIntoUdpByHeader(p, tag) ==
    /\ tag # NULL
    /\ p.size >= tag + TAG_HEADER_LENGTH

tagPacketFitsIntoUdp(p, tag) ==
    /\ tag # NULL
    /\ p.size >= tag + TAG_HEADER_LENGTH
    /\ p.size >= tag + getTotalLength(p, tag)

getFirstTagPacket(p) ==
    IF tagPacketFitsIntoUdp(p, sma_tag0_offset) THEN sma_tag0_offset ELSE NULL

getNextTagPacket(p, tag) ==
    IF tagPacketFitsIntoUdp(p, tag) /\ tagPacketFitsIntoUdp(p, tag + getTotalLength(p, tag))
    THEN tag + getTotalLength(p, tag) ELSE NULL

TagPackets(p) ==
    Walk(getFirstTagPacket(p), [tag \in 0..p.size |-> getNextTagPacket(p, tag)], p.size)

(* Mutant: a tag with id 0 ends the packet even if it has a payload.       *)
EndOfDataById(p, tag) == getTagId(p, tag) = sma_tag_endofdata

EndOfData(p, tag) == getTagId(p, tag) = sma_tag_endofdata /\ getTagLength(p, tag) = 0

(* The tag of an id, as far as the end-of-data tag.                        *)
findTagPacket(p, tag_id) ==
    LET tags == TagPackets(p)
    IN  FirstStop(tags, {i \in DOMAIN tags : /\ getTagId(p, tags[i]) = tag_id
                                            /\ \A j \in 1..(i - 1) : ~EndOfData(p, tags[j])})

findEodTagPacket(p) ==
    LET tags == TagPackets(p)
    IN  FirstStop(tags, {i \in DOMAIN tags : EndOfData(p, tags[i])})

-----------------------------------------------------------------------------
(* Validity                                                                *)

isSMAPacket(p) == p.size >= 4 /\ ReadBytes(p.udp, 0, 4) = sma_signature

GroupIdFirst(p) ==
    /\ findTagPacket(p, sma_tag_group_id) = sma_tag0_offset
    /\ getTagLength(p, sma_tag0_offset) = 4

(* The data2 tag follows the group id, and the end-of-data tag follows the *)
(* data2 tag and is the last one.                                          *)
FullCheck(p, data2) ==
    LET eod == getNextTagPacket(p, data2)
    IN  /\ sma_tag0_offset + getTotalLength(p, sma_tag0_offset) = data2
        /\ eod # NULL
        /\ EndOfData(p, eod)
        /\ getNextTagPacket(p, eod) = NULL

isValidData2Packet(p, fullcheck) ==
    LET data2 == findTagPacket(p, sma_tag_data2)
    IN  /\ isSMAPacket(p)
        /\ GroupIdFirst(p)
        /\ data2 # NULL
        /\ getTagLength(p, data2) >= 2
        /\ fullcheck => FullCheck(p, data2)

isValidDiscoveryPacket(p) ==
    LET ip == findTagPacket(p, sma_tag_ip_address)
    IN  /\ isSMAPacket(p)
        /\ GroupIdFirst(p)
        /\ findTagPacket(p, sma_tag_discovery) # NULL
        /\ ip # NULL => getTagLength(p, ip) >= 4

-----------------------------------------------------------------------------
(* The data2 tag                                                           *)

Data2(p) == findTagPacket(p, sma_tag_data2)
getProtocolID(p) == ToNat(getBigEndian(p.udp, Data2(p) + 4, 2))
getLongWords(p) == p.udp[Data2(p) + 6]

getPayloadOffset(p) ==
    IF getProtocolID(p) \in {sma_extended_emeter_protocol_id, sma_inverter_protocol_id}
    THEN 8 ELSE 6

(* A difference x of sizes, which are unsigned long, of 64 bits.           *)
ULONG_RANGE == UINT32_RANGE * UINT32_RANGE
UnsignedLong(x) == IF x >= 0 THEN x ELSE x + ULONG_RANGE

(* The part of the data2 tag behind its own header fields: the address of  *)
(* its first byte and its size, huge if the tag ends before that byte.     *)
Payload(p) == [udp  |-> p.udp,
               at   |-> Data2(p) + getPayloadOffset(p),
               size |-> UnsignedLong(getTotalLength(p, Data2(p)) - getPayloadOffset(p))]

getDefaultHeaderTotalLength(length) ==
    4 + (TAG_HEADER_LENGTH + 4) + (TAG_HEADER_LENGTH + length) + TAG_HEADER_LENGTH

(* The header of a data2 packet and its end-of-data tag, written around    *)
(* length bytes of payload; the memory area of p must hold them.           *)
setDefaultHeader(p, group, length, protocolID) ==
    LET front == WriteBytes(p.udp, 0, sma_signature \o TagBytes(sma_tag_group_id, group)
                                      \o Uint16(length) \o Uint16(sma_tag_data2))
        data2 == Data2(Packet(front, p.size))
        named == setBigEndian(front, data2 + 4, Uint16(protocolID))
        extra == CASE protocolID = sma_extended_emeter_protocol_id -> <<0, 3>>
                   [] protocolID = sma_inverter_protocol_id -> <<(length \div 4) % 256, 0>>
                   [] OTHER -> <<>>
        body  == WriteBytes(named, data2 + 6, extra)
    IN  WriteBytes(body, data2 + TAG_HEADER_LENGTH + length, TagBytes(sma_tag_endofdata, <<>>))

=============================================================================
