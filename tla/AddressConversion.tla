------------------------- MODULE AddressConversion -------------------------
(* src/src/AddressConversion.cpp on small addresses. A binary address is a   *)
(* pair of octets in network order, most significant octet first, and a mask *)
(* is the set of bits <<octet, bit>> that it holds, bit 0 the lowest of its  *)
(* octet. A text is a sequence of characters, of which only the ones that    *)
(* the parsers look for are told apart. inet_pton and getnameinfo, which     *)
(* this library calls, are modelled by the shapes they accept and produce.   *)
EXTENDS Integers, Sequences, SequencesExt

CONSTANTS OctetBits,   \* the width of an octet, 8
          PortRange    \* the number of ports, 2^16

ASSUME OctetBitsAssumption == OctetBits \in Nat \ {0}

Width == 2 * OctetBits
InAddress == [1..2 -> 0..(2^OctetBits - 1)]
MaskBits == (1..2) \X (0..(OctetBits - 1))
Bit(n, b) == (n \div 2^b) % 2

(* The mask of a prefix of p bits, as addresses are structured *)
PrefixMask(p) == {m \in MaskBits : m[1] * OctetBits - 1 - m[2] < p}

(* toInNetMask: 0xffffffff << (32 - p) in host order, then htonl. For p = 0  *)
(* the shift is by the width of the type, undefined: nothing is shifted or   *)
(* everything is. A longer prefix than the address gives the empty mask.     *)
toInNetMaskHostOrder(p) == IF p = 0 THEN {{}, MaskBits} ELSE
    { {m \in MaskBits : p <= Width /\ (m[1] - 1) * OctetBits + m[2] >= Width - p} }
toInNetMask(p) == IF p = 0 THEN {{}, MaskBits} ELSE
    { {m \in MaskBits : p <= Width /\ (2 - m[1]) * OctetBits + m[2] >= Width - p} }

(* toIn6NetMask sets the bits from p upwards, and puts byte i at the         *)
(* mirrored place: the mask covers the first Width - p bits                  *)
toIn6NetMask(p) ==
    {<<2 - (i \div OctetBits), i % OctetBits>> : i \in p..(Width - 1)}

resideOnSameSubnet(host1, host2, mask) ==
    \A m \in mask : Bit(host1[m[1]], m[2]) = Bit(host2[m[1]], m[2])

(***************************************************************************)
(* Texts and uris                                                          *)
(***************************************************************************)
DigitTexts == <<"0", "1", "2", "3">>
Digits == {"0", "1", "2", "3"}
Digit(n) == DigitTexts[n + 1]
Value(d) == CHOOSE n \in 0..3 : DigitTexts[n + 1] = d
NoText == <<>>

(* "a.b" and "a::b" stand for the texts of addresses of either family *)
V4Text(a) == <<Digit(a[1]), ".", Digit(a[2])>>
V6Text(a) == <<Digit(a[1]), ":", ":", Digit(a[2])>>
isIpv4(s) == Len(s) = 3 /\ s[1] \in Digits /\ s[2] = "." /\ s[3] \in Digits
isIpv6(s) == Len(s) = 4 /\ s[1] \in Digits /\ s[2] = ":" /\ s[3] = ":" /\ s[4] \in Digits
toInAddress(s) == [o \in 1..2 |-> Value(s[IF o = 1 THEN 1 ELSE Len(s)])]

(* std::string::find and find_first_of: the first place, or 0 for npos *)
FindFirst(s, chars) == SelectInSeq(s, LAMBDA c : c \in chars)
From(s, i) == SubSeq(s, i, Len(s))
Before(s, i) == SubSeq(s, 1, i - 1)
UpTo(s, chars) == LET i == FindFirst(s, chars) IN IF i = 0 THEN s ELSE Before(s, i)
AllDigits(s) == \A i \in DOMAIN s : s[i] \in Digits

isIpv4Uri(uri) ==
    LET port == FindFirst(uri, {":"})
    IN  IF port # 0 /\ port < Len(uri)
        THEN AllDigits(From(uri, port + 1)) /\ isIpv4(Before(uri, port))
        ELSE isIpv4(uri)

(* find("]:"), the place of the bracket or 0 *)
FindPort(uri) ==
    LET places == {i \in 1..(Len(uri) - 1) : uri[i] = "]" /\ uri[i + 1] = ":"}
    IN  IF places = {} THEN 0 ELSE Min(places)

isIpv6Uri(uri) ==
    LET bracket == FindFirst(uri, {"]"})
        port == FindPort(uri)
    IN  IF FindFirst(uri, {"["}) = 1 /\ bracket > 1
        THEN /\ IF port # 0 THEN port + 2 <= Len(uri) /\ AllDigits(From(uri, port + 2))
                            ELSE bracket = Len(uri)
             /\ isIpv6(UpTo(SubSeq(uri, 2, bracket - 1), {"%"}))
        ELSE isIpv6(UpTo(uri, {"%"}))

(* substr(first, last - first), which runs to the end if last is before first *)
Between(s, first, last) == IF last \in {0} \union (1..(first - 1)) THEN From(s, first)
                           ELSE SubSeq(s, first, last - 1)

extractIPAddress(uri) ==
    IF isIpv4Uri(uri) THEN UpTo(uri, {":"})
    ELSE IF isIpv6Uri(uri)
         THEN Between(uri, FindFirst(uri, {"["}) + 1, FindFirst(uri, {"%", "]"}))
         ELSE NoText

extractIPPort(uri) ==
    LET port == IF isIpv4Uri(uri) THEN FindFirst(uri, {":"})
                ELSE IF isIpv6Uri(uri) /\ FindPort(uri) # 0 THEN FindPort(uri) + 1 ELSE 0
    IN  IF port = 0 THEN NoText ELSE From(uri, port + 1)

extractIPZoneIdOpen(uri) ==
    LET zone == FindFirst(uri, {"%"})
    IN  IF isIpv6Uri(uri) /\ zone # 0 THEN From(uri, zone + 1) ELSE NoText
extractIPZoneId(uri) ==
    LET zone == FindFirst(uri, {"%"})
    IN  IF isIpv6Uri(uri) /\ zone # 0 THEN Between(uri, zone + 1, FindFirst(uri, {"]"})) ELSE NoText

(* toUint stops at the first character that is no digit *)
toUint(s) == FoldLeft(LAMBDA n, c : 10 * n + Value(c), 0, s)

(* toSockAddrStorageFromUri: family, address and port of a uri, all zero for *)
(* a text that is none                                                       *)
toSockAddrStorageFromUri(uri) ==
    IF isIpv4Uri(uri) \/ isIpv6Uri(uri)
    THEN [family |-> IF isIpv4Uri(uri) THEN "v4" ELSE "v6",
          addr   |-> toInAddress(extractIPAddress(uri)),
          port   |-> toUint(extractIPPort(uri)) % PortRange]
    ELSE [family |-> "none", addr |-> [o \in 1..2 |-> 0], port |-> 0]

(* toString of a socket address: the port only if it is not zero, an ipv6    *)
(* address with a port in brackets                                           *)
toString(s) ==
    LET port == IF s.port = 0 THEN <<>> ELSE <<":", Digit(s.port)>>
    IN  IF s.family = "v4" THEN V4Text(s.addr) \o port
        ELSE IF s.port = 0 THEN V6Text(s.addr) \o s.zone
             ELSE <<"[">> \o V6Text(s.addr) \o s.zone \o <<"]">> \o port
=============================================================================
