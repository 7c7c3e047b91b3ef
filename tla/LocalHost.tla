----------------------------- MODULE LocalHost -----------------------------
(* src/src/LocalHost.cpp: what the process knows of its own interfaces. The  *)
(* singleton asks the operating system once and keeps the answers; the host  *)
(* is a sequence of interfaces, each with its address, its prefix length and *)
(* whether the second query reported it as well. Linux build: SIOCGIFCONF    *)
(* reports ipv4 addresses only.                                              *)
EXTENDS AddressConversion

CONSTANTS Hosts,   \* the hosts the program runs on
          Peers    \* addresses that packets come from

ASSUME HostsAssumption ==
    \A h \in Hosts :
        /\ Len(h) \in Nat /\ DOMAIN h = 1..Len(h)
        /\ \A i \in DOMAIN h :
              /\ h[i].family \in {"v4", "v6"} /\ h[i].addr \in InAddress
              /\ h[i].prefix \in 0..Width /\ h[i].reported \in BOOLEAN /\ h[i].port = 0

VARIABLES host,                   \* the interfaces, as they are
          instance,               \* whether the singleton exists
          local_ipv4_addresses, local_ipv6_addresses,
          infos                   \* prefix lengths by address

hostVars == <<host, instance, local_ipv4_addresses, local_ipv6_addresses, infos>>

(* (uint32_t)-1 *)
Unknown == 2 * Width + 1

(* queryLocalInterfaceInfos counts the ones of the netmask from bit 0 of     *)
(* s_addr up; on a little endian host that is bit 0 of the first octet       *)
CountedPrefix(mask) ==
    LET zeros == {i \in 0..Width : i = Width \/ <<i \div OctetBits + 1, i % OctetBits>> \notin mask}
    IN  Min(zeros)

queryLocalIPAddresses(h) == [i \in DOMAIN h |-> toString(h[i])]
queryLocalInterfaceInfos(h) ==
    LET reported == {i \in DOMAIN h : h[i].reported /\ h[i].family = "v4"}
    IN  [text \in {toString(h[i]) : i \in reported} |->
            LET i == CHOOSE j \in reported : toString(h[j]) = text
            IN  CountedPrefix(PrefixMask(h[i].prefix))]

(* cacheLocalIPAddresses: the addresses without zone and port *)
BareAddresses(texts) == [i \in DOMAIN texts |-> extractIPAddress(texts[i])]

(* The elements at these places, in their order: kept[n] are those of the    *)
(* first n                                                                   *)
Kept(seq, places) ==
    LET kept[n \in 0..Len(seq)] ==
          IF n = 0 THEN <<>>
          ELSE IF n \in places THEN Append(kept[n - 1], seq[n]) ELSE kept[n - 1]
    IN  kept[Len(seq)]

LocalAddresses == BareAddresses(queryLocalIPAddresses(host))

HostInit ==
    /\ host \in Hosts /\ instance = FALSE
    /\ local_ipv4_addresses = <<>> /\ local_ipv6_addresses = <<>> /\ infos = <<>>

(* The singleton's first use *)
getLocalHost ==
    /\ ~instance /\ instance' = TRUE
    /\ local_ipv4_addresses' = Kept(LocalAddresses, {i \in DOMAIN LocalAddresses : isIpv4(LocalAddresses[i])})
    /\ local_ipv6_addresses' = Kept(LocalAddresses, {i \in DOMAIN LocalAddresses : isIpv6(LocalAddresses[i])})
    /\ infos' = queryLocalInterfaceInfos(host)
    /\ UNCHANGED host

getInterfacePrefixLength(text) == IF text \in DOMAIN infos THEN infos[text] ELSE Unknown

(* The local address whose subnet holds the given one, the only local        *)
(* address if no subnet does, or no text. The outcomes differ only where the *)
(* mask of a prefix of length 0 is undefined.                                *)
Matching(locals, masksOf, text) ==
    { LET near == SelectInSeq(locals, LAMBDA l :
                      resideOnSameSubnet(toInAddress(l), toInAddress(text), masks[l]))
      IN  IF near # 0 THEN locals[near] ELSE IF Len(locals) = 1 THEN locals[1] ELSE NoText
      : masks \in {m \in [Range(locals) -> UNION Range(masksOf)] :
                      \A l \in Range(locals) : m[l] \in masksOf[l]} }

getMatchingLocalIPAddress(text) ==
    IF isIpv4(text)
    THEN Matching(local_ipv4_addresses,
                  [l \in Range(local_ipv4_addresses) |-> toInNetMask(getInterfacePrefixLength(l))], text)
    ELSE IF isIpv6(text)
         THEN Matching(local_ipv6_addresses,
                  [l \in Range(local_ipv6_addresses) |-> {toIn6NetMask(getInterfacePrefixLength(l))}], text)
         ELSE {NoText}

(* The two facts are about the step that initialises the singleton *)
AddrsOf(f) == LET own == SelectSeq(host, LAMBDA s : s.family = f)
              IN  [i \in DOMAIN own |-> own[i].addr]
Binary(texts) == [i \in DOMAIN texts |-> toInAddress(texts[i])]
Scoped(uri) == IF extractIPZoneId(uri) = NoText THEN NoText ELSE <<"%">> \o extractIPZoneId(uri)

(* The host's own addresses are cached by family, in the order in which the  *)
(* operating system gave them, and a uri made of an address, a zone and a    *)
(* port gives these parts back                                               *)
UrisTakenApart == [][~instance /\ instance' =>
    /\ Binary(local_ipv4_addresses') = AddrsOf("v4")
    /\ Binary(local_ipv6_addresses') = AddrsOf("v6")
    /\ \A s \in Peers \union Range(host) :
          /\ toSockAddrStorageFromUri(toString(s)) =
                [family |-> s.family, addr |-> s.addr, port |-> s.port]
          /\ s.zone = Scoped(toString(s))]_instance

(* A peer on the subnet of a local interface is assigned to the first such   *)
(* interface, and one on no subnet to none unless there is only one          *)
(* interface: provided that all ipv4 interfaces were reported and that their *)
(* prefixes are whole octets, the lengths that are counted right.            *)
PeersAssigned == [][~instance /\ instance' =>
    LET own == SelectSeq(host, LAMBDA s : s.family = "v4")
        Near(s) == SelectInSeq(own, LAMBDA o : resideOnSameSubnet(o.addr, s.addr, PrefixMask(o.prefix)))
        Assigned(s) == IF Near(s) # 0 THEN V4Text(own[Near(s)].addr)
                       ELSE IF Len(own) = 1 THEN V4Text(own[1].addr) ELSE NoText
    IN  (\A i \in DOMAIN own : own[i].reported /\ own[i].prefix \in {OctetBits, Width})
        => \A s \in {p \in Peers : p.family = "v4"} :
              getMatchingLocalIPAddress(V4Text(s.addr))' = {Assigned(s)}]_instance
=============================================================================
