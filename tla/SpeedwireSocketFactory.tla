----------------------- MODULE SpeedwireSocketFactory -----------------------
(* src/src/SpeedwireSocketFactory.cpp composed with the local host and the   *)
(* sockets: the singleton opens its sockets by a strategy, one after the     *)
(* other, and hands out references, of which the discovery and the commands  *)
(* make copies. An application may also have sockets of its own. Every entry *)
(* is opened for both directions.                                            *)
EXTENDS LocalHost, SpeedwireSocket

CONSTANTS Strategies,   \* the strategies applications may choose
          OwnAddrs,     \* addresses that applications open themselves
          Holders       \* variables that hold sockets outside of the factory

(* Every text of an ipv4 address stands for one.                             *)
ASSUME FactoryAssumption ==
    /\ Strategies \subseteq {"ONE_SOCKET_FOR_EACH_INTERFACE", "ONE_SINGLE_SOCKET",
                             "ONE_MULTICAST_SOCKET_AND_ONE_UNICAST_SOCKET_FOR_EACH_INTERFACE",
                             "ONE_UNICAST_SOCKET_FOR_EACH_INTERFACE"}
    /\ \A d, e \in Digits : toInAddress(<<d, ".", e>>) \in V4Addrs
    /\ OwnAddrs \subseteq Addrs
    /\ IsFiniteSet(Holders)

VARIABLES strategy,     \* of the instance, or "none"
          pending,      \* what the constructor still has to open
          sockets,      \* the entries
          held          \* sockets and copies of sockets, by the holders that have one

factoryVars == <<strategy, pending, sockets, held>>
socketVars == <<hostVars, osVars, factoryVars>>

UnicastOnly == {"UNICAST"}
MulticastOnly == {"MULTICAST"}
Anycast == UnicastOnly \union MulticastOnly

SocketsInit ==
    /\ HostInit /\ OsInit
    /\ strategy = "none" /\ pending = <<>> /\ sockets = <<>> /\ held = [h \in {} |-> NoFd]

(***************************************************************************)
(* The constructor                                                         *)
(***************************************************************************)
ForEachInterface(type) ==
    [i \in DOMAIN local_ipv4_addresses |->
        [type |-> type, addr |-> toInAddress(local_ipv4_addresses[i])]]
ForSingleInterface == <<[type |-> Anycast, addr |-> AnyAddr]>>

ToOpen(s) ==
    CASE s = "ONE_SOCKET_FOR_EACH_INTERFACE" -> ForEachInterface(Anycast)
      [] s = "ONE_SINGLE_SOCKET" -> ForSingleInterface
      [] s = "ONE_MULTICAST_SOCKET_AND_ONE_UNICAST_SOCKET_FOR_EACH_INTERFACE" ->
            ForEachInterface(UnicastOnly) \o ForSingleInterface
      [] s = "ONE_UNICAST_SOCKET_FOR_EACH_INTERFACE" -> ForEachInterface(UnicastOnly)

(* getInstance: the first caller's strategy counts *)
getInstance(s) ==
    /\ instance /\ strategy = "none" /\ strategy' = s /\ pending' = ToOpen(s)
    /\ UNCHANGED <<hostVars, osVars, sockets, held>>

(* openSocketForSingleInterface: an entry that cannot be opened is destroyed, *)
(* one that is open is copied into the vector; copies that the vector makes   *)
(* when it grows come and go with their sharers                               *)
openNext ==
    /\ pending # <<>> /\ pending' = Tail(pending) /\ FreshCells # {}
    /\ LET c == FreshCell
           e == Head(pending)
       IN  \E o \in Openings(c, e.addr) :
              /\ os' = o.os
              /\ IF o.fd = NoFd THEN UNCHANGED <<counters, sockets>>
                 ELSE /\ counters' = [counters EXCEPT ![c] = 1]
                      /\ sockets' = Append(sockets,
                            [type |-> e.type, addr |-> e.addr, socket |-> Opened(NewSocket(c), e.addr, o)])
    /\ UNCHANGED <<hostVars, simple, misused, strategy, held>>

(***************************************************************************)
(* Selection                                                               *)
(***************************************************************************)
Ready == strategy # "none" /\ pending = <<>> /\ sockets # <<>>

(* The entries with the address and every one of the types, or any of them  *)
Exact(type, addr) == {i \in DOMAIN sockets : type \subseteq sockets[i].type /\ sockets[i].addr = addr}
Common(type, addr) == {i \in DOMAIN sockets : type \intersect sockets[i].type # {} /\ sockets[i].addr = addr}

(* The first that is found; entry 1 if there is none for all interfaces *)
FirstOf(found, otherwise) ==
    IF found = {} THEN otherwise ELSE CHOOSE i \in found : \A j \in found : i <= j
ForAll(type) == FirstOf(Exact(type, AnyAddr), 1)

getSendSocketAnyFirst(type, addr) ==
    sockets[FirstOf(Exact(type, AnyAddr), FirstOf(Exact(type, addr), 1))].socket
getSendSocket(type, addr) == sockets[FirstOf(Exact(type, addr), ForAll(type))].socket
getRecvSocket(type, addr) ==
    sockets[IF addr = AnyAddr THEN ForAll(type)
            ELSE FirstOf(Exact(type, addr), FirstOf(Common(type, addr), ForAll(type)))].socket

(* getRecvSockets: for each of the types asked for, a socket for each        *)
(* address, unless an earlier one has its descriptor. The order of the       *)
(* result, in which it is polled, is left out.                               *)
Types == <<UnicastOnly, MulticastOnly, Anycast>>
TypesAskedExact(type) == {t \in DOMAIN Types : Types[t] = type}
TypesAsked(type) == {t \in DOMAIN Types : Types[t] \intersect type # {}}
Earlier(p, q) == p[1] < q[1] \/ (p[1] = q[1] /\ p[2] < q[2])
getRecvSockets(type, addrs) ==
    LET asked  == TypesAsked(type) \X DOMAIN addrs
        For(p) == getRecvSocket(Types[p[1]], addrs[p[2]])
    IN  IF /\ type \subseteq MulticastOnly
           /\ strategy = "ONE_MULTICAST_SOCKET_AND_ONE_UNICAST_SOCKET_FOR_EACH_INTERFACE"
        THEN {getRecvSocket(MulticastOnly, AnyAddr)}
        ELSE {For(p) : p \in {q \in asked : \A r \in asked : Earlier(r, q) => For(r).fd # For(q).fd}}

Interfaces == [i \in DOMAIN local_ipv4_addresses |-> toInAddress(local_ipv4_addresses[i])]

(***************************************************************************)
(* The holders                                                             *)
(***************************************************************************)
(* Copies of these sockets, each by a holder that has none *)
hold(list) ==
    \E new \in SUBSET (Holders \ DOMAIN held) : \E of \in [new -> list] :
        /\ \A s \in list : \E h \in new : of[h] = s
        /\ \A h, k \in new : of[h] = of[k] => h = k
        /\ held' = [h \in DOMAIN held \union new |-> IF h \in new THEN of[h] ELSE held[h]]
        /\ copySockets(of)
        /\ UNCHANGED <<hostVars, os, simple, misused, strategy, pending, sockets>>

(* SpeedwireSocket socket = factory->get...Socket(...): a copy *)
holdSocket ==
    /\ Ready
    /\ \E type \in {UnicastOnly, MulticastOnly}, a \in {Interfaces[i] : i \in DOMAIN Interfaces} \union {AnyAddr} :
         hold({getSendSocket(type, a)}) \/ hold({getRecvSocket(type, a)})

(* std::vector<SpeedwireSocket> sockets = factory->getRecvSockets(...) *)
holdRecvSockets ==
    /\ Ready
    /\ \E type \in {UnicastOnly, MulticastOnly, Anycast} :
         LET list == getRecvSockets(type, Interfaces)
         IN  list # {} /\ hold(list)

(* ~SpeedwireSocket of a copy, at the end of its scope *)
dropSocket ==
    /\ pending = <<>>
    /\ \E h \in DOMAIN held :
         /\ destroySocket(held[h])
         /\ held' = [k \in DOMAIN held \ {h} |-> held[k]]
    /\ UNCHANGED <<hostVars, simple, misused, strategy, pending, sockets>>

(* The application closes its copy, or opens it for another interface *)
closeHeld ==
    /\ pending = <<>>
    /\ \E h \in DOMAIN held :
         held[h].fd # NoFd /\ closeSocket(held[h]) /\ held' = [held EXCEPT ![h] = closed(@)]
    /\ UNCHANGED <<hostVars, counters, simple, strategy, pending, sockets>>

openHeld ==
    /\ pending = <<>>
    /\ \E h \in DOMAIN held, a \in OwnAddrs :
         \E o \in Openings(held[h].cell, a) \union {[fd |-> held[h].fd, os |-> os]} :
            openSocket(held[h], a, o) /\ held' = [held EXCEPT ![h] = Opened(@, a, o)]
    /\ UNCHANGED <<hostVars, counters, simple, strategy, pending, sockets>>

(* SpeedwireSocket socket(localhost) *)
newHeld ==
    /\ pending = <<>> /\ FreshCells # {}
    /\ counters' = [counters EXCEPT ![FreshCell] = 1]
    /\ \E h \in Holders \ DOMAIN held :
         held' = [k \in DOMAIN held \union {h} |-> IF k = h THEN NewSocket(FreshCell) ELSE held[k]]
    /\ UNCHANGED <<hostVars, os, simple, misused, strategy, pending, sockets>>

simpleSocket ==
    /\ pending = <<>>
    /\ (\E o \in Openings(Simple, AnyAddr) : getInstanceSimple(o)) \/ closeSimple
    /\ UNCHANGED <<hostVars, factoryVars>>

SocketsNext ==
    \/ getLocalHost /\ UNCHANGED <<osVars, factoryVars>>
    \/ \E s \in Strategies : getInstance(s)
    \/ openNext \/ holdSocket \/ holdRecvSockets \/ dropSocket
    \/ closeHeld \/ openHeld \/ newHeld \/ simpleSocket

SocketsSpec == SocketsInit /\ [][SocketsNext]_socketVars

(* Bound of the check: what follows the closing of a shared socket is not explored *)
Unshared == ~misused

(***************************************************************************)
(* Properties                                                              *)
(***************************************************************************)
(* The live sockets, entries and copies, that share a counter *)
EntriesOf(c) == {i \in DOMAIN sockets : sockets[i].socket.cell = c}
HeldOf(c) == {h \in DOMAIN held : held[h].cell = c}
Sharers(c) == Cardinality(EntriesOf(c)) + Cardinality(HeldOf(c))
Live == {sockets[i].socket : i \in DOMAIN sockets} \union {held[h] : h \in DOMAIN held}

SocketsTypeOK ==
    /\ os \in [0..MaxFd -> {Closed, Lost} \union
                  [holder : Cells \union {Simple}, addr : Addrs]]
    /\ \A s \in Live : s.fd \in {NoFd} \union (0..MaxFd) /\ s.cell \in Cells
                       /\ s.family \in {"v4", "v6", "unspec"} /\ s.in4 \in V4Addrs \union {AnyAddr}
    /\ Len(sockets) <= Len(local_ipv4_addresses) + 1

(* Every counter is the number of the live sockets that share it, whatever   *)
(* was copied, destroyed, closed and opened in whatever order: the last      *)
(* destructor, and no other, closes                                          *)
CountersExact == \A c \in Cells : counters[c] = Sharers(c)

(* As long as nobody closed or opened a socket that others share, the open   *)
(* descriptors are those that live sockets name, each for itself, and those  *)
(* that an open that failed half way, or a second open, left behind: no      *)
(* socket reads from a descriptor that is closed or another's                *)
DescriptorsAccounted == ~misused =>
    LET named == {s \in Live : s.fd # NoFd}
    IN  /\ \A s \in named : os[s.fd] \notin {Closed, Lost} /\ os[s.fd].holder = s.cell
        /\ simple.fd # NoFd => os[simple.fd] \notin {Closed, Lost} /\ os[simple.fd].holder = Simple
        /\ {f \in DOMAIN os : os[f] \notin {Closed, Lost}}
           = {s.fd : s \in named} \union ({simple.fd} \ {NoFd})

(* Sockets, their counters and the open descriptors belong together: nothing is    *)
(* closed early, or twice, or never, by whatever order of copies and destructors.  *)
SocketsAccounted == SocketsTypeOK /\ CountersExact /\ DescriptorsAccounted

(* Whatever strategy was chosen and whichever of its sockets could be        *)
(* opened: the sockets that the discovery polls are distinct, and each       *)
(* socket that a unicast or a multicast request for some interface is sent   *)
(* from is among them, so that the answers to its source port are received   *)
AnswersPolled == Ready =>
    LET polled == getRecvSockets(Anycast, Interfaces)
    IN  /\ \A s, t \in polled : s.fd = t.fd => s = t
        /\ \A type \in {UnicastOnly, MulticastOnly}, i \in DOMAIN Interfaces :
              \E s \in polled : s.fd = getSendSocket(type, Interfaces[i]).fd

(* A unicast request for an interface comes from that interface's address    *)
(* whenever its unicast socket could be opened, and a multicast request      *)
(* leaves through every interface it is sent for. While only the socket for  *)
(* all interfaces is there, as with ONE_SINGLE_SOCKET, no unicast request    *)
(* leaves through an interface it is not meant for. That none leaves at all, *)
(* since sendto refuses a socket without an interface address, is no part of *)
(* the property: SpeedwireSocketFactory.hpp promises that the one socket is  *)
(* "used for all local interfaces, [...] both unicast and multicast".        *)
RequestsLeaveByInterface == Ready /\ ~misused =>
    \A n \in DOMAIN Interfaces :
        LET a == Interfaces[n]
            via(type, dest) == sendtoOwn(getSendSocket(type, a), dest)
            specific == \E i \in DOMAIN sockets : sockets[i].addr = a
        IN  /\ specific => via(UnicastOnly, "peer") = a /\ via(UnicastOnly, "group") = a
            /\ Exact(UnicastOnly, AnyAddr) # {} => via(UnicastOnly, "peer") \in {a, Refused}
            /\ sendto(getSendSocket(MulticastOnly, a), "group", a) = a
=============================================================================
