------------------------- MODULE CommunicationProofs -------------------------
(***************************************************************************)
(* Proofs about the two components that carry requests and their answers.  *)
(*                                                                         *)
(* SpeedwireSocketFactory, for every number of interfaces, descriptors,    *)
(* holders and copies: sockets, counters and descriptors belong together,  *)
(* answers are polled, and requests leave by their interface.              *)
(*                                                                         *)
(* SpeedwireCommand, for every number of devices, packet ids, commands and *)
(* clock values. The network of the model delays a reply by less than      *)
(* NumIds commands; nothing else is assumed about it.                      *)
(***************************************************************************)
EXTENDS SpeedwireSocketFactory, SpeedwireCommand, FiniteSetTheorems, SequenceTheorems, TLAPS

(* The lemmas about numbers and recursion, which no time is involved in:   *)
(* those of one bit do.                                                    *)
Numbers == INSTANCE MeasurementLemmas WITH TimeMax <- 2, EpochMax <- 4, MsPerSecond <- 1

LEMMA OneBit == 2 \in Nat \ {0} /\ 2 % 2 = 0 /\ 4 = 2 * 2 /\ 1 \in Nat \ {0}
  OBVIOUS

(***************************************************************************)
(* The inductive invariant.                                                *)
(***************************************************************************)
V4 == V4Addrs \union {AnyAddr}
Fds == {NoFd} \union (0..MaxFd)
OpenSockets == [holder : Cells \union {Simple}, addr : Addrs]
Sockets == [fd : Fds, cell : Cells, family : {"v4", "v6", "unspec"}, in4 : V4]
Orders == [type : {UnicastOnly, Anycast}, addr : V4]
Entries == [type : {UnicastOnly, Anycast}, addr : V4, socket : Sockets]

(* The cached addresses are texts of ipv4 addresses, and the sockets follow  *)
(* the host, which is asked once.                                            *)
HostInv ==
    /\ host \in Hosts
    /\ Len(local_ipv4_addresses) \in Nat
    /\ DOMAIN local_ipv4_addresses = 1..Len(local_ipv4_addresses)
    /\ \A i \in DOMAIN local_ipv4_addresses : isIpv4(local_ipv4_addresses[i])
    /\ ~instance => strategy = "none"
    /\ strategy = "none" => pending = <<>> /\ sockets = <<>>

Typed ==
    /\ os \in [0..MaxFd -> {Closed, Lost} \union OpenSockets]
    /\ counters \in [Cells -> Nat]
    /\ simple \in [instance : BOOLEAN, fd : Fds]
    /\ misused \in BOOLEAN
    /\ pending \in Seq(Orders) /\ sockets \in Seq(Entries)
    /\ Len(pending) + Len(sockets) <= Len(local_ipv4_addresses) + 1
    /\ DOMAIN held \in SUBSET Holders
    /\ held \in [DOMAIN held -> Sockets]

IsOpen(f) == f \in 0..MaxFd /\ os[f] \notin {Closed, Lost}

(* Copies name the same descriptor, each named descriptor is open for its    *)
(* sharers, and none is open that is not named                               *)
CopiesAgree == \A s, t \in Live : s.cell = t.cell => s.fd = t.fd
NamedOpen == \A s \in Live : s.fd # NoFd => IsOpen(s.fd) /\ os[s.fd].holder = s.cell
SimpleOpen == simple.fd # NoFd => IsOpen(simple.fd) /\ os[simple.fd].holder = Simple
OpenNamed == \A f \in 0..MaxFd : IsOpen(f) => f = simple.fd \/ \E s \in Live : s.fd = f

(* The entries are open for the interfaces that they were opened for *)
EntryOpen(e) == e.socket.fd # NoFd /\ e.socket.in4 = e.addr /\ os[e.socket.fd].addr = e.addr
EntriesOpen == \A i \in DOMAIN sockets : EntryOpen(sockets[i])

Accounted == CopiesAgree /\ NamedOpen /\ SimpleOpen /\ OpenNamed /\ EntriesOpen

SocketsIInv == HostInv /\ Typed /\ CountersExact /\ (~misused => Accounted)

(* The least number of a set that is not empty is found.                   *)
LEMMA FirstFound ==
  ASSUME NEW found \in SUBSET Nat, found # {}, NEW n
  PROVE  FirstOf(found, n) \in found /\ \A i \in found : FirstOf(found, n) <= i
<1>1. \E m \in found : \A i \in found : m <= i
  BY Numbers!Least
<1> QED
  BY <1>1 DEF FirstOf

(***************************************************************************)
(* The host.                                                               *)
(***************************************************************************)
(* The elements at some places of a sequence are a sequence of them.       *)
LEMMA KeptElements ==
  ASSUME NEW seq, NEW places, Len(seq) \in Nat, DOMAIN seq = 1..Len(seq),
         NEW W, \A i \in DOMAIN seq : i \in places => seq[i] \in W
  PROVE  Kept(seq, places) \in Seq(W)
<1> DEFINE n == Len(seq)
           V == Seq(W)
           none == << >>
           After(k, before) == IF k \in places THEN Append(before, seq[k]) ELSE before
           IsKept(f) == f = [k \in 0..n |-> IF k = 0 THEN none ELSE After(k, f[k - 1])]
           kept == CHOOSE f : IsKept(f)
           g == [p \in (1..n) \X V |-> After(p[1], p[2])]
<1>1. Kept(seq, places) = kept[n]
  BY DEF Kept
<1>2. ASSUME NEW k \in 1..n, NEW before \in V
      PROVE  After(k, before) \in V
  BY <1>2, AppendProperties
<1>3. none \in V
  BY EmptySeq
<1>4. g \in [(1..n) \X V -> V] /\ \A k \in 1..n, before \in V : g[<<k, before>>] = After(k, before)
  <2> HIDE DEF V, After
  <2> QED
    BY <1>2
<1>0. n \in Nat
  OBVIOUS
<1> HIDE DEF V, After, none, g, n
<1>5. PICK f \in [0..n -> V] : Numbers!Recursion(f, n, none, g)
  <2>1. g \in [(1..n) \X V -> V]
    BY <1>4
  <2> QED
    BY <1>0, <1>3, <2>1, OneBit, Numbers!RecursionExists, Zenon
<1>6. f[0] = none /\ \A k \in 1..n : f[k] = g[<<k, f[k - 1]>>]
  BY <1>5 DEF Numbers!Recursion
<1>7. \A k \in 1..n : f[k - 1] \in V
  BY <1>0
<1>8. \A k \in 1..n : f[k] = After(k, f[k - 1])
  BY <1>4, <1>6, <1>7
<1>9. f = [k \in 0..n |-> IF k = 0 THEN none ELSE After(k, f[k - 1])]
  BY <1>0, <1>6, <1>8
<1>10. IsKept(kept)
  BY <1>9
<1> HIDE DEF kept
<1>11. kept[0] = none /\ \A k \in 1..n : kept[k] = After(k, kept[k - 1])
  BY <1>0, <1>10
<1> DEFINE S == {k \in Nat : k <= n => kept[k] \in V}
<1>12. 0 \in S
  BY <1>0, <1>3, <1>11
<1>13. ASSUME NEW k \in S PROVE k + 1 \in S
  <2>1. CASE k + 1 <= n
    <3>1. k + 1 \in 1..n /\ k <= n /\ (k + 1) - 1 = k
      BY <1>0, <1>13, <2>1
    <3>2. kept[k] \in V
      BY <3>1
    <3>3. kept[k + 1] = After(k + 1, kept[k])
      BY <1>11, <3>1
    <3> QED
      BY <1>2, <3>1, <3>2, <3>3
  <2> QED
    BY <2>1
<1>14. \A k \in Nat : k \in S
  <2> HIDE DEF S
  <2>1. S \in SUBSET Nat
    BY DEF S
  <2> QED
    BY <1>12, <1>13, <2>1, Numbers!Induction
<1>15. kept[n] \in V
  BY <1>0, <1>14
<1> QED
  BY <1>1, <1>15 DEF V

(* The interfaces' addresses are addresses of ipv4.                        *)
LEMMA InterfacesAreV4 ==
  ASSUME HostInv, NEW i \in DOMAIN local_ipv4_addresses
  PROVE  toInAddress(local_ipv4_addresses[i]) \in V4Addrs
<1> DEFINE s == local_ipv4_addresses[i]
           t == <<s[1], ".", s[3]>>
<1>1. Len(s) = 3 /\ s[1] \in Digits /\ s[3] \in Digits
  BY DEF HostInv, isIpv4
<1>2. toInAddress(t) \in V4Addrs
  BY <1>1, FactoryAssumption
<1>3. Len(t) = 3 /\ t[1] = s[1] /\ t[3] = s[3]
  OBVIOUS
<1> HIDE DEF s, t
<1>4. toInAddress(s) = toInAddress(t)
  BY <1>1, <1>3 DEF toInAddress
<1> QED
  BY <1>2, <1>4 DEF s

(* What the singleton finds out keeps the invariant of the host.           *)
LEMMA HostKept ==
  ASSUME HostInv, getLocalHost, UNCHANGED <<strategy, pending, sockets>>
  PROVE  HostInv'
<1> DEFINE places == {i \in DOMAIN LocalAddresses : isIpv4(LocalAddresses[i])}
           W == {LocalAddresses[i] : i \in places}
<1>1. Len(host) \in Nat /\ DOMAIN host = 1..Len(host)
  BY HostsAssumption DEF HostInv
<1>2. DOMAIN LocalAddresses = 1..Len(host) /\ Len(LocalAddresses) = Len(host)
  BY <1>1 DEF LocalAddresses, BareAddresses, queryLocalIPAddresses
<1>3. Len(LocalAddresses) \in Nat /\ DOMAIN LocalAddresses = 1..Len(LocalAddresses)
  BY <1>1, <1>2
<1>4. local_ipv4_addresses' = Kept(LocalAddresses, places)
  BY DEF getLocalHost
<1>5. \A i \in DOMAIN LocalAddresses : i \in places => LocalAddresses[i] \in W
  OBVIOUS
<1>6. \A text \in W : isIpv4(text)
  OBVIOUS
<1> HIDE DEF places, W
<1>7. local_ipv4_addresses' \in Seq(W)
  BY <1>3, <1>4, <1>5, KeptElements
<1>8. /\ Len(local_ipv4_addresses') \in Nat
      /\ DOMAIN local_ipv4_addresses' = 1..Len(local_ipv4_addresses')
      /\ \A i \in DOMAIN local_ipv4_addresses' : isIpv4(local_ipv4_addresses'[i])
  <2>1. /\ Len(local_ipv4_addresses') \in Nat
        /\ DOMAIN local_ipv4_addresses' = 1..Len(local_ipv4_addresses')
    BY <1>7, LenProperties
  <2>2. \A i \in 1..Len(local_ipv4_addresses') : local_ipv4_addresses'[i] \in W
    BY <1>7, ElementOfSeq
  <2> QED
    BY <1>6, <2>1, <2>2
<1> QED
  BY <1>8 DEF HostInv, getLocalHost

(* The constructor opens a socket for each interface and one more at most. *)
LEMMA OrdersFit ==
  ASSUME HostInv, NEW s \in Strategies
  PROVE  ToOpen(s) \in Seq(Orders) /\ Len(ToOpen(s)) <= Len(local_ipv4_addresses) + 1
<1> DEFINE n == Len(local_ipv4_addresses)
<1>1. n \in Nat /\ DOMAIN local_ipv4_addresses = 1..n
  BY DEF HostInv
<1>2. ForSingleInterface \in Seq(Orders) /\ Len(ForSingleInterface) = 1
  BY DEF ForSingleInterface, Orders, V4
<1>3. ASSUME NEW type \in {UnicastOnly, Anycast}
      PROVE  ForEachInterface(type) \in Seq(Orders) /\ Len(ForEachInterface(type)) = n
  <2>1. \A i \in 1..n : [type |-> type, addr |-> toInAddress(local_ipv4_addresses[i])] \in Orders
    BY <1>1, InterfacesAreV4 DEF Orders, V4
  <2> HIDE DEF n
  <2> QED
    BY <1>1, <2>1 DEF ForEachInterface
<1>4. UnicastOnly \in {UnicastOnly, Anycast} /\ Anycast \in {UnicastOnly, Anycast}
  OBVIOUS
<1> HIDE DEF n
<1>5. /\ ForEachInterface(UnicastOnly) \o ForSingleInterface \in Seq(Orders)
      /\ Len(ForEachInterface(UnicastOnly) \o ForSingleInterface) = n + 1
  <2> DEFINE each == ForEachInterface(UnicastOnly)
             one == ForSingleInterface
  <2>1. each \in Seq(Orders) /\ one \in Seq(Orders) /\ Len(each) = n /\ Len(one) = 1
    BY <1>2, <1>3, <1>4
  <2> HIDE DEF each, one
  <2>2. each \o one \in Seq(Orders) /\ Len(each \o one) = Len(each) + Len(one)
    BY <2>1, ConcatProperties
  <2>3. Len(each) + Len(one) = n + 1
    BY <1>1, <2>1
  <2> QED
    BY <2>2, <2>3 DEF each, one
<1>6. CASE s = "ONE_SOCKET_FOR_EACH_INTERFACE"
  BY <1>1, <1>3, <1>4, <1>6 DEF ToOpen, n
<1>7. CASE s = "ONE_SINGLE_SOCKET"
  <2>1. ToOpen(s) = ForSingleInterface
    BY <1>7 DEF ToOpen
  <2>2. n \in Nat /\ 1 <= n + 1
    BY <1>1
  <2>3. ToOpen(s) \in Seq(Orders) /\ Len(ToOpen(s)) <= n + 1
    BY <1>2, <2>1, <2>2
  <2> QED
    BY <2>3 DEF n
<1>8. CASE s = "ONE_MULTICAST_SOCKET_AND_ONE_UNICAST_SOCKET_FOR_EACH_INTERFACE"
  <2>1. ToOpen(s) = ForEachInterface(UnicastOnly) \o ForSingleInterface
    BY <1>8 DEF ToOpen
  <2> QED
    BY <1>1, <1>5, <2>1 DEF n
<1>9. CASE s = "ONE_UNICAST_SOCKET_FOR_EACH_INTERFACE"
  BY <1>1, <1>3, <1>4, <1>9 DEF ToOpen, n
<1> QED
  BY <1>6, <1>7, <1>8, <1>9, FactoryAssumption

(***************************************************************************)
(* Selection.                                                              *)
(***************************************************************************)
EntrySockets == {sockets[i].socket : i \in DOMAIN sockets}

(* A selection is an entry.                                                *)
LEMMA SelectionIsEntry ==
  ASSUME sockets \in Seq(Entries), sockets # <<>>, NEW type, NEW addr
  PROVE  /\ ForAll(type) \in DOMAIN sockets
         /\ FirstOf(Exact(type, addr), ForAll(type)) \in DOMAIN sockets
         /\ getSendSocket(type, addr) \in EntrySockets
         /\ getRecvSocket(type, addr) \in EntrySockets
<1>1. DOMAIN sockets \in SUBSET Nat /\ 1 \in DOMAIN sockets
  <2>1. DOMAIN sockets = 1..Len(sockets) /\ Len(sockets) \in Nat
    BY LenProperties
  <2>2. Len(sockets) # 0
    BY EmptySeq
  <2> QED
    BY <2>1, <2>2
<1>2. ASSUME NEW found \in SUBSET DOMAIN sockets, NEW n \in DOMAIN sockets
      PROVE  FirstOf(found, n) \in DOMAIN sockets
  <2>1. CASE found = {}
    BY <2>1 DEF FirstOf
  <2>2. CASE found # {}
    BY <1>1, <2>2, FirstFound
  <2> QED
    BY <2>1, <2>2
<1>3. \A a : Exact(type, a) \in SUBSET DOMAIN sockets /\ Common(type, a) \in SUBSET DOMAIN sockets
  BY DEF Exact, Common
<1>4. ForAll(type) \in DOMAIN sockets
  BY <1>1, <1>2, <1>3 DEF ForAll
<1>5. FirstOf(Exact(type, addr), ForAll(type)) \in DOMAIN sockets
  BY <1>2, <1>3, <1>4
<1>6. FirstOf(Exact(type, addr), FirstOf(Common(type, addr), ForAll(type))) \in DOMAIN sockets
  BY <1>2, <1>3, <1>4
<1> QED
  BY <1>4, <1>5, <1>6 DEF getSendSocket, getRecvSocket, EntrySockets

(* So are all the sockets that are polled.                                 *)
LEMMA PolledAreEntries ==
  ASSUME sockets \in Seq(Entries), sockets # <<>>, NEW type, NEW addrs
  PROVE  getRecvSockets(type, addrs) \subseteq EntrySockets
  BY SelectionIsEntry DEF getRecvSockets

(***************************************************************************)
(* Sockets and their counters.                                             *)
(***************************************************************************)
LEMMA LiveSockets ==
  ASSUME Typed
  PROVE  /\ Live \subseteq Sockets /\ EntrySockets \subseteq Live
         /\ \A h \in DOMAIN held : held[h] \in Live /\ held[h] \in Sockets
<1>1. \A i \in DOMAIN sockets : sockets[i] \in Entries
  BY ElementOfSeq, LenProperties DEF Typed
<1>2. \A i \in DOMAIN sockets : sockets[i].socket \in Sockets
  BY <1>1 DEF Entries
<1> QED
  BY <1>2 DEF Typed, Live, EntrySockets

LEMMA SharersCounted ==
  ASSUME Typed, NEW c
  PROVE  /\ IsFiniteSet(EntriesOf(c)) /\ IsFiniteSet(HeldOf(c))
         /\ Cardinality(EntriesOf(c)) \in Nat /\ Cardinality(HeldOf(c)) \in Nat
<1>1. DOMAIN sockets = 1..Len(sockets) /\ Len(sockets) \in Nat
  BY LenProperties DEF Typed
<1>2. IsFiniteSet(DOMAIN sockets) /\ IsFiniteSet(DOMAIN held)
  <2>1. IsFiniteSet(1..Len(sockets))
    BY <1>1, FS_Interval
  <2>2. DOMAIN held \subseteq Holders /\ IsFiniteSet(Holders)
    BY FactoryAssumption DEF Typed
  <2> QED
    BY <1>1, <2>1, <2>2, FS_Subset
<1>3. EntriesOf(c) \subseteq DOMAIN sockets /\ HeldOf(c) \subseteq DOMAIN held
  BY DEF EntriesOf, HeldOf
<1>4. IsFiniteSet(EntriesOf(c)) /\ IsFiniteSet(HeldOf(c))
  BY <1>2, <1>3, FS_Subset
<1> QED
  BY <1>4, FS_CardinalityType

(* A counter that is not allocated is nobody's.                            *)
LEMMA Unclaimed ==
  ASSUME Typed, CountersExact, NEW c \in Cells, counters[c] = 0
  PROVE  EntriesOf(c) = {} /\ HeldOf(c) = {} /\ \A s \in Live : s.cell # c
<1>1. Cardinality(EntriesOf(c)) + Cardinality(HeldOf(c)) = 0
  BY DEF CountersExact, Sharers
<1>2. Cardinality(EntriesOf(c)) = 0 /\ Cardinality(HeldOf(c)) = 0
  BY <1>1, SharersCounted
<1>3. EntriesOf(c) = {} /\ HeldOf(c) = {}
  BY <1>2, SharersCounted, FS_EmptySet
<1> QED
  BY <1>3 DEF Live, EntriesOf, HeldOf

(* A holder's counter is one: nobody shares its socket. It is more: another *)
(* does.                                                                   *)
LEMMA AloneOrNot ==
  ASSUME Typed, CountersExact, NEW h \in DOMAIN held
  PROVE  /\ held[h].cell \in Cells /\ counters[held[h].cell] \in Nat \ {0}
         /\ counters[held[h].cell] <= 1 => EntriesOf(held[h].cell) = {} /\ HeldOf(held[h].cell) = {h}
         /\ counters[held[h].cell] > 1 => EntriesOf(held[h].cell) # {} \/ HeldOf(held[h].cell) \ {h} # {}
<1> DEFINE c == held[h].cell
           E == EntriesOf(c)
           H == HeldOf(c)
<1>1. c \in Cells /\ h \in H
  BY LiveSockets DEF Sockets, HeldOf
<1>2. counters[c] \in Nat /\ counters[c] = Cardinality(E) + Cardinality(H)
  BY <1>1 DEF CountersExact, Sharers, Typed
<1>3. IsFiniteSet(E) /\ IsFiniteSet(H) /\ Cardinality(E) \in Nat /\ Cardinality(H) \in Nat
  BY SharersCounted
<1> HIDE DEF E, H, c
<1>4. IsFiniteSet(H \ {h}) /\ Cardinality(H \ {h}) = Cardinality(H) - 1
  BY <1>1, <1>3, FS_RemoveElement
<1>5. Cardinality(H \ {h}) \in Nat
  BY <1>4, FS_CardinalityType
<1>6. counters[c] # 0
  BY <1>2, <1>3, <1>4, <1>5
<1>7. ASSUME counters[c] <= 1 PROVE E = {} /\ H = {h}
  <2>1. Cardinality(E) = 0 /\ Cardinality(H \ {h}) = 0
    BY <1>2, <1>3, <1>4, <1>5, <1>7
  <2>2. E = {} /\ H \ {h} = {}
    BY <1>3, <1>4, <2>1, FS_EmptySet
  <2> QED
    BY <1>1, <2>2
<1>8. ASSUME E = {}, H \ {h} = {} PROVE counters[c] <= 1
  <2>1. Cardinality(E) = 0 /\ Cardinality(H \ {h}) = 0
    BY <1>8, FS_EmptySet
  <2> QED
    BY <1>2, <1>3, <1>4, <2>1
<1> QED
  BY <1>1, <1>2, <1>6, <1>7, <1>8 DEF c, E, H

(***************************************************************************)
(* The invariant holds at the start and while the sockets are opened.      *)
(***************************************************************************)
LEMMA InitSocketsIInv == SocketsInit => SocketsIInv
<1> SUFFICES ASSUME SocketsInit PROVE SocketsIInv
  OBVIOUS
<1>1. HostInv
  BY DEF SocketsInit, HostInit, HostInv
<1>2. sockets = <<>> /\ pending = <<>> /\ DOMAIN held = {} /\ Live = {}
  BY DEF SocketsInit, Live
<1>3. Typed
  <2>1. os \in [0..MaxFd -> {Closed, Lost} \union OpenSockets]
    BY DEF SocketsInit, OsInit
  <2>2. counters \in [Cells -> Nat]
    BY DEF SocketsInit, OsInit
  <2>3. simple \in [instance : BOOLEAN, fd : Fds] /\ misused \in BOOLEAN
    BY DEF SocketsInit, OsInit, Fds
  <2>4. Len(pending) + Len(sockets) <= Len(local_ipv4_addresses) + 1
    BY <1>1, <1>2 DEF HostInv
  <2> QED
    BY <1>2, <2>1, <2>2, <2>3, <2>4 DEF Typed, SocketsInit
<1>4. CountersExact
  <2> SUFFICES ASSUME NEW c \in Cells PROVE counters[c] = Sharers(c)
    BY DEF CountersExact
  <2>1. EntriesOf(c) = {} /\ HeldOf(c) = {}
    BY <1>2 DEF EntriesOf, HeldOf
  <2>2. Sharers(c) = 0
    BY <2>1, FS_EmptySet DEF Sharers
  <2> QED
    BY <2>2 DEF SocketsInit, OsInit
<1>5. Accounted
  <2>1. \A f \in 0..MaxFd : ~IsOpen(f)
    BY DEF SocketsInit, OsInit, IsOpen
  <2>2. simple.fd = NoFd
    BY DEF SocketsInit, OsInit
  <2> QED
    BY <1>2, <2>1, <2>2 DEF Accounted, CopiesAgree, NamedOpen, SimpleOpen, OpenNamed, EntriesOpen
<1> QED
  BY <1>1, <1>3, <1>4, <1>5 DEF SocketsIInv

(* Steps that leave sockets and descriptors alone keep what is said of them. *)
LEMMA SocketsAlone ==
  ASSUME CountersExact, ~misused => Accounted, UNCHANGED <<osVars, sockets, held>>
  PROVE  CountersExact' /\ (~misused' => Accounted')
<1>1. UNCHANGED <<os, counters, simple, misused, sockets, held>>
  BY DEF osVars
<1>2. Live' = Live /\ \A c : Sharers(c)' = Sharers(c)
  BY <1>1 DEF Live, Sharers, EntriesOf, HeldOf
<1>3. CountersExact'
  BY <1>1, <1>2 DEF CountersExact
<1>4. \A f : IsOpen(f)' <=> IsOpen(f)
  BY <1>1 DEF IsOpen
<1>5. Accounted => Accounted'
  BY <1>1, <1>2, <1>4
    DEF Accounted, CopiesAgree, NamedOpen, SimpleOpen, OpenNamed, EntriesOpen, EntryOpen
<1> QED
  BY <1>1, <1>3, <1>5

LEMMA HostStep ==
  ASSUME SocketsIInv, getLocalHost, UNCHANGED <<osVars, factoryVars>>
  PROVE  SocketsIInv'
<1>1. UNCHANGED <<os, counters, simple, misused, strategy, pending, sockets, held>>
  BY DEF osVars, factoryVars
<1>2. HostInv'
  BY <1>1, HostKept DEF SocketsIInv
<1>3. pending = <<>> /\ sockets = <<>>
  BY DEF SocketsIInv, HostInv, getLocalHost
<1>4. Len(pending') + Len(sockets') <= Len(local_ipv4_addresses') + 1
  BY <1>1, <1>2, <1>3 DEF HostInv
<1>5. Typed'
  BY <1>1, <1>4 DEF SocketsIInv, Typed
<1> QED
  BY <1>1, <1>2, <1>5, SocketsAlone DEF SocketsIInv

LEMMA InstanceStep ==
  ASSUME SocketsIInv, NEW s \in Strategies, getInstance(s)
  PROVE  SocketsIInv'
<1>1. /\ UNCHANGED <<host, instance, local_ipv4_addresses, os, counters, simple, misused, sockets, held>>
      /\ instance /\ strategy = "none" /\ strategy' = s /\ pending' = ToOpen(s)
  BY DEF getInstance, hostVars, osVars
<1>2. s # "none"
  BY FactoryAssumption
<1>3. HostInv'
  BY <1>1, <1>2 DEF SocketsIInv, HostInv
<1>4. pending' \in Seq(Orders) /\ Len(pending') <= Len(local_ipv4_addresses) + 1
  BY <1>1, OrdersFit DEF SocketsIInv
<1>5. sockets = <<>>
  BY <1>1 DEF SocketsIInv, HostInv
<1>6. Len(pending') + Len(sockets) <= Len(local_ipv4_addresses) + 1
  <2>1. Len(pending') \in Nat /\ Len(local_ipv4_addresses) \in Nat
    BY <1>4, LenProperties DEF SocketsIInv, HostInv
  <2>2. Len(sockets) = 0
    BY <1>5
  <2> QED
    BY <1>4, <2>1, <2>2
<1>7. Typed'
  BY <1>1, <1>4, <1>6 DEF SocketsIInv, Typed
<1> QED
  BY <1>1, <1>3, <1>7, SocketsAlone DEF SocketsIInv, osVars

(* An open yields a descriptor that was closed, or leaves the open ones.   *)
SameOpen(new) == \A f \in 0..MaxFd :
    /\ new[f] \notin {Closed, Lost} <=> IsOpen(f)
    /\ IsOpen(f) => new[f] = os[f]
OpenedAt(f, holder, addr, new) ==
    /\ f \in 0..MaxFd /\ os[f] = Closed
    /\ new[f] = [holder |-> holder, addr |-> addr] /\ new[f] \notin {Closed, Lost}
    /\ \A g \in 0..MaxFd : g # f => new[g] = os[g]

LEMMA OpeningOutcome ==
  ASSUME Typed, NEW holder \in Cells \union {Simple}, NEW addr \in Addrs,
         NEW o \in Openings(holder, addr)
  PROVE  /\ o.os \in [0..MaxFd -> {Closed, Lost} \union OpenSockets] /\ o.fd \in Fds
         /\ o.fd = NoFd => SameOpen(o.os)
         /\ o.fd # NoFd => OpenedAt(o.fd, holder, addr, o.os)
<1> DEFINE socket == [holder |-> holder, addr |-> addr]
<1>1. DOMAIN os = 0..MaxFd /\ os \in [0..MaxFd -> {Closed, Lost} \union OpenSockets]
  BY DEF Typed
<1>2. \A f \in Lowest : f \in 0..MaxFd /\ os[f] = Closed
  BY <1>1 DEF Lowest, Free
<1>3. socket \in OpenSockets /\ socket \notin {Closed, Lost}
  BY DescriptorAssumption DEF OpenSockets, Addrs
<1>4. \A f \in 0..MaxFd : f # NoFd
  BY DescriptorAssumption DEF NoFd
<1> HIDE DEF socket
<1>5. CASE o = [fd |-> NoFd, os |-> os]
  BY <1>1, <1>5 DEF SameOpen, IsOpen, Fds
<1>6. ASSUME NEW f \in Lowest, o = [fd |-> f, os |-> [os EXCEPT ![f] = socket]]
      PROVE  /\ o.os \in [0..MaxFd -> {Closed, Lost} \union OpenSockets] /\ o.fd \in Fds
             /\ o.fd # NoFd /\ OpenedAt(o.fd, holder, addr, o.os)
  BY <1>1, <1>2, <1>3, <1>4, <1>6 DEF OpenedAt, Fds, socket
<1>7. ASSUME NEW f \in Lowest, o = [fd |-> NoFd, os |-> [os EXCEPT ![f] = Lost]]
      PROVE  /\ o.os \in [0..MaxFd -> {Closed, Lost} \union OpenSockets] /\ o.fd \in Fds
             /\ o.fd = NoFd /\ SameOpen(o.os)
  BY <1>1, <1>2, <1>7 DEF SameOpen, IsOpen, Fds
<1> QED
  BY <1>5, <1>6, <1>7 DEF Openings, socket

(* What is kept when the open descriptors stay as they are.                *)
LEMMA DescriptorsKept ==
  ASSUME Typed, Accounted, Live' = Live, UNCHANGED <<simple, sockets>>, SameOpen(os')
  PROVE  Accounted'
<1>1. \A f \in 0..MaxFd : (IsOpen(f)' <=> IsOpen(f)) /\ (IsOpen(f) => os'[f] = os[f])
  BY DEF SameOpen, IsOpen
<1>2. CopiesAgree'
  BY DEF Accounted, CopiesAgree
<1>3. NamedOpen'
  BY <1>1 DEF Accounted, NamedOpen, IsOpen
<1>4. SimpleOpen'
  BY <1>1 DEF Accounted, SimpleOpen, IsOpen
<1>5. OpenNamed'
  BY <1>1 DEF Accounted, OpenNamed
<1>6. EntriesOpen'
  <2> SUFFICES ASSUME NEW i \in DOMAIN sockets PROVE EntryOpen(sockets[i])'
    BY DEF EntriesOpen
  <2>1. EntryOpen(sockets[i]) /\ sockets[i].socket \in Live
    BY DEF Accounted, EntriesOpen, Live
  <2>2. IsOpen(sockets[i].socket.fd)
    BY <2>1 DEF Accounted, NamedOpen, EntryOpen
  <2> QED
    BY <1>1, <2>1, <2>2 DEF EntryOpen, IsOpen
<1> QED
  BY <1>2, <1>3, <1>4, <1>5, <1>6 DEF Accounted

(* A socket with a counter of its own is added to the live ones.           *)
LEMMA SocketAdded ==
  ASSUME Typed, Accounted, UNCHANGED simple, NEW s, Live' = Live \union {s},
         \A t \in Live : t.cell # s.cell, s.cell \in Cells,
         \/ s.fd = NoFd /\ SameOpen(os')
         \/ \E addr : OpenedAt(s.fd, s.cell, addr, os')
  PROVE  /\ CopiesAgree' /\ NamedOpen' /\ SimpleOpen' /\ OpenNamed'
         /\ \A f \in 0..MaxFd : IsOpen(f) => os'[f] = os[f]
<1>1. \A f \in 0..MaxFd : (IsOpen(f) => IsOpen(f)' /\ os'[f] = os[f])
                          /\ (IsOpen(f)' => IsOpen(f) \/ f = s.fd)
  BY DEF SameOpen, OpenedAt, IsOpen
<1>2. ASSUME s.fd # NoFd PROVE IsOpen(s.fd)' /\ os'[s.fd].holder = s.cell
  <2>1. PICK addr : OpenedAt(s.fd, s.cell, addr, os')
    BY <1>2
  <2> QED
    BY <2>1 DEF OpenedAt, IsOpen
<1>3. CopiesAgree'
  BY DEF Accounted, CopiesAgree
<1>4. NamedOpen'
  BY <1>1, <1>2 DEF Accounted, NamedOpen, IsOpen
<1>5. SimpleOpen'
  BY <1>1 DEF Accounted, SimpleOpen, IsOpen
<1>6. OpenNamed'
  BY <1>1 DEF Accounted, OpenNamed
<1> QED
  BY <1>1, <1>3, <1>4, <1>5, <1>6

LEMMA Fresh ==
  ASSUME FreshCells # {}
  PROVE  FreshCell \in Cells /\ counters[FreshCell] = 0
  BY DEF FreshCells, FreshCell

(* What is opened next.                                                    *)
LEMMA HeadAndTail ==
  ASSUME Typed, pending # <<>>
  PROVE  /\ Head(pending) \in Orders /\ Tail(pending) \in Seq(Orders)
         /\ Len(Tail(pending)) = Len(pending) - 1 /\ Len(pending) \in Nat
  BY HeadTailProperties, LenProperties DEF Typed

LEMMA OpenNextStep ==
  ASSUME SocketsIInv, openNext
  PROVE  SocketsIInv'
<1> DEFINE c == FreshCell
           e == Head(pending)
           n == Len(sockets)
<1>1. PICK o \in Openings(c, e.addr) :
         /\ os' = o.os
         /\ IF o.fd = NoFd THEN UNCHANGED <<counters, sockets>>
            ELSE /\ counters' = [counters EXCEPT ![c] = 1]
                 /\ sockets' = Append(sockets,
                      [type |-> e.type, addr |-> e.addr, socket |-> Opened(NewSocket(c), e.addr, o)])
  BY DEF openNext
<1>2. /\ UNCHANGED <<host, instance, local_ipv4_addresses, simple, misused, strategy, held>>
      /\ pending # <<>> /\ pending' = Tail(pending) /\ FreshCells # {}
  BY DEF openNext, hostVars
<1>3. HostInv /\ Typed /\ CountersExact /\ c \in Cells /\ counters[c] = 0
  BY <1>2, Fresh DEF SocketsIInv
<1>4. /\ e \in Orders /\ e.addr \in V4 /\ e.addr \in Addrs /\ e.addr # BadAddr
      /\ pending' \in Seq(Orders) /\ Len(pending') = Len(pending) - 1 /\ Len(pending) \in Nat
  BY <1>2, <1>3, HeadAndTail, DescriptorAssumption DEF Orders, V4, Addrs
<1> HIDE DEF c, e
<1>5. /\ os' \in [0..MaxFd -> {Closed, Lost} \union OpenSockets] /\ o.fd \in Fds
      /\ o.fd = NoFd => SameOpen(os')
      /\ o.fd # NoFd => OpenedAt(o.fd, c, e.addr, os')
  BY <1>1, <1>3, <1>4, OpeningOutcome
<1>6. n \in Nat /\ DOMAIN sockets = 1..n /\ n = Len(sockets) /\ Len(local_ipv4_addresses) \in Nat
      /\ Len(pending) + n <= Len(local_ipv4_addresses) + 1
  BY <1>3, LenProperties DEF Typed, HostInv
<1> HIDE DEF n
<1>7. HostInv'
  <2>1. strategy # "none"
    BY <1>2, <1>3 DEF HostInv
  <2> QED
    BY <1>2, <1>3, <2>1 DEF HostInv
<1>8. CASE o.fd = NoFd
  <2>1. UNCHANGED <<counters, sockets>>
    BY <1>1, <1>8
  <2>2. Len(pending') + Len(sockets') <= Len(local_ipv4_addresses) + 1
    BY <1>4, <1>6, <2>1
  <2>3. Typed'
    BY <1>2, <1>3, <1>4, <1>5, <2>1, <2>2 DEF Typed
  <2>4. Live' = Live /\ \A d : Sharers(d)' = Sharers(d)
    BY <1>2, <2>1 DEF Live, Sharers, EntriesOf, HeldOf
  <2>5. CountersExact'
    BY <1>3, <2>1, <2>4 DEF CountersExact
  <2>6. ~misused' => Accounted'
    BY <1>2, <1>3, <1>5, <1>8, <2>1, <2>4, DescriptorsKept DEF SocketsIInv
  <2> QED
    BY <1>7, <2>3, <2>5, <2>6 DEF SocketsIInv
<1>9. CASE o.fd # NoFd
  <2> DEFINE s == Opened(NewSocket(c), e.addr, o)
             x == [type |-> e.type, addr |-> e.addr, socket |-> s]
  <2>1. counters' = [counters EXCEPT ![c] = 1] /\ sockets' = Append(sockets, x)
    BY <1>1, <1>9
  <2>2. s.fd = o.fd /\ s.cell = c /\ s.in4 = e.addr /\ s \in Sockets
    BY <1>3, <1>4, <1>5 DEF Opened, NewSocket, Sockets, family, IsIpv4, V4
  <2>3. x \in Entries /\ x.socket = s /\ x.addr = e.addr
    BY <1>4, <2>2 DEF Entries, Orders
  <2> HIDE DEF s, x
  <2>4. /\ sockets' \in Seq(Entries) /\ Len(sockets') = n + 1 /\ DOMAIN sockets' = 1..(n + 1)
        /\ sockets'[n + 1] = x /\ \A i \in 1..n : sockets'[i] = sockets[i]
    <3>1. sockets \in Seq(Entries)
      BY <1>3 DEF Typed
    <3> QED
      BY <1>6, <2>1, <2>3, <3>1, AppendProperties
  <2>5. Len(pending') + Len(sockets') <= Len(local_ipv4_addresses) + 1
    BY <1>4, <1>6, <2>4
  <2>6. Typed'
    BY <1>2, <1>3, <1>4, <1>5, <2>1, <2>4, <2>5 DEF Typed
  <2>7. EntriesOf(c) = {} /\ HeldOf(c) = {} /\ \A t \in Live : t.cell # c
    BY <1>3, Unclaimed
  <2>8. Live' = Live \union {s}
    BY <1>2, <1>6, <2>3, <2>4 DEF Live
  <2>9. CountersExact'
    <3> SUFFICES ASSUME NEW d \in Cells PROVE counters'[d] = Sharers(d)'
      BY DEF CountersExact
    <3>1. HeldOf(d)' = HeldOf(d)
      BY <1>2 DEF HeldOf
    <3>2. CASE d = c
      <4>1. EntriesOf(d)' = {n + 1}
        BY <1>6, <2>2, <2>3, <2>4, <2>7, <3>2 DEF EntriesOf
      <4>2. Sharers(d)' = 1
        <5>1. Cardinality({}) = 0 /\ Cardinality({n + 1}) = 1
          BY FS_EmptySet, FS_Singleton
        <5>2. Sharers(d)' = Cardinality({n + 1}) + Cardinality({})
          BY <2>7, <3>1, <3>2, <4>1 DEF Sharers
        <5> QED
          BY <5>1, <5>2
      <4> QED
        BY <1>3, <2>1, <3>2, <4>2 DEF Typed
    <3>3. CASE d # c
      <4>1. EntriesOf(d)' = EntriesOf(d)
        BY <1>6, <2>2, <2>3, <2>4, <3>3 DEF EntriesOf
      <4> QED
        BY <1>3, <2>1, <3>1, <3>3, <4>1 DEF CountersExact, Sharers, Typed
    <3> QED
      BY <3>2, <3>3
  <2>10. ASSUME ~misused' PROVE Accounted'
    <3>1. Accounted
      BY <1>2, <2>10 DEF SocketsIInv
    <3>2. /\ CopiesAgree' /\ NamedOpen' /\ SimpleOpen' /\ OpenNamed'
          /\ \A f \in 0..MaxFd : IsOpen(f) => os'[f] = os[f]
      BY <1>2, <1>3, <1>5, <1>9, <2>2, <2>7, <2>8, <3>1, SocketAdded
    <3>3. EntriesOpen'
      <4> SUFFICES ASSUME NEW i \in 1..(n + 1) PROVE EntryOpen(sockets[i])'
        BY <2>4 DEF EntriesOpen
      <4>1. CASE i = n + 1
        BY <1>5, <1>9, <2>2, <2>3, <2>4, <4>1 DEF EntryOpen, OpenedAt
      <4>2. CASE i # n + 1
        <5>1. i \in DOMAIN sockets /\ sockets'[i] = sockets[i]
          BY <1>6, <2>4, <4>2
        <5>2. EntryOpen(sockets[i]) /\ sockets[i].socket \in Live
          BY <3>1, <5>1 DEF Accounted, EntriesOpen, Live
        <5>3. IsOpen(sockets[i].socket.fd)
          BY <3>1, <5>2 DEF Accounted, NamedOpen, EntryOpen
        <5> QED
          BY <3>2, <5>1, <5>2, <5>3 DEF EntryOpen, IsOpen
      <4> QED
        BY <4>1, <4>2
    <3> QED
      BY <3>2, <3>3 DEF Accounted
  <2> QED
    BY <1>7, <2>6, <2>9, <2>10 DEF SocketsIInv
<1> QED
  BY <1>8, <1>9

(***************************************************************************)
(* The holders.                                                            *)
(***************************************************************************)
LEMMA HoldStep ==
  ASSUME SocketsIInv, NEW list, list \subseteq EntrySockets, hold(list)
  PROVE  SocketsIInv'
<1>0. PICK new \in SUBSET (Holders \ DOMAIN held) : \E of \in [new -> list] :
         /\ held' = [h \in DOMAIN held \union new |-> IF h \in new THEN of[h] ELSE held[h]]
         /\ copySockets(of)
         /\ UNCHANGED <<hostVars, os, simple, misused, strategy, pending, sockets>>
  BY DEF hold
<1>1. PICK of \in [new -> list] :
         /\ held' = [h \in DOMAIN held \union new |-> IF h \in new THEN of[h] ELSE held[h]]
         /\ copySockets(of)
         /\ UNCHANGED <<hostVars, os, simple, misused, strategy, pending, sockets>>
  BY <1>0
<1>2. HostInv /\ Typed /\ CountersExact /\ UNCHANGED <<host, instance, local_ipv4_addresses>>
  BY <1>1 DEF SocketsIInv, hostVars
<1>3. DOMAIN of = new /\ \A h \in new : of[h] \in EntrySockets /\ of[h] \in Live /\ of[h] \in Sockets
  BY <1>2, LiveSockets
<1>4. /\ DOMAIN held' = DOMAIN held \union new
      /\ \A h \in DOMAIN held' : held'[h] = IF h \in new THEN of[h] ELSE held[h]
  BY <1>1
<1>5. ASSUME NEW c \in Cells
      PROVE  counters'[c] = Sharers(c)' /\ counters'[c] \in Nat
  <2> DEFINE copies == {h \in new : of[h].cell = c}
             H == HeldOf(c)
  <2>1. counters'[c] = counters[c] + Cardinality(copies)
    BY <1>1, <1>3 DEF copySockets
  <2>2. HeldOf(c)' = H \union copies /\ H \intersect copies = {}
    BY <1>4 DEF HeldOf
  <2>3. EntriesOf(c)' = EntriesOf(c)
    BY <1>1 DEF EntriesOf
  <2>4. IsFiniteSet(copies)
    <3>1. copies \subseteq Holders
      OBVIOUS
    <3> QED
      BY <3>1, FactoryAssumption, FS_Subset
  <2>5. IsFiniteSet(H) /\ Cardinality(H) \in Nat /\ Cardinality(EntriesOf(c)) \in Nat
    BY <1>2, SharersCounted
  <2>6. counters[c] = Cardinality(EntriesOf(c)) + Cardinality(H)
    BY <1>2 DEF CountersExact, Sharers
  <2> HIDE DEF copies, H
  <2>7. Cardinality(copies) \in Nat /\ Cardinality({}) = 0
    BY <2>4, FS_CardinalityType, FS_EmptySet
  <2>8. Cardinality(H \union copies) = Cardinality(H) + Cardinality(copies)
    <3>1. Cardinality(H \union copies)
          = Cardinality(H) + Cardinality(copies) - Cardinality(H \intersect copies)
      BY <2>4, <2>5, FS_Union
    <3> QED
      BY <2>2, <2>5, <2>7, <3>1
  <2>9. Sharers(c)' = Cardinality(EntriesOf(c)) + Cardinality(H \union copies)
    BY <2>2, <2>3 DEF Sharers
  <2> QED
    BY <2>1, <2>5, <2>6, <2>7, <2>8, <2>9
<1>6. counters' \in [Cells -> Nat]
  BY <1>1, <1>5 DEF copySockets
<1>7. held' \in [DOMAIN held' -> Sockets] /\ DOMAIN held' \in SUBSET Holders
  <2>1. \A h \in DOMAIN held' : held'[h] \in Sockets
    BY <1>2, <1>3, <1>4, LiveSockets
  <2> QED
    BY <1>1, <1>2, <2>1 DEF Typed
<1>8. Typed'
  BY <1>1, <1>2, <1>6, <1>7 DEF Typed
<1>9. Live' = Live
  <2>1. \A h \in DOMAIN held : h \in DOMAIN held' /\ held'[h] = held[h]
    BY <1>4
  <2>2. \A h \in DOMAIN held' : held'[h] \in Live
    BY <1>3, <1>4 DEF Live
  <2>3. sockets' = sockets
    BY <1>1
  <2>4. Live \subseteq Live'
    BY <2>1, <2>3 DEF Live
  <2>5. Live' \subseteq Live
    BY <2>2, <2>3 DEF Live
  <2> QED
    BY <2>4, <2>5
<1>10. SameOpen(os')
  BY <1>1 DEF SameOpen, IsOpen
<1>11. ~misused' => Accounted'
  BY <1>1, <1>2, <1>9, <1>10, DescriptorsKept DEF SocketsIInv
<1>12. HostInv'
  BY <1>1, <1>2 DEF HostInv
<1> QED
  BY <1>5, <1>8, <1>11, <1>12 DEF SocketsIInv, CountersExact

LEMMA HoldSocketStep ==
  ASSUME SocketsIInv, holdSocket
  PROVE  SocketsIInv'
<1>1. PICK type, a : hold({getSendSocket(type, a)}) \/ hold({getRecvSocket(type, a)})
  BY DEF holdSocket
<1>2. {getSendSocket(type, a)} \subseteq EntrySockets /\ {getRecvSocket(type, a)} \subseteq EntrySockets
  BY SelectionIsEntry DEF holdSocket, Ready, SocketsIInv, Typed
<1> QED
  BY <1>1, <1>2, HoldStep

LEMMA HoldRecvSocketsStep ==
  ASSUME SocketsIInv, holdRecvSockets
  PROVE  SocketsIInv'
<1>1. PICK type : hold(getRecvSockets(type, Interfaces))
  BY DEF holdRecvSockets
<1>2. getRecvSockets(type, Interfaces) \subseteq EntrySockets
  BY PolledAreEntries DEF holdRecvSockets, Ready, SocketsIInv, Typed
<1> QED
  BY <1>1, <1>2, HoldStep

LEMMA NewHeldStep ==
  ASSUME SocketsIInv, newHeld
  PROVE  SocketsIInv'
<1> DEFINE c == FreshCell
           s == NewSocket(c)
<1>1. PICK h \in Holders \ DOMAIN held :
         held' = [k \in DOMAIN held \union {h} |-> IF k = h THEN s ELSE held[k]]
  BY DEF newHeld
<1>2. /\ UNCHANGED <<host, instance, local_ipv4_addresses, os, simple, misused, strategy, pending, sockets>>
      /\ counters' = [counters EXCEPT ![c] = 1] /\ FreshCells # {}
  BY DEF newHeld, hostVars
<1>3. HostInv /\ Typed /\ CountersExact /\ c \in Cells /\ counters[c] = 0
  BY <1>2, Fresh DEF SocketsIInv
<1>4. EntriesOf(c) = {} /\ HeldOf(c) = {} /\ \A t \in Live : t.cell # c
  BY <1>3, Unclaimed
<1> HIDE DEF c
<1>5. s \in Sockets /\ s.cell = c /\ s.fd = NoFd
  BY <1>3 DEF NewSocket, Sockets, Fds, V4
<1> HIDE DEF s
<1>6. /\ DOMAIN held' = DOMAIN held \union {h} /\ held'[h] = s
      /\ \A k \in DOMAIN held : held'[k] = held[k]
  BY <1>1
<1>7. Typed'
  <2>1. held' \in [DOMAIN held' -> Sockets] /\ DOMAIN held' \in SUBSET Holders
    BY <1>1, <1>3, <1>5, <1>6 DEF Typed
  <2> QED
    BY <1>2, <1>3, <2>1 DEF Typed
<1>8. Live' = Live \union {s}
  BY <1>2, <1>6 DEF Live
<1>9. CountersExact'
  <2> SUFFICES ASSUME NEW d \in Cells PROVE counters'[d] = Sharers(d)'
    BY DEF CountersExact
  <2>1. EntriesOf(d)' = EntriesOf(d)
    BY <1>2 DEF EntriesOf
  <2>2. CASE d = c
    <3>1. HeldOf(d)' = {h}
      BY <1>4, <1>5, <1>6, <2>2 DEF HeldOf
    <3>2. Cardinality({}) = 0 /\ Cardinality({h}) = 1
      BY FS_EmptySet, FS_Singleton
    <3>3. Sharers(d)' = Cardinality({}) + Cardinality({h})
      BY <1>4, <2>1, <2>2, <3>1 DEF Sharers
    <3>4. counters'[d] = 1
      BY <1>2, <1>3, <2>2 DEF Typed
    <3> QED
      BY <3>2, <3>3, <3>4
  <2>3. CASE d # c
    <3>1. HeldOf(d)' = HeldOf(d)
      BY <1>5, <1>6, <2>3 DEF HeldOf
    <3> QED
      BY <1>2, <1>3, <2>1, <2>3, <3>1 DEF CountersExact, Sharers, Typed
  <2> QED
    BY <2>2, <2>3
<1>10. ASSUME ~misused' PROVE Accounted'
  <2>1. Accounted
    BY <1>2, <1>10 DEF SocketsIInv
  <2>2. SameOpen(os')
    BY <1>2 DEF SameOpen, IsOpen
  <2>3. /\ CopiesAgree' /\ NamedOpen' /\ SimpleOpen' /\ OpenNamed'
    BY <1>2, <1>3, <1>4, <1>5, <1>8, <2>1, <2>2, SocketAdded
  <2>4. EntriesOpen'
    BY <1>2, <2>1 DEF Accounted, EntriesOpen, EntryOpen
  <2> QED
    BY <2>3, <2>4 DEF Accounted
<1>11. HostInv'
  BY <1>2, <1>3 DEF HostInv
<1> QED
  BY <1>7, <1>9, <1>10, <1>11 DEF SocketsIInv

(* Closing a descriptor closes no other.                                   *)
LEMMA ShutOutcome ==
  ASSUME Typed, NEW fd \in Fds
  PROVE  /\ Shut(fd) \in [0..MaxFd -> {Closed, Lost} \union OpenSockets]
         /\ \A f \in 0..MaxFd : f # fd => Shut(fd)[f] = os[f]
         /\ fd # NoFd => fd \in 0..MaxFd /\ Shut(fd)[fd] = Closed
<1>1. CASE fd = NoFd
  BY <1>1 DEF Shut, Typed
<1>2. CASE fd # NoFd
  <2>1. fd \in 0..MaxFd /\ Shut(fd) = [os EXCEPT ![fd] = Closed]
    BY <1>2 DEF Shut, Fds
  <2> QED
    BY <1>2, <2>1 DEF Typed
<1> QED
  BY <1>1, <1>2

LEMMA NoDescriptor == \A f \in 0..MaxFd : f # NoFd
  BY DescriptorAssumption DEF NoFd

(* The destructor of a holder's socket.                                    *)
LEMMA DropStep ==
  ASSUME SocketsIInv, dropSocket
  PROVE  SocketsIInv'
<1>1. PICK h \in DOMAIN held :
         destroySocket(held[h]) /\ held' = [k \in DOMAIN held \ {h} |-> held[k]]
  BY DEF dropSocket
<1>2. UNCHANGED <<host, instance, local_ipv4_addresses, simple, misused, strategy, pending, sockets>>
  BY DEF dropSocket, hostVars
<1>0. PICK c, fd : c = held[h].cell /\ fd = held[h].fd
  OBVIOUS
<1>3. HostInv /\ Typed /\ CountersExact
  BY DEF SocketsIInv
<1>4. /\ c \in Cells /\ counters[c] \in Nat \ {0}
      /\ counters[c] <= 1 => EntriesOf(c) = {} /\ HeldOf(c) = {h}
      /\ counters[c] > 1 => EntriesOf(c) # {} \/ HeldOf(c) \ {h} # {}
  BY <1>0, <1>3, AloneOrNot
<1>5. /\ counters' = [counters EXCEPT ![c] = @ - 1]
      /\ counters[c] <= 1 => os' = Shut(fd)
      /\ counters[c] > 1 => os' = os
  BY <1>0, <1>1, <1>4 DEF destroySocket
<1>6. held[h] \in Live /\ fd \in Fds
  BY <1>0, <1>3, LiveSockets DEF Sockets
<1>7. /\ DOMAIN held' = DOMAIN held \ {h}
      /\ \A k \in DOMAIN held' : held'[k] = held[k]
  BY <1>1
<1>8. Typed'
  <2>1. counters' \in [Cells -> Nat]
    BY <1>3, <1>4, <1>5 DEF Typed
  <2>2. held' \in [DOMAIN held' -> Sockets] /\ DOMAIN held' \in SUBSET Holders
    BY <1>1, <1>3, <1>7 DEF Typed
  <2>3. os' \in [0..MaxFd -> {Closed, Lost} \union OpenSockets]
    BY <1>3, <1>4, <1>5, <1>6, ShutOutcome DEF Typed
  <2> QED
    BY <1>2, <1>3, <2>1, <2>2, <2>3 DEF Typed
<1>9. CountersExact'
  <2> SUFFICES ASSUME NEW d \in Cells PROVE counters'[d] = Sharers(d)'
    BY DEF CountersExact
  <2>1. EntriesOf(d)' = EntriesOf(d)
    BY <1>2 DEF EntriesOf
  <2>2. CASE d = c
    <3>1. HeldOf(d)' = HeldOf(d) \ {h} /\ h \in HeldOf(d)
      BY <1>0, <1>7, <2>2 DEF HeldOf
    <3>2. IsFiniteSet(HeldOf(d)) /\ Cardinality(HeldOf(d)) \in Nat /\ Cardinality(EntriesOf(d)) \in Nat
      BY <1>3, SharersCounted
    <3>3. Cardinality(HeldOf(d) \ {h}) = Cardinality(HeldOf(d)) - 1
      BY <3>1, <3>2, FS_RemoveElement
    <3>4. Sharers(d)' = Cardinality(EntriesOf(d)) + Cardinality(HeldOf(d) \ {h})
      BY <2>1, <3>1 DEF Sharers
    <3>5. counters[d] = Cardinality(EntriesOf(d)) + Cardinality(HeldOf(d))
      BY <1>3 DEF CountersExact, Sharers
    <3>6. counters'[d] = counters[d] - 1
      BY <1>3, <1>5, <2>2 DEF Typed
    <3> QED
      BY <3>2, <3>3, <3>4, <3>5, <3>6
  <2>3. CASE d # c
    <3>1. HeldOf(d)' = HeldOf(d)
      BY <1>0, <1>7, <2>3 DEF HeldOf
    <3> QED
      BY <1>3, <1>5, <2>1, <2>3, <3>1 DEF CountersExact, Sharers, Typed
  <2> QED
    BY <2>2, <2>3
<1>10. ASSUME ~misused' PROVE Accounted'
  <2>1. Accounted
    BY <1>2, <1>10 DEF SocketsIInv
  <2>2. Live' \subseteq Live /\ \A t \in Live : t \in Live' \/ t = held[h]
    BY <1>2, <1>7 DEF Live
  <2>3. CASE counters[c] <= 1
    <3>1. os' = Shut(fd) /\ EntriesOf(c) = {} /\ HeldOf(c) = {h}
      BY <1>4, <1>5, <2>3
    <3>2. \A t \in Live' : t.cell # c
      BY <1>2, <1>7, <3>1 DEF Live, EntriesOf, HeldOf
    <3>3. /\ \A f \in 0..MaxFd : f # fd => os'[f] = os[f] /\ (IsOpen(f)' <=> IsOpen(f))
          /\ fd # NoFd => ~IsOpen(fd)'
      <4>1. /\ \A f \in 0..MaxFd : f # fd => os'[f] = os[f]
            /\ fd # NoFd => os'[fd] = Closed
        BY <1>3, <1>6, <3>1, ShutOutcome
      <4> QED
        BY <4>1 DEF IsOpen
    <3>4. fd # NoFd => IsOpen(fd) /\ os[fd].holder = c
      BY <1>0, <1>6, <2>1 DEF Accounted, NamedOpen
    <3>5. CopiesAgree'
      BY <2>1, <2>2 DEF Accounted, CopiesAgree
    <3>6. \A t \in Live' : t.fd # NoFd => t.fd # fd /\ IsOpen(t.fd) /\ os[t.fd].holder = t.cell
      BY <2>1, <2>2, <3>2, <3>4 DEF Accounted, NamedOpen
    <3>7. NamedOpen'
      BY <3>3, <3>6 DEF NamedOpen, IsOpen
    <3>8. simple.fd # NoFd => simple.fd # fd
      BY <1>4, <2>1, <3>4, DescriptorAssumption DEF Accounted, SimpleOpen
    <3>9. SimpleOpen'
      BY <1>2, <2>1, <3>3, <3>8 DEF Accounted, SimpleOpen, IsOpen
    <3>10. OpenNamed'
      <4> SUFFICES ASSUME NEW f \in 0..MaxFd, IsOpen(f)'
                   PROVE  f = simple'.fd \/ \E t \in Live' : t.fd = f
        BY DEF OpenNamed
      <4>1. f # fd /\ IsOpen(f)
        BY <3>3, NoDescriptor
      <4> QED
        BY <1>0, <1>2, <2>1, <2>2, <4>1 DEF Accounted, OpenNamed
    <3>11. EntriesOpen'
      <4> SUFFICES ASSUME NEW i \in DOMAIN sockets PROVE EntryOpen(sockets[i])'
        BY <1>2 DEF EntriesOpen
      <4>1. EntryOpen(sockets[i]) /\ sockets[i].socket \in Live'
        BY <1>2, <2>1 DEF Accounted, EntriesOpen, Live
      <4>2. IsOpen(sockets[i].socket.fd) /\ sockets[i].socket.fd # fd
        BY <3>6, <4>1 DEF EntryOpen
      <4> QED
        BY <1>2, <3>3, <4>1, <4>2 DEF EntryOpen, IsOpen
    <3> QED
      BY <3>5, <3>7, <3>9, <3>10, <3>11 DEF Accounted
  <2>4. CASE counters[c] > 1
    <3>1. os' = os /\ (EntriesOf(c) # {} \/ HeldOf(c) \ {h} # {})
      BY <1>4, <1>5, <2>4
    <3>2. \A f : IsOpen(f)' <=> IsOpen(f)
      BY <3>1 DEF IsOpen
    <3>3. \E t \in Live' : t.cell = c
      BY <1>2, <1>7, <3>1 DEF Live, EntriesOf, HeldOf
    <3>4. \E t \in Live' : t.fd = fd
      BY <1>0, <1>6, <2>1, <2>2, <3>3 DEF Accounted, CopiesAgree
    <3>5. OpenNamed'
      BY <1>0, <1>2, <2>1, <2>2, <3>2, <3>4 DEF Accounted, OpenNamed
    <3>6. CopiesAgree' /\ NamedOpen' /\ SimpleOpen'
      BY <1>2, <2>1, <2>2, <3>1, <3>2 DEF Accounted, CopiesAgree, NamedOpen, SimpleOpen
    <3>7. EntriesOpen'
      BY <1>2, <2>1, <3>1 DEF Accounted, EntriesOpen, EntryOpen
    <3> QED
      BY <3>5, <3>6, <3>7 DEF Accounted
  <2> QED
    BY <1>4, <2>3, <2>4
<1>11. HostInv'
  BY <1>2, <1>3 DEF HostInv
<1> QED
  BY <1>8, <1>9, <1>10, <1>11 DEF SocketsIInv

(* A holder's socket changes: its counter stays the number of its sharers. *)
LEMMA CountersStay ==
  ASSUME CountersExact, UNCHANGED <<counters, sockets>>, NEW h \in DOMAIN held, NEW s,
         s.cell = held[h].cell, held' = [held EXCEPT ![h] = s]
  PROVE  CountersExact'
<1> SUFFICES ASSUME NEW c \in Cells PROVE counters'[c] = Sharers(c)'
  BY DEF CountersExact
<1>1. DOMAIN held' = DOMAIN held /\ \A k \in DOMAIN held : held'[k] = IF k = h THEN s ELSE held[k]
  OBVIOUS
<1>2. HeldOf(c)' = HeldOf(c) /\ EntriesOf(c)' = EntriesOf(c)
  BY <1>1 DEF HeldOf, EntriesOf
<1> QED
  BY <1>2 DEF CountersExact, Sharers

(* The step changes no descriptors but these two of a counter: the old one  *)
(* closes, the new one, if it is another, was closed and is open for it.    *)
OnlyOwn(old, new, c) ==
    /\ \A f \in 0..MaxFd : f # old /\ f # new =>
          (IsOpen(f)' <=> IsOpen(f)) /\ (IsOpen(f) => os'[f] = os[f])
    /\ old # NoFd /\ old # new => ~IsOpen(old)'
    /\ new # NoFd => IsOpen(new)' /\ os'[new].holder = c
    /\ new # NoFd /\ new # old => ~IsOpen(new)

(* A holder's socket that is nobody else's may close and open again.        *)
LEMMA SocketReplaced ==
  ASSUME Typed, CountersExact, Accounted, UNCHANGED <<sockets, simple>>,
         NEW h \in DOMAIN held, NEW s, NEW c, NEW fd,
         c = held[h].cell, fd = held[h].fd, counters[c] <= 1,
         held' = [held EXCEPT ![h] = s], s.cell = c,
         NEW new, new = s.fd, OnlyOwn(fd, new, c)
  PROVE  Accounted'
<1>0. /\ \A f \in 0..MaxFd : f # fd /\ f # s.fd =>
            (IsOpen(f)' <=> IsOpen(f)) /\ (IsOpen(f) => os'[f] = os[f])
      /\ fd # NoFd /\ fd # s.fd => ~IsOpen(fd)'
      /\ s.fd # NoFd => IsOpen(s.fd)' /\ os'[s.fd].holder = c
      /\ s.fd # NoFd /\ s.fd # fd => ~IsOpen(s.fd)
  BY DEF OnlyOwn
<1>1. DOMAIN held' = DOMAIN held /\ held'[h] = s /\ \A k \in DOMAIN held : k # h => held'[k] = held[k]
  OBVIOUS
<1>2. c \in Cells /\ held[h] \in Live /\ EntriesOf(c) = {} /\ HeldOf(c) = {h}
  BY AloneOrNot, LiveSockets
<1>3. \A k \in DOMAIN held : k # h => held[k].cell # c
  BY <1>2 DEF HeldOf
<1>4. \A i \in DOMAIN sockets : sockets[i].socket.cell # c
  BY <1>2 DEF EntriesOf
<1>5. s \in Live' /\ \A t \in Live' : t = s \/ (t \in Live /\ t.cell # c)
  BY <1>1, <1>3, <1>4 DEF Live
<1>6. \A t \in Live : t \in Live' \/ t = held[h]
  BY <1>1 DEF Live
<1>7. fd # NoFd => IsOpen(fd) /\ os[fd].holder = c
  BY <1>2 DEF Accounted, NamedOpen
<1>8. \A t \in Live' : t # s /\ t.fd # NoFd =>
         /\ t.fd # fd /\ t.fd # s.fd /\ t.fd \in 0..MaxFd
         /\ IsOpen(t.fd) /\ os[t.fd].holder = t.cell
  BY <1>0, <1>5, <1>7 DEF Accounted, NamedOpen, IsOpen
<1>9. CopiesAgree'
  BY <1>5 DEF Accounted, CopiesAgree
<1>10. NamedOpen'
  <2> SUFFICES ASSUME NEW t \in Live', t.fd # NoFd
               PROVE  IsOpen(t.fd)' /\ os'[t.fd].holder = t.cell
    BY DEF NamedOpen
  <2> QED
    BY <1>0, <1>8
<1>11. SimpleOpen'
  <2> SUFFICES ASSUME simple.fd # NoFd PROVE IsOpen(simple.fd)' /\ os'[simple.fd].holder = Simple
    BY DEF SimpleOpen
  <2>1. PICK f : f = simple.fd
    OBVIOUS
  <2>2. IsOpen(f) /\ os[f].holder = Simple /\ f \in 0..MaxFd
    BY <2>1 DEF Accounted, SimpleOpen, IsOpen
  <2>3. f # fd /\ f # s.fd
    BY <1>0, <1>2, <1>7, <2>1, <2>2, DescriptorAssumption
  <2>4. IsOpen(f)' /\ os'[f].holder = Simple
    BY <1>0, <2>2, <2>3
  <2> QED
    BY <2>1, <2>4
<1>12. OpenNamed'
  <2> SUFFICES ASSUME NEW f \in 0..MaxFd, IsOpen(f)'
               PROVE  f = simple'.fd \/ \E t \in Live' : t.fd = f
    BY DEF OpenNamed
  <2>1. CASE f = s.fd
    BY <1>5, <2>1
  <2>2. CASE f # s.fd
    <3>1. f # fd /\ IsOpen(f)
      BY <1>0, <2>2, NoDescriptor
    <3> QED
      BY <1>6, <3>1 DEF Accounted, OpenNamed
  <2> QED
    BY <2>1, <2>2
<1>13. EntriesOpen'
  <2> SUFFICES ASSUME NEW i \in DOMAIN sockets PROVE EntryOpen(sockets[i])'
    BY DEF EntriesOpen
  <2>1. EntryOpen(sockets[i]) /\ sockets[i].socket \in Live' /\ sockets[i].socket # s
    BY <1>4 DEF Accounted, EntriesOpen, Live
  <2>2. os'[sockets[i].socket.fd] = os[sockets[i].socket.fd]
    BY <1>0, <1>8, <2>1 DEF EntryOpen, IsOpen
  <2> QED
    BY <2>1, <2>2 DEF EntryOpen
<1> QED
  BY <1>9, <1>10, <1>11, <1>12, <1>13 DEF Accounted

LEMMA CloseHeldStep ==
  ASSUME SocketsIInv, closeHeld
  PROVE  SocketsIInv'
<1>1. PICK h \in DOMAIN held :
         held[h].fd # NoFd /\ closeSocket(held[h]) /\ held' = [held EXCEPT ![h] = closed(@)]
  BY DEF closeHeld
<1>2. UNCHANGED <<host, instance, local_ipv4_addresses, counters, simple, strategy, pending, sockets>>
  BY DEF closeHeld, hostVars
<1>3. HostInv /\ Typed /\ CountersExact
  BY DEF SocketsIInv
<1>4. PICK c, fd, s : c = held[h].cell /\ fd = held[h].fd /\ s = closed(held[h])
  OBVIOUS
<1>5. held[h] \in Sockets /\ fd \in Fds /\ fd # NoFd /\ c \in Cells /\ counters[c] \in Nat
  BY <1>1, <1>3, <1>4, LiveSockets DEF Sockets, Typed
<1>6. s \in Sockets /\ s.fd = NoFd /\ s.cell = c
  BY <1>4, <1>5 DEF closed, Sockets, Fds
<1>7. os' = Shut(fd) /\ misused' = (misused \/ counters[c] > 1)
  BY <1>1, <1>4, <1>5 DEF closeSocket
<1>8. held' = [held EXCEPT ![h] = s]
  BY <1>1, <1>4
<1>9. /\ os' \in [0..MaxFd -> {Closed, Lost} \union OpenSockets]
      /\ \A f \in 0..MaxFd : f # fd => os'[f] = os[f]
      /\ os'[fd] = Closed
  BY <1>3, <1>5, <1>7, ShutOutcome
<1>10. Typed'
  <2>1. held' \in [DOMAIN held' -> Sockets] /\ DOMAIN held' \in SUBSET Holders
    BY <1>3, <1>6, <1>8 DEF Typed
  <2>2. misused' \in BOOLEAN
    BY <1>7
  <2> QED
    BY <1>2, <1>3, <1>9, <2>1, <2>2 DEF Typed
<1>11. CountersExact'
  BY <1>2, <1>3, <1>4, <1>6, <1>8, CountersStay
<1>12. ASSUME ~misused' PROVE Accounted'
  <2>0. ~misused /\ ~(counters[c] > 1)
    BY <1>7, <1>12, Zenon
  <2>1. Accounted /\ counters[c] <= 1
    BY <1>5, <2>0 DEF SocketsIInv
  <2>2. OnlyOwn(fd, NoFd, c)
    BY <1>9 DEF OnlyOwn, IsOpen
  <2> QED
    BY <1>2, <1>3, <1>4, <1>6, <1>8, <2>1, <2>2, SocketReplaced
<1>13. HostInv'
  BY <1>2, <1>3 DEF HostInv
<1> QED
  BY <1>10, <1>11, <1>12, <1>13 DEF SocketsIInv

LEMMA OpenHeldStep ==
  ASSUME SocketsIInv, openHeld
  PROVE  SocketsIInv'
<1>1. PICK h \in DOMAIN held, a \in OwnAddrs :
         \E o \in Openings(held[h].cell, a) \union {[fd |-> held[h].fd, os |-> os]} :
            openSocket(held[h], a, o) /\ held' = [held EXCEPT ![h] = Opened(@, a, o)]
  BY DEF openHeld
<1>2. PICK o : openSocket(held[h], a, o) /\ held' = [held EXCEPT ![h] = Opened(@, a, o)]
  BY <1>1
<1>3. UNCHANGED <<host, instance, local_ipv4_addresses, counters, simple, strategy, pending, sockets>>
  BY DEF openHeld, hostVars
<1>4. HostInv /\ Typed /\ CountersExact
  BY DEF SocketsIInv
<1>5. PICK c, fd, s : c = held[h].cell /\ fd = held[h].fd /\ s = Opened(held[h], a, o)
  OBVIOUS
<1>6. held[h] \in Sockets /\ fd \in Fds /\ c \in Cells /\ counters[c] \in Nat /\ a \in Addrs
  BY <1>4, <1>5, LiveSockets, FactoryAssumption DEF Sockets, Typed
<1>7. held' = [held EXCEPT ![h] = s]
  BY <1>2, <1>5
<1>8. misused' = (misused \/ counters[c] > 1)
  BY <1>2, <1>5 DEF openSocket
<1>9. /\ os' \in [0..MaxFd -> {Closed, Lost} \union OpenSockets]
      /\ s \in Sockets /\ s.cell = c
      /\ ~misused /\ counters[c] <= 1 => OnlyOwn(fd, s.fd, c)
  <2>0. ~misused /\ fd # NoFd => IsOpen(fd) /\ os[fd].holder = c
    BY <1>4, <1>5, LiveSockets DEF SocketsIInv, Accounted, NamedOpen
  <2>1. CASE a = BadAddr
    <3>1. os' = os /\ o = [fd |-> fd, os |-> os]
      BY <1>2, <1>5, <2>1 DEF openSocket
    <3>2. ~IsIpv4(a)
      BY <2>1, DescriptorAssumption DEF IsIpv4
    <3>3. s \in Sockets /\ s.cell = c /\ s.fd = fd
      BY <1>5, <1>6, <2>1, <3>2 DEF Opened, Sockets, family
    <3>4. ASSUME ~misused PROVE OnlyOwn(fd, s.fd, c)
      BY <2>0, <3>1, <3>3, <3>4 DEF OnlyOwn, IsOpen
    <3> QED
      BY <1>4, <3>1, <3>3, <3>4 DEF Typed
  <2>2. CASE a # BadAddr
    <3>1. /\ o \in Openings(c, a)
          /\ fd = NoFd \/ counters[c] > 1 => os' = o.os
          /\ fd # NoFd /\ ~(counters[c] > 1) => os' = [o.os EXCEPT ![fd] = Lost]
      BY <1>2, <1>5, <2>2 DEF openSocket
    <3>2. /\ o.os \in [0..MaxFd -> {Closed, Lost} \union OpenSockets] /\ o.fd \in Fds
          /\ o.fd = NoFd => SameOpen(o.os)
          /\ o.fd # NoFd => OpenedAt(o.fd, c, a, o.os)
      BY <1>4, <1>6, <3>1, OpeningOutcome
    <3>3. s \in Sockets /\ s.cell = c /\ s.fd = o.fd
      BY <1>5, <1>6, <2>2, <3>2 DEF Opened, Sockets, family, IsIpv4, V4
    <3>4. fd # NoFd => fd \in 0..MaxFd
      BY <1>6 DEF Fds
    <3>5. /\ os' \in [0..MaxFd -> {Closed, Lost} \union OpenSockets]
          /\ \A f \in 0..MaxFd : f # fd => os'[f] = o.os[f]
          /\ fd # NoFd /\ counters[c] <= 1 => os'[fd] = Lost
      <4>1. counters[c] <= 1 <=> ~(counters[c] > 1)
        BY <1>6
      <4>2. CASE fd = NoFd \/ counters[c] > 1
        BY <3>1, <3>2, <4>1, <4>2
      <4>3. CASE fd # NoFd /\ ~(counters[c] > 1)
        <5>1. os' = [o.os EXCEPT ![fd] = Lost]
          BY <3>1, <4>3
        <5> QED
          BY <3>2, <3>4, <4>3, <5>1
      <4> QED
        BY <4>2, <4>3
    <3>6. ASSUME ~misused, counters[c] <= 1 PROVE OnlyOwn(fd, s.fd, c)
      <4>1. fd # NoFd => IsOpen(fd) /\ os'[fd] = Lost
        BY <2>0, <3>5, <3>6
      <4>2. CASE o.fd = NoFd
        BY <3>2, <3>3, <3>5, <4>1, <4>2 DEF OnlyOwn, SameOpen, IsOpen
      <4>3. CASE o.fd # NoFd
        <5>1. OpenedAt(o.fd, c, a, o.os) /\ o.fd # fd
          BY <3>2, <4>1, <4>3 DEF OpenedAt, IsOpen
        <5> QED
          BY <3>3, <3>5, <4>1, <4>3, <5>1 DEF OnlyOwn, OpenedAt, IsOpen
      <4> QED
        BY <4>2, <4>3
    <3> QED
      BY <3>3, <3>5, <3>6
  <2> QED
    BY <2>1, <2>2
<1>10. Typed'
  <2>1. held' \in [DOMAIN held' -> Sockets] /\ DOMAIN held' \in SUBSET Holders
    BY <1>4, <1>7, <1>9 DEF Typed
  <2>2. misused' \in BOOLEAN
    BY <1>8
  <2> QED
    BY <1>3, <1>4, <1>9, <2>1, <2>2 DEF Typed
<1>11. CountersExact'
  BY <1>3, <1>4, <1>5, <1>7, <1>9, CountersStay
<1>12. ASSUME ~misused' PROVE Accounted'
  <2>1. ~misused /\ ~(counters[c] > 1)
    BY <1>8, <1>12, Zenon
  <2>2. Accounted /\ counters[c] <= 1
    BY <1>6, <2>1 DEF SocketsIInv
  <2>3. OnlyOwn(fd, s.fd, c)
    BY <1>9, <2>1, <2>2
  <2> QED
    BY <1>3, <1>4, <1>5, <1>7, <1>9, <2>2, <2>3, SocketReplaced
<1>13. HostInv'
  BY <1>3, <1>4 DEF HostInv
<1> QED
  BY <1>10, <1>11, <1>12, <1>13 DEF SocketsIInv

(* The static descriptor of SpeedwireSocketSimple.                         *)
LEMMA SimpleStep ==
  ASSUME SocketsIInv, simpleSocket
  PROVE  SocketsIInv'
<1>1. UNCHANGED <<host, instance, local_ipv4_addresses, strategy, pending, sockets, held, counters, misused>>
  BY DEF simpleSocket, hostVars, factoryVars, getInstanceSimple, closeSimple
<1>2. HostInv /\ Typed /\ CountersExact
  BY DEF SocketsIInv
<1>3. Live' = Live /\ \A c : Sharers(c)' = Sharers(c)
  BY <1>1 DEF Live, Sharers, EntriesOf, HeldOf
<1>4. CountersExact'
  BY <1>1, <1>2, <1>3 DEF CountersExact
<1>5. HostInv'
  BY <1>1, <1>2 DEF HostInv
<1>6. ASSUME os' \in [0..MaxFd -> {Closed, Lost} \union OpenSockets],
             simple' \in [instance : BOOLEAN, fd : Fds]
      PROVE  Typed'
  BY <1>1, <1>2, <1>6 DEF Typed
(* What stays, when the descriptors of the live sockets do *)
<1>7. ASSUME Accounted, \A f \in 0..MaxFd : IsOpen(f) /\ f # simple.fd => IsOpen(f)' /\ os'[f] = os[f]
      PROVE  CopiesAgree' /\ NamedOpen' /\ EntriesOpen'
  <2>1. \A s \in Live : s.fd # NoFd =>
           /\ IsOpen(s.fd) /\ s.fd \in 0..MaxFd /\ s.fd # simple.fd /\ os[s.fd].holder = s.cell
    BY <1>2, <1>7, LiveSockets, DescriptorAssumption
      DEF Accounted, NamedOpen, SimpleOpen, IsOpen, Sockets
  <2>2. NamedOpen'
    <3> SUFFICES ASSUME NEW s \in Live, s.fd # NoFd PROVE IsOpen(s.fd)' /\ os'[s.fd].holder = s.cell
      BY <1>3 DEF NamedOpen
    <3> QED
      BY <1>7, <2>1
  <2>3. EntriesOpen'
    <3> SUFFICES ASSUME NEW i \in DOMAIN sockets PROVE EntryOpen(sockets[i])'
      BY <1>1 DEF EntriesOpen
    <3>1. EntryOpen(sockets[i]) /\ sockets[i].socket \in Live
      BY <1>7 DEF Accounted, EntriesOpen, Live
    <3>2. os'[sockets[i].socket.fd] = os[sockets[i].socket.fd]
      BY <1>7, <2>1, <3>1 DEF EntryOpen
    <3> QED
      BY <1>1, <3>1, <3>2 DEF EntryOpen
  <2>4. CopiesAgree'
    BY <1>3, <1>7 DEF Accounted, CopiesAgree
  <2> QED
    BY <2>2, <2>3, <2>4
<1>8. ASSUME NEW o \in Openings(Simple, AnyAddr), getInstanceSimple(o)
      PROVE  SocketsIInv'
  <2>1. simple.fd = NoFd /\ simple' = [instance |-> o.fd # NoFd, fd |-> o.fd] /\ os' = o.os
    BY <1>8 DEF getInstanceSimple
  <2>2. /\ os' \in [0..MaxFd -> {Closed, Lost} \union OpenSockets] /\ o.fd \in Fds
        /\ o.fd = NoFd => SameOpen(os')
        /\ o.fd # NoFd => OpenedAt(o.fd, Simple, AnyAddr, os')
    BY <1>2, <2>1, OpeningOutcome DEF Addrs
  <2>3. simple' \in [instance : BOOLEAN, fd : Fds] /\ simple'.fd = o.fd
    BY <2>1, <2>2
  <2>4. /\ \A f \in 0..MaxFd : IsOpen(f) => IsOpen(f)' /\ os'[f] = os[f]
        /\ \A f \in 0..MaxFd : IsOpen(f)' => IsOpen(f) \/ f = o.fd
    BY <2>2 DEF SameOpen, OpenedAt, IsOpen
  <2>5. SimpleOpen'
    <3> SUFFICES ASSUME o.fd # NoFd PROVE IsOpen(o.fd) ' /\ os'[o.fd].holder = Simple
      BY <2>3 DEF SimpleOpen
    <3> QED
      BY <2>2 DEF OpenedAt, IsOpen
  <2>6. Accounted => OpenNamed'
    <3> SUFFICES ASSUME Accounted, NEW f \in 0..MaxFd, IsOpen(f)', f # o.fd
                 PROVE  \E s \in Live : s.fd = f
      BY <1>3, <2>3 DEF OpenNamed
    <3> QED
      BY <2>1, <2>4, NoDescriptor DEF Accounted, OpenNamed
  <2>7. ~misused' => Accounted'
    BY <1>1, <1>7, <2>4, <2>5, <2>6 DEF Accounted, SocketsIInv
  <2> QED
    BY <1>4, <1>5, <1>6, <2>2, <2>3, <2>7 DEF SocketsIInv
<1>9. ASSUME closeSimple
      PROVE  SocketsIInv'
  <2>1. PICK fd : fd = simple.fd
    OBVIOUS
  <2>2. simple' = [simple EXCEPT !.fd = NoFd] /\ os' = Shut(fd)
    BY <1>9, <2>1 DEF closeSimple
  <2>3. fd \in Fds /\ simple' \in [instance : BOOLEAN, fd : Fds] /\ simple'.fd = NoFd
    BY <1>2, <2>1, <2>2 DEF Typed, Fds
  <2>4. /\ os' \in [0..MaxFd -> {Closed, Lost} \union OpenSockets]
        /\ \A f \in 0..MaxFd : f # fd => os'[f] = os[f]
        /\ fd # NoFd => os'[fd] = Closed
    BY <1>2, <2>2, <2>3, ShutOutcome
  <2>5. /\ \A f \in 0..MaxFd : IsOpen(f) /\ f # fd => IsOpen(f)' /\ os'[f] = os[f]
        /\ \A f \in 0..MaxFd : IsOpen(f)' => IsOpen(f) /\ f # fd
    <3>1. \A f \in 0..MaxFd : f = fd => os'[f] = Closed
      BY <2>4, NoDescriptor
    <3> QED
      BY <2>4, <3>1 DEF IsOpen
  <2>6. SimpleOpen'
    BY <2>3 DEF SimpleOpen
  <2>7. Accounted => OpenNamed'
    <3> SUFFICES ASSUME Accounted, NEW f \in 0..MaxFd, IsOpen(f)'
                 PROVE  \E s \in Live : s.fd = f
      BY <1>3 DEF OpenNamed
    <3> QED
      BY <2>1, <2>5 DEF Accounted, OpenNamed
  <2>8. ~misused' => Accounted'
    BY <1>1, <1>7, <2>1, <2>5, <2>6, <2>7 DEF Accounted, SocketsIInv
  <2> QED
    BY <1>4, <1>5, <1>6, <2>3, <2>4, <2>8 DEF SocketsIInv
<1> QED
  BY <1>8, <1>9 DEF simpleSocket

LEMMA NextSocketsIInv == SocketsIInv /\ [SocketsNext]_socketVars => SocketsIInv'
<1> SUFFICES ASSUME SocketsIInv, [SocketsNext]_socketVars PROVE SocketsIInv'
  OBVIOUS
<1>1. CASE getLocalHost /\ UNCHANGED <<osVars, factoryVars>>
  BY <1>1, HostStep
<1>2. ASSUME NEW s \in Strategies, getInstance(s) PROVE SocketsIInv'
  BY <1>2, InstanceStep
<1>3. CASE openNext
  BY <1>3, OpenNextStep
<1>4. CASE holdSocket
  BY <1>4, HoldSocketStep
<1>5. CASE holdRecvSockets
  BY <1>5, HoldRecvSocketsStep
<1>6. CASE dropSocket
  BY <1>6, DropStep
<1>7. CASE closeHeld
  BY <1>7, CloseHeldStep
<1>8. CASE openHeld
  BY <1>8, OpenHeldStep
<1>9. CASE newHeld
  BY <1>9, NewHeldStep
<1>10. CASE simpleSocket
  BY <1>10, SimpleStep
<1>11. CASE UNCHANGED socketVars
  <2>1. UNCHANGED <<host, instance, local_ipv4_addresses, osVars, strategy, pending, sockets, held>>
    BY <1>11 DEF socketVars, hostVars, factoryVars
  <2>2. HostInv' /\ Typed'
    BY <2>1 DEF SocketsIInv, HostInv, Typed, osVars
  <2> QED
    BY <2>1, <2>2, SocketsAlone DEF SocketsIInv
<1> QED
  BY <1>1, <1>2, <1>3, <1>4, <1>5, <1>6, <1>7, <1>8, <1>9, <1>10, <1>11 DEF SocketsNext

THEOREM SocketsInvariant == SocketsSpec => []SocketsIInv
  BY InitSocketsIInv, NextSocketsIInv, PTL DEF SocketsSpec

(* For every number of interfaces, descriptors, holders and copies: each     *)
(* reference counter of SpeedwireSocket is the number of the live sockets    *)
(* that share it, and as long as no shared socket is closed or opened again, *)
(* the descriptors that are open are those that live sockets name, each for  *)
(* its own sharers.                                                          *)
THEOREM SocketsStayAccounted == SocketsSpec => []SocketsAccounted
<1>1. SocketsIInv => SocketsAccounted
  <2> SUFFICES ASSUME SocketsIInv PROVE SocketsAccounted
    OBVIOUS
  <2>1. Typed /\ CountersExact
    BY DEF SocketsIInv
  <2>2. SocketsTypeOK
    <3>1. os \in [0..MaxFd -> {Closed, Lost} \union [holder : Cells \union {Simple}, addr : Addrs]]
      BY <2>1 DEF Typed, OpenSockets
    <3>2. \A s \in Live : s.fd \in {NoFd} \union (0..MaxFd) /\ s.cell \in Cells
                          /\ s.family \in {"v4", "v6", "unspec"} /\ s.in4 \in V4Addrs \union {AnyAddr}
      BY <2>1, LiveSockets DEF Sockets, Fds, V4
    <3>3. Len(sockets) <= Len(local_ipv4_addresses) + 1
      BY <2>1, LenProperties DEF SocketsIInv, HostInv, Typed
    <3> QED
      BY <3>1, <3>2, <3>3 DEF SocketsTypeOK
  <2>3. ASSUME ~misused
        PROVE  LET named == {s \in Live : s.fd # NoFd}
               IN  /\ \A s \in named : os[s.fd] \notin {Closed, Lost} /\ os[s.fd].holder = s.cell
                   /\ simple.fd # NoFd => os[simple.fd] \notin {Closed, Lost} /\ os[simple.fd].holder = Simple
                   /\ {f \in DOMAIN os : os[f] \notin {Closed, Lost}}
                      = {s.fd : s \in named} \union ({simple.fd} \ {NoFd})
    <3> DEFINE named == {s \in Live : s.fd # NoFd}
    <3>1. Accounted /\ DOMAIN os = 0..MaxFd
      BY <2>1, <2>3 DEF SocketsIInv, Typed
    <3>2. \A f : f \in DOMAIN os /\ os[f] \notin {Closed, Lost} <=> IsOpen(f)
      BY <3>1 DEF IsOpen
    <3>3. \A s \in named : IsOpen(s.fd) /\ os[s.fd].holder = s.cell
      BY <3>1 DEF Accounted, NamedOpen
    <3>4. simple.fd # NoFd => IsOpen(simple.fd) /\ os[simple.fd].holder = Simple
      BY <3>1 DEF Accounted, SimpleOpen
    <3>5. \A f : IsOpen(f) => f # NoFd /\ (f = simple.fd \/ \E s \in named : s.fd = f)
      BY <3>1, NoDescriptor DEF Accounted, OpenNamed, IsOpen
    <3> HIDE DEF named
    <3>6. {f \in DOMAIN os : os[f] \notin {Closed, Lost}}
          = {s.fd : s \in named} \union ({simple.fd} \ {NoFd})
      BY <3>2, <3>3, <3>4, <3>5
    <3>7. /\ \A s \in named : os[s.fd] \notin {Closed, Lost} /\ os[s.fd].holder = s.cell
          /\ simple.fd # NoFd => os[simple.fd] \notin {Closed, Lost} /\ os[simple.fd].holder = Simple
      BY <3>3, <3>4 DEF IsOpen
    <3> QED
      BY <3>6, <3>7 DEF named
  <2> QED
    BY <2>1, <2>2, <2>3 DEF SocketsAccounted, DescriptorsAccounted
<1> QED
  BY <1>1, SocketsInvariant, PTL

(***************************************************************************)
(* What the selection is good for.                                         *)
(***************************************************************************)
LEMMA InterfacesTyped ==
  ASSUME HostInv
  PROVE  /\ DOMAIN Interfaces \in SUBSET Nat
         /\ \A i \in DOMAIN Interfaces : Interfaces[i] \in V4Addrs /\ Interfaces[i] # AnyAddr
<1>1. DOMAIN Interfaces = DOMAIN local_ipv4_addresses
  BY DEF Interfaces
<1>2. \A i \in DOMAIN Interfaces : Interfaces[i] \in V4Addrs
  BY <1>1, InterfacesAreV4 DEF Interfaces
<1> QED
  BY <1>1, <1>2, DescriptorAssumption DEF HostInv

(* Of the pairs of a type and an address one comes first.                  *)
LEMMA EarliestPair ==
  ASSUME NEW P \in SUBSET (Nat \X Nat), P # {}
  PROVE  \E q \in P : \A r \in P : ~Earlier(r, q)
<1> DEFINE first == {p[1] : p \in P}
<1>1. first \in SUBSET Nat /\ first # {}
  OBVIOUS
<1>2. PICK t \in first : \A u \in first : t <= u
  <2> HIDE DEF first
  <2> QED
    BY <1>1, Numbers!Least
<1> DEFINE second == {p[2] : p \in {r \in P : r[1] = t}}
<1>3. second \in SUBSET Nat /\ second # {}
  OBVIOUS
<1>4. PICK i \in second : \A j \in second : i <= j
  <2> HIDE DEF second
  <2> QED
    BY <1>3, Numbers!Least
<1>5. PICK q \in P : q[1] = t /\ q[2] = i
  OBVIOUS
<1>6. ASSUME NEW r \in P PROVE ~Earlier(r, q)
  <2>1. r[1] \in Nat /\ r[2] \in Nat /\ t \in Nat /\ i \in Nat /\ r[1] \in first
    BY <1>1, <1>3
  <2>2. r[1] = t => r[2] \in second
    OBVIOUS
  <2>3. t <= r[1] /\ (r[1] = t => i <= r[2])
    BY <1>2, <1>4, <2>1, <2>2
  <2> QED
    BY <1>5, <2>1, <2>3 DEF Earlier
<1> QED
  BY <1>6

(* One type asked for: the same socket receives that is sent from.         *)
LEMMA ReceivedWhereSent ==
  ASSUME NEW type \in {UnicastOnly, MulticastOnly}, NEW addr, addr # AnyAddr
  PROVE  getRecvSocket(type, addr) = getSendSocket(type, addr)
<1>1. Exact(type, addr) = Common(type, addr)
  BY DEF Exact, Common, UnicastOnly, MulticastOnly
<1>2. FirstOf(Exact(type, addr), FirstOf(Common(type, addr), ForAll(type)))
      = FirstOf(Exact(type, addr), ForAll(type))
  BY <1>1 DEF FirstOf
<1> QED
  BY <1>2 DEF getRecvSocket, getSendSocket

(* For every strategy and every set of its sockets that could be opened:     *)
(* the sockets that getRecvSockets gives the discovery to poll are distinct  *)
(* descriptors, and the one that getSendSocket gives for a request is among  *)
(* them.                                                                     *)
THEOREM AnswersArePolled == SocketsSpec => []AnswersPolled
<1>1. SocketsIInv => AnswersPolled
  <2> SUFFICES ASSUME SocketsIInv, Ready
               PROVE  LET polled == getRecvSockets(Anycast, Interfaces)
                      IN  /\ \A s, t \in polled : s.fd = t.fd => s = t
                          /\ \A type \in {UnicastOnly, MulticastOnly}, i \in DOMAIN Interfaces :
                                \E s \in polled : s.fd = getSendSocket(type, Interfaces[i]).fd
    BY DEF AnswersPolled
  <2> DEFINE asked == TypesAsked(Anycast) \X DOMAIN Interfaces
             For(p) == getRecvSocket(Types[p[1]], Interfaces[p[2]])
             First(q) == \A r \in asked : Earlier(r, q) => For(r).fd # For(q).fd
             polled == getRecvSockets(Anycast, Interfaces)
  <2>1. /\ DOMAIN Interfaces \in SUBSET Nat
        /\ \A i \in DOMAIN Interfaces : Interfaces[i] \in V4Addrs /\ Interfaces[i] # AnyAddr
    BY InterfacesTyped DEF SocketsIInv
  <2>2. polled = {For(p) : p \in {q \in asked : First(q)}}
    <3>1. ~(Anycast \subseteq MulticastOnly)
      BY DEF Anycast, UnicastOnly, MulticastOnly
    <3> QED
      BY <3>1 DEF getRecvSockets
  <2>3. TypesAsked(Anycast) = 1..3 /\ Types[1] = UnicastOnly /\ Types[2] = MulticastOnly
    <3>1. DOMAIN Types = 1..3 /\ Types[1] = UnicastOnly /\ Types[2] = MulticastOnly /\ Types[3] = Anycast
      BY DEF Types
    <3>2. \A t \in 1..3 : Types[t] \intersect Anycast # {}
      <4>1. \A t \in 1..3 : t = 1 \/ t = 2 \/ t = 3
        OBVIOUS
      <4> QED
        BY <3>1, <4>1 DEF Anycast, UnicastOnly, MulticastOnly
    <3> QED
      BY <3>1, <3>2 DEF TypesAsked
  <2>4. asked \in SUBSET (Nat \X Nat)
    BY <2>1, <2>3
  <2> HIDE DEF asked, For, First, polled
  <2>5. ASSUME NEW s \in polled, NEW t \in polled, s.fd = t.fd
        PROVE  s = t
    <3>1. PICK p \in asked : First(p) /\ s = For(p)
      BY <2>2
    <3>2. PICK q \in asked : First(q) /\ t = For(q)
      BY <2>2
    <3>3. ~Earlier(p, q) /\ ~Earlier(q, p)
      BY <2>5, <3>1, <3>2 DEF First
    <3>4. p \in Nat \X Nat /\ q \in Nat \X Nat
      BY <2>4
    <3>5. p[1] = q[1] /\ p[2] = q[2]
      BY <3>3, <3>4 DEF Earlier
    <3>6. p = q
      BY <3>4, <3>5
    <3> QED
      BY <3>1, <3>2, <3>6
  <2>6. ASSUME NEW type \in {UnicastOnly, MulticastOnly}, NEW i \in DOMAIN Interfaces
        PROVE  \E s \in polled : s.fd = getSendSocket(type, Interfaces[i]).fd
    <3>1. PICK t \in 1..3 : Types[t] = type
      BY <2>3
    <3>2. PICK p : p = <<t, i>>
      OBVIOUS
    <3>3. p \in asked /\ For(p) = getSendSocket(type, Interfaces[i])
      <4>1. getRecvSocket(type, Interfaces[i]) = getSendSocket(type, Interfaces[i])
        BY <2>1, ReceivedWhereSent
      <4> QED
        BY <2>3, <3>1, <3>2, <4>1 DEF asked, For
    <3> DEFINE P == {q \in asked : For(q).fd = For(p).fd}
    <3>4. P \in SUBSET (Nat \X Nat) /\ P # {}
      BY <2>4, <3>3
    <3>5. PICK q \in P : \A r \in P : ~Earlier(r, q)
      <4> HIDE DEF P
      <4> QED
        BY <3>4, EarliestPair
    <3>6. q \in asked /\ For(q).fd = For(p).fd /\ First(q)
      BY <3>5 DEF First
    <3>7. For(q) \in polled
      BY <2>2, <3>6
    <3> QED
      BY <3>3, <3>6, <3>7
  <2> QED
    BY <2>5, <2>6 DEF polled
<1> QED
  BY <1>1, SocketsInvariant, PTL

(* An entry that is selected by address has it, or there is none.          *)
LEMMA ExactlySelected ==
  ASSUME sockets \in Seq(Entries), NEW type, NEW addr, Exact(type, addr) # {}
  PROVE  /\ FirstOf(Exact(type, addr), ForAll(type)) \in Exact(type, addr)
         /\ \A other : FirstOf(Exact(type, addr), other) \in Exact(type, addr)
<1>1. Exact(type, addr) \in SUBSET Nat
  BY LenProperties DEF Exact
<1> QED
  BY <1>1, FirstFound

(* For every strategy and whichever sockets could be opened: a unicast       *)
(* request for an interface comes from that interface's address if its       *)
(* socket is open and leaves by no other if only the one for all interfaces  *)
(* is, and a multicast request leaves through the interface it is sent for.  *)
THEOREM RequestsLeave == SocketsSpec => []RequestsLeaveByInterface
<1>1. SocketsIInv => RequestsLeaveByInterface
  <2> SUFFICES ASSUME SocketsIInv, Ready, ~misused, NEW n \in DOMAIN Interfaces
               PROVE  LET a == Interfaces[n]
                          via(type, dest) == sendtoOwn(getSendSocket(type, a), dest)
                          specific == \E i \in DOMAIN sockets : sockets[i].addr = a
                      IN  /\ specific => via(UnicastOnly, "peer") = a /\ via(UnicastOnly, "group") = a
                          /\ Exact(UnicastOnly, AnyAddr) # {} => via(UnicastOnly, "peer") \in {a, Refused}
                          /\ sendto(getSendSocket(MulticastOnly, a), "group", a) = a
    BY DEF RequestsLeaveByInterface
  <2> DEFINE a == Interfaces[n]
  <2>1. a # AnyAddr
    BY InterfacesTyped DEF SocketsIInv
  <2>2. Typed /\ Accounted /\ sockets \in Seq(Entries) /\ sockets # <<>>
    BY DEF SocketsIInv, Typed, Ready
  <2>3. \A i \in DOMAIN sockets : sockets[i].type \in {UnicastOnly, Anycast} /\ UnicastOnly \subseteq sockets[i].type
    <3>1. \A i \in DOMAIN sockets : sockets[i] \in Entries
      BY <2>2, ElementOfSeq, LenProperties
    <3> QED
      BY <3>1 DEF Entries, Anycast
  <2>4. \A i \in DOMAIN sockets : LET s == sockets[i].socket IN
           /\ s.fd # NoFd /\ s.in4 = sockets[i].addr
           /\ os[s.fd] \notin {Closed, Lost} /\ os[s.fd].addr = sockets[i].addr
    <3> SUFFICES ASSUME NEW i \in DOMAIN sockets
                 PROVE  LET s == sockets[i].socket IN
                          /\ s.fd # NoFd /\ s.in4 = sockets[i].addr
                          /\ os[s.fd] \notin {Closed, Lost} /\ os[s.fd].addr = sockets[i].addr
      OBVIOUS
    <3>1. EntryOpen(sockets[i]) /\ sockets[i].socket \in Live
      BY <2>2 DEF Accounted, EntriesOpen, Live
    <3>2. IsOpen(sockets[i].socket.fd)
      BY <2>2, <3>1 DEF Accounted, NamedOpen, EntryOpen
    <3> QED
      BY <3>1, <3>2 DEF EntryOpen, IsOpen
  <2> HIDE DEF a
  <2>5. ASSUME NEW i \in DOMAIN sockets, sockets[i].addr = a
        PROVE  sendtoOwn(getSendSocket(UnicastOnly, a), "peer") = a /\ sendtoOwn(getSendSocket(UnicastOnly, a), "group") = a
    <3>1. i \in Exact(UnicastOnly, a)
      BY <2>3, <2>5 DEF Exact
    <3>2. PICK j \in Exact(UnicastOnly, a) : j = FirstOf(Exact(UnicastOnly, a), ForAll(UnicastOnly))
      BY <2>2, <3>1, ExactlySelected
    <3>3. j \in DOMAIN sockets /\ sockets[j].addr = a /\ getSendSocket(UnicastOnly, a) = sockets[j].socket
      BY <3>2 DEF Exact, getSendSocket
    <3> QED
      BY <2>1, <2>4, <3>3 DEF sendtoOwn, sendto
  <2>6. ASSUME ~\E i \in DOMAIN sockets : sockets[i].addr = a, Exact(UnicastOnly, AnyAddr) # {}
        PROVE  sendtoOwn(getSendSocket(UnicastOnly, a), "peer") = Refused
    <3>1. Exact(UnicastOnly, a) = {}
      BY <2>6 DEF Exact
    <3>2. PICK j \in Exact(UnicastOnly, AnyAddr) : j = ForAll(UnicastOnly)
      BY <2>2, <2>6, ExactlySelected DEF ForAll
    <3>3. j \in DOMAIN sockets /\ sockets[j].addr = AnyAddr /\ getSendSocket(UnicastOnly, a) = sockets[j].socket
      BY <3>1, <3>2 DEF Exact, getSendSocket, FirstOf
    <3> QED
      BY <2>4, <3>3 DEF sendtoOwn, sendto
  <2>7. sendto(getSendSocket(MulticastOnly, a), "group", a) = a
    <3>1. PICK j \in DOMAIN sockets : getSendSocket(MulticastOnly, a) = sockets[j].socket
      BY <2>2, SelectionIsEntry DEF EntrySockets
    <3> QED
      BY <2>1, <2>4, <3>1 DEF sendto
  <2> QED
    BY <2>5, <2>6, <2>7 DEF a
<1> QED
  BY <1>1, SocketsInvariant, PTL

(***************************************************************************)
(* The operations of the token repository.                                 *)
(***************************************************************************)

(* add puts the new token behind all others.                               *)
LEMMA AddFacts ==
  ASSUME NEW S, NEW tokens \in Seq(S), NEW t \in S
  PROVE  /\ add(tokens, t) \in Seq(S)
         /\ Len(add(tokens, t)) = Len(tokens) + 1
         /\ \A i \in 1..Len(tokens) : add(tokens, t)[i] = tokens[i]
         /\ add(tokens, t)[Len(tokens) + 1] = t
  BY DEF add

(* remove with an index inside closes the gap, and with any other index    *)
(* does nothing.                                                           *)
LEMMA RemoveFacts ==
  ASSUME NEW S, NEW tokens \in Seq(S), NEW index \in Int
  PROVE  /\ remove(tokens, index) \in Seq(S)
         /\ index \notin 0..(Len(tokens) - 1) => remove(tokens, index) = tokens
         /\ index \in 0..(Len(tokens) - 1) =>
              /\ Len(remove(tokens, index)) = Len(tokens) - 1
              /\ \A i \in 1..(Len(tokens) - 1) :
                    remove(tokens, index)[i] = IF i <= index THEN tokens[i] ELSE tokens[i + 1]
<1>1. CASE index \notin 0..(Len(tokens) - 1)
  <2>1. remove(tokens, index) = tokens
    BY <1>1 DEF remove
  <2> QED BY <1>1, <2>1, Zenon
<1>2. CASE index \in 0..(Len(tokens) - 1)
  <2> DEFINE n == Len(tokens) - 1
             f == [i \in 1..n |-> IF i <= index THEN tokens[i] ELSE tokens[i + 1]]
  <2>1. n \in Nat /\ remove(tokens, index) = f
    BY <1>2 DEF remove
  <2>2. \A i \in 1..n : f[i] \in S
    BY <1>2
  <2>3. f \in [1..n -> S]
    BY <2>2
  <2> HIDE DEF f
  <2>4. f \in Seq(S) /\ Len(f) = n
    BY <2>1, <2>3
  <2> QED
    BY <1>2, <2>1, <2>4 DEF f
<1> QED BY <1>1, <1>2

-----------------------------------------------------------------------------
(* The packet id of a recent command is found by counting back from the    *)
(* current one.                                                            *)
PidBack ==
    \A c \in 1..issued : issued - c < NumIds =>
        sent[c].packetid = Minus(packet_id, issued - c, NumIds)

(* The creation time of a recent token is found by counting back from the  *)
(* current time.                                                           *)
CreateBack ==
    \A i \in 1..Len(token) :
        /\ token[i].born <= time
        /\ time - token[i].born < TimeMod =>
              token[i].create_time = Minus(clock, time - token[i].born, TimeMod)

(* What the call in progress, if any, does with the token index.           *)
CallState ==
    /\ op = "expire" => wait_idx \in 0..Len(token)
    /\ wait_cid <= issued

IdInv ==
    /\ packet_id \in 0..(NumIds - 1)
    /\ issued \in Nat
    /\ sent \in [1..issued -> Command]
    /\ PidBack
    /\ PacketIdsDistinct

RepoInv ==
    /\ token \in Seq(Token)
    /\ clock \in 0..(TimeMod - 1)
    /\ time \in Nat
    /\ TokensInOrder
    /\ CreateBack

CallInv ==
    /\ needs_login \in BOOLEAN
    /\ op \in Waiting \cup {"idle", "expire"}
    /\ wait_idx \in Int
    /\ wait_cid \in Nat
    /\ noise \in Nat
    /\ CallState
    /\ WaitsOnLastToken

RetInv ==
    /\ ret \in [cid : Nat, answer : Nat, age : Nat]
    /\ ReplyAnswersCommand

CommandIInv == IdInv /\ RepoInv /\ CallInv /\ RetInv

-----------------------------------------------------------------------------
(***************************************************************************)
(* Packet ids.                                                             *)
(***************************************************************************)

(* Taking a packet id keeps the ids of the last NumIds commands distinct,  *)
(* also when the counter turns over, and changes no earlier command.       *)
LEMMA IssueKeepsIds ==
  ASSUME IdInv, NEW addr \in Addresses, NEW own \in BOOLEAN, NEW answerable \in BOOLEAN,
         getIncrementedPacketID(addr, own, answerable)
  PROVE  /\ IdInv'
         /\ issued' = issued + 1
         /\ packet_id' \in 0..(NumIds - 1)
         /\ \A c \in 1..issued : sent'[c] = sent[c]
         /\ sent'[issued + 1] = [packetid |-> packet_id', addr |-> addr, own |-> own,
                                 answerable |-> answerable]
<1>1. /\ packet_id' = Succ(packet_id, NumIds)
      /\ issued' = issued + 1
      /\ issued \in Nat
      /\ NumIds \in Nat /\ 2 <= NumIds
      /\ packet_id \in 0..(NumIds - 1)
  BY NumIdsAssumption DEF getIncrementedPacketID, IdInv
<1>2. packet_id' \in 0..(NumIds - 1)
  BY <1>1 DEF Succ
<1>3. /\ \A c \in 1..issued : sent'[c] = sent[c]
      /\ sent'[issued + 1] = [packetid |-> packet_id', addr |-> addr, own |-> own,
                              answerable |-> answerable]
  BY <1>1 DEF getIncrementedPacketID
<1>4. sent' \in [1..issued' -> Command]
  <2>1. sent'[issued + 1] \in Command
    BY <1>2, <1>3 DEF Command
  <2>2. \A c \in 1..(issued + 1) : sent'[c] \in Command
    BY <1>1, <1>3, <2>1 DEF IdInv
  <2>3. sent' = [c \in 1..(issued + 1) |-> sent'[c]]
    BY DEF getIncrementedPacketID
  <2> QED BY <1>1, <2>2, <2>3
<1>5. PidBack'
  <2> SUFFICES ASSUME NEW c \in 1..(issued + 1), (issued + 1) - c < NumIds
               PROVE  sent'[c].packetid = Minus(packet_id', (issued + 1) - c, NumIds)
    BY <1>1 DEF PidBack
  <2>1. CASE c = issued + 1
    BY <1>1, <1>2, <1>3, <2>1 DEF Minus
  <2>2. CASE c # issued + 1
    <3>1. c \in 1..issued /\ issued - c < NumIds
      BY <1>1, <2>2
    <3>2. sent'[c].packetid = Minus(packet_id, issued - c, NumIds)
      BY <1>3, <3>1 DEF IdInv, PidBack
    <3> QED BY <1>1, <3>1, <3>2 DEF Minus, Succ
  <2> QED BY <2>1, <2>2
<1>6. PacketIdsDistinct'
  <2> SUFFICES ASSUME NEW c \in 1..(issued + 1), NEW k \in 1..(issued + 1),
                      c < k, k - c < NumIds
               PROVE  sent'[c].packetid # sent'[k].packetid
    BY <1>1 DEF PacketIdsDistinct
  <2>1. CASE k \in 1..issued
    BY <1>1, <1>3, <2>1 DEF IdInv, PacketIdsDistinct
  <2>2. CASE k = issued + 1
    <3>1. c \in 1..issued /\ issued - c < NumIds - 1
      BY <1>1, <2>2
    <3>2. sent'[c].packetid = Minus(packet_id, issued - c, NumIds)
      BY <1>1, <1>3, <3>1 DEF IdInv, PidBack
    <3>3. sent'[k].packetid = Succ(packet_id, NumIds)
      BY <1>1, <1>3, <2>2
    <3> QED BY <1>1, <3>1, <3>2, <3>3 DEF Minus, Succ
  <2> QED BY <1>1, <2>1, <2>2
<1> QED
  BY <1>1, <1>2, <1>3, <1>4, <1>5, <1>6 DEF IdInv

(* Two commands of the last NumIds ones with one packet id are the same.   *)
LEMMA SamePacketId ==
  ASSUME IdInv, NEW c \in 1..issued, NEW k \in 1..issued,
         issued - c < NumIds, issued - k < NumIds,
         sent[c].packetid = sent[k].packetid
  PROVE  c = k
<1>1. issued \in Nat /\ NumIds \in Nat
  BY NumIdsAssumption DEF IdInv
<1>2. CASE c < k
  BY <1>1, <1>2 DEF IdInv, PacketIdsDistinct
<1>3. CASE k < c
  BY <1>1, <1>3 DEF IdInv, PacketIdsDistinct
<1> QED BY <1>1, <1>2, <1>3

-----------------------------------------------------------------------------
(***************************************************************************)
(* The repository.                                                         *)
(***************************************************************************)

(* Taking a packet id without a new token leaves the repository alone.     *)
LEMMA IssueKeepsRepo ==
  ASSUME IdInv, RepoInv, UNCHANGED <<token, clock, time>>,
         issued' = issued + 1, \A c \in 1..issued : sent'[c] = sent[c]
  PROVE  RepoInv'
<1>1. issued \in Nat /\ Len(token) \in Nat
  BY DEF IdInv, RepoInv
<1>2. TokensInOrder'
  BY <1>1 DEF RepoInv, TokensInOrder
<1>3. CreateBack'
  BY DEF RepoInv, CreateBack
<1> QED BY <1>2, <1>3 DEF RepoInv

(* The token of a new command joins the repository as the last one.        *)
LEMMA AddKeepsRepo ==
  ASSUME IdInv, RepoInv, NEW addr \in Addresses, NEW own \in BOOLEAN,
         NEW ip \in Devices \cup {Multicast},
         SendSucceeds(addr, own, ip), UNCHANGED <<clock, time>>
  PROVE  /\ RepoInv'
         /\ IdInv'
         /\ issued' = issued + 1
         /\ Len(token') = Len(token) + 1
         /\ token'[Len(token')].cid = issued'
<1> DEFINE t == NewToken(addr, ip)
<1>1. /\ IdInv'
      /\ issued' = issued + 1
      /\ packet_id' \in 0..(NumIds - 1)
      /\ \A c \in 1..issued : sent'[c] = sent[c]
      /\ sent'[issued + 1] = [packetid |-> packet_id', addr |-> addr, own |-> own,
                              answerable |-> TRUE]
  BY IssueKeepsIds DEF SendSucceeds
<1>2. issued \in Nat /\ Len(token) \in Nat /\ TimeMod \in Nat
  BY TimeAssumption DEF IdInv, RepoInv
<1>3. t \in Token
  BY <1>1, <1>2 DEF NewToken, Token, RepoInv
<1>4. t.cid = issued + 1 /\ t.packetid = packet_id' /\ t.addr = addr /\ t.born = time
      /\ t.create_time = clock
  BY <1>1 DEF NewToken
<1> HIDE DEF t
<1>5. /\ token' \in Seq(Token)
      /\ Len(token') = Len(token) + 1
      /\ \A i \in 1..Len(token) : token'[i] = token[i]
      /\ token'[Len(token) + 1] = t
  <2>1. token' = add(token, t)
    BY DEF SendSucceeds, t
  <2>2. token \in Seq(Token)
    BY DEF RepoInv
  <2>3. /\ add(token, t) \in Seq(Token)
        /\ Len(add(token, t)) = Len(token) + 1
        /\ \A i \in 1..Len(token) : add(token, t)[i] = token[i]
        /\ add(token, t)[Len(token) + 1] = t
    BY <1>3, <2>2, AddFacts
  <2> QED BY <2>1, <2>3
<1>6. TokensInOrder'
  <2>1. ASSUME NEW i \in 1..Len(token')
        PROVE  /\ token'[i].cid \in 1..issued'
               /\ token'[i].packetid = sent'[token'[i].cid].packetid
               /\ token'[i].addr = sent'[token'[i].cid].addr
               /\ sent'[token'[i].cid].answerable
    <3>1. CASE i = Len(token) + 1
      BY <1>1, <1>2, <1>4, <1>5, <3>1
    <3>2. CASE i \in 1..Len(token)
      <4>1. token'[i] = token[i] /\ token[i].cid \in 1..issued
        BY <1>5, <3>2 DEF RepoInv, TokensInOrder
      <4>2. sent'[token[i].cid] = sent[token[i].cid]
        BY <1>1, <4>1
      <4> QED BY <1>1, <1>2, <3>2, <4>1, <4>2 DEF RepoInv, TokensInOrder
    <3> QED BY <1>2, <1>5, <3>1, <3>2
  <2>2. ASSUME NEW i \in 1..Len(token'), NEW j \in 1..Len(token'), i < j
        PROVE  token'[i].cid < token'[j].cid
    <3>1. i \in 1..Len(token) /\ token[i].cid \in 1..issued
      BY <1>2, <1>5, <2>2 DEF RepoInv, TokensInOrder
    <3>2. CASE j = Len(token) + 1
      BY <1>2, <1>4, <1>5, <3>1, <3>2
    <3>3. CASE j \in 1..Len(token)
      BY <1>5, <2>2, <3>1, <3>3 DEF RepoInv, TokensInOrder
    <3> QED BY <1>2, <1>5, <3>2, <3>3
  <2> QED BY <2>1, <2>2 DEF TokensInOrder
<1>7. CreateBack'
  <2> SUFFICES ASSUME NEW i \in 1..Len(token')
               PROVE  /\ token'[i].born <= time
                      /\ time - token'[i].born < TimeMod =>
                           token'[i].create_time = Minus(clock, time - token'[i].born, TimeMod)
    BY DEF CreateBack
  <2>1. CASE i = Len(token) + 1
    BY <1>2, <1>4, <1>5, <2>1 DEF RepoInv, Minus
  <2>2. CASE i \in 1..Len(token)
    BY <1>5, <2>2 DEF RepoInv, CreateBack
  <2> QED BY <1>2, <1>5, <2>1, <2>2
<1>8. token'[Len(token')].cid = issued'
  BY <1>1, <1>4, <1>5
<1> QED
  BY <1>1, <1>5, <1>6, <1>7, <1>8 DEF RepoInv

(* Removing a token, at whatever index, keeps the others in order.         *)
LEMMA RemoveKeepsRepo ==
  ASSUME IdInv, RepoInv, NEW index \in Int, token' = remove(token, index),
         UNCHANGED <<issued, sent, clock, time>>
  PROVE  RepoInv'
<1>1. token \in Seq(Token) /\ Len(token) \in Nat
  BY DEF RepoInv
<1>2. CASE index \notin 0..(Len(token) - 1)
  <2>1. token' = token
    BY <1>1, <1>2, RemoveFacts
  <2> QED BY <2>1 DEF RepoInv, TokensInOrder, CreateBack
<1>3. CASE index \in 0..(Len(token) - 1)
  <2>1. /\ token' \in Seq(Token)
        /\ Len(token') = Len(token) - 1
        /\ \A i \in 1..(Len(token) - 1) :
              token'[i] = IF i <= index THEN token[i] ELSE token[i + 1]
    BY <1>1, <1>3, RemoveFacts
  <2> DEFINE old(i) == IF i <= index THEN i ELSE i + 1
  <2>2. ASSUME NEW i \in 1..Len(token')
        PROVE  old(i) \in 1..Len(token) /\ token'[i] = token[old(i)]
    BY <1>1, <1>3, <2>1
  <2>3. ASSUME NEW i \in 1..Len(token'), NEW j \in 1..Len(token'), i < j
        PROVE  old(i) < old(j)
    BY <1>1, <1>3, <2>1, <2>3
  <2> HIDE DEF old
  <2>4. TokensInOrder'
    <3>1. ASSUME NEW i \in 1..Len(token')
          PROVE  /\ token'[i].cid \in 1..issued'
                 /\ token'[i].packetid = sent'[token'[i].cid].packetid
                 /\ token'[i].addr = sent'[token'[i].cid].addr
                 /\ sent'[token'[i].cid].answerable
      BY <2>2 DEF RepoInv, TokensInOrder
    <3>2. ASSUME NEW i \in 1..Len(token'), NEW j \in 1..Len(token'), i < j
          PROVE  token'[i].cid < token'[j].cid
      BY <2>2, <2>3, <3>2 DEF RepoInv, TokensInOrder
    <3> QED BY <3>1, <3>2 DEF TokensInOrder
  <2>5. CreateBack'
    BY <2>2 DEF RepoInv, CreateBack
  <2> QED BY <2>1, <2>4, <2>5 DEF RepoInv
<1> QED BY <1>2, <1>3

(* A tick later the same creation time is one more tick ago.               *)
LEMMA MinusTicks ==
  ASSUME NEW m \in Nat, NEW c \in 0..(m - 1), NEW age \in Nat, age + 1 < m
  PROVE  Minus(c, age, m) = Minus(Succ(c, m), age + 1, m)
  BY DEF Minus, Succ

(* The clock may turn over under the tokens.                               *)
LEMMA TickKeepsRepo ==
  ASSUME RepoInv, IdInv, tick
  PROVE  RepoInv'
<1>1. /\ time' = time + 1 /\ time \in Nat
      /\ clock' = Succ(clock, TimeMod)
      /\ clock \in 0..(TimeMod - 1) /\ TimeMod \in Nat
      /\ UNCHANGED <<token, issued, sent>>
  BY TimeAssumption DEF tick, RepoInv
<1>2. clock' \in 0..(TimeMod - 1)
  BY <1>1 DEF Succ
<1>3. TokensInOrder'
  BY <1>1 DEF RepoInv, TokensInOrder
<1>4. CreateBack'
  <2> SUFFICES ASSUME NEW i \in 1..Len(token)
               PROVE  /\ token[i].born <= time + 1
                      /\ (time + 1) - token[i].born < TimeMod =>
                           token[i].create_time =
                              Minus(clock', (time + 1) - token[i].born, TimeMod)
    BY <1>1 DEF CreateBack
  <2>1. /\ token[i].born \in Nat
        /\ token[i].born <= time
        /\ time - token[i].born < TimeMod =>
             token[i].create_time = Minus(clock, time - token[i].born, TimeMod)
    <3>1. token[i] \in Token
      BY DEF RepoInv
    <3>2. token[i].born \in Nat
      BY <3>1 DEF Token
    <3> QED BY <3>2 DEF RepoInv, CreateBack
  <2> DEFINE age == time - token[i].born
  <2>2. age \in Nat /\ (time + 1) - token[i].born = age + 1
    BY <1>1, <2>1
  <2>3. age < TimeMod => token[i].create_time = Minus(clock, age, TimeMod)
    BY <2>1
  <2>4. token[i].born <= time + 1
    BY <1>1, <2>1
  <2> HIDE DEF age
  <2>5. age + 1 < TimeMod => Minus(clock, age, TimeMod) = Minus(clock', age + 1, TimeMod)
    BY <1>1, <2>2, MinusTicks
  <2> QED BY <1>1, <2>2, <2>3, <2>4, <2>5
<1> QED BY <1>1, <1>2, <1>3, <1>4 DEF RepoInv

-----------------------------------------------------------------------------
(***************************************************************************)
(* Every step keeps the invariant.                                         *)
(***************************************************************************)

(* A construction without commands satisfies the invariant.                *)
LEMMA InitCommandIInv == Init => CommandIInv
<1> SUFFICES ASSUME Init PROVE CommandIInv
  OBVIOUS
<1>1. IdInv
  BY NumIdsAssumption DEF Init, IdInv, PidBack, PacketIdsDistinct
<1>2. RepoInv
  BY DEF Init, RepoInv, TokensInOrder, CreateBack
<1>3. CallInv
  <2>1. needs_login \in BOOLEAN
    BY DEF Init
  <2>2. CallState
    BY DEF Init, CallState
  <2>3. WaitsOnLastToken
    BY DEF Init, WaitsOnLastToken
  <2>4. wait_idx \in Int /\ wait_cid \in Nat /\ noise \in Nat
        /\ op \in Waiting \cup {"idle", "expire"}
    BY DEF Init
  <2> QED BY <2>1, <2>2, <2>3, <2>4 DEF CallInv
<1>4. RetInv
  BY DEF Init, RetInv, ReplyAnswersCommand, NoReply
<1> QED BY <1>1, <1>2, <1>3, <1>4 DEF CommandIInv

(* A send that is not waited for.                                          *)
LEMMA AsyncSendIInv ==
  ASSUME CommandIInv, op = "idle", NEW addr \in Addresses, NEW own \in BOOLEAN,
         NEW ip \in Devices \cup {Multicast},
         \/ SendFails
         \/ SendSucceeds(addr, own, ip),
         NoWaiting
  PROVE  CommandIInv'
<1>1. IdInv' /\ RepoInv' /\ issued' = issued + 1
  <2>1. CASE SendFails
    <3>1. /\ IdInv'
          /\ issued' = issued + 1
          /\ \A c \in 1..issued : sent'[c] = sent[c]
      BY <2>1, IssueKeepsIds DEF SendFails, CommandIInv, Addresses
    <3>2. UNCHANGED <<token, clock, time>>
      BY <2>1 DEF SendFails, NoWaiting
    <3> QED BY <3>1, <3>2, IssueKeepsRepo DEF CommandIInv
  <2>2. CASE SendSucceeds(addr, own, ip)
    <3>1. UNCHANGED <<clock, time>>
      BY DEF NoWaiting
    <3> QED BY <2>2, <3>1, AddKeepsRepo DEF CommandIInv
  <2> QED BY <2>1, <2>2
<1>2. CallInv'
  BY <1>1 DEF NoWaiting, CommandIInv, CallInv, CallState, WaitsOnLastToken, Waiting, IdInv
<1>3. RetInv'
  BY DEF NoWaiting, CommandIInv, RetInv, ReplyAnswersCommand
<1> QED BY <1>1, <1>2, <1>3 DEF CommandIInv

(* A send that is waited for, with the index of the new token.             *)
LEMMA SyncSendIInv ==
  ASSUME CommandIInv, NEW addr \in Addresses, NEW own \in BOOLEAN,
         NEW ip \in Devices \cup {Multicast},
         NEW call \in {"query", "login", "queryDeviceType"},
         SendSucceeds(addr, own, ip), StartWaiting(call, Len(token))
  PROVE  CommandIInv'
<1>1. UNCHANGED <<clock, time, needs_login, ret>>
  BY DEF StartWaiting
<1>2. /\ IdInv' /\ RepoInv'
      /\ issued' = issued + 1
      /\ Len(token') = Len(token) + 1
      /\ token'[Len(token')].cid = issued'
  BY <1>1, AddKeepsRepo DEF CommandIInv
<1>3. issued \in Nat /\ Len(token) \in Nat
  BY DEF CommandIInv, IdInv, RepoInv
<1>4. op' = call /\ wait_idx' = Len(token) /\ wait_cid' = issued' /\ noise' = 0
  BY DEF StartWaiting
<1>5. CallInv'
  BY <1>1, <1>2, <1>3, <1>4 DEF CommandIInv, CallInv, CallState, WaitsOnLastToken, Waiting
<1>6. RetInv'
  BY <1>1 DEF CommandIInv, RetInv, ReplyAnswersCommand
<1> QED BY <1>2, <1>5, <1>6 DEF CommandIInv

(* queryDeviceType goes on to wait without a token when its send failed.   *)
LEMMA BlindWaitIInv ==
  ASSUME CommandIInv, SendFails, StartWaiting("queryDeviceType", -1)
  PROVE  CommandIInv'
<1>1. UNCHANGED <<clock, time, needs_login, ret, token>>
  BY DEF StartWaiting, SendFails
<1>2. /\ IdInv'
      /\ issued' = issued + 1
      /\ \A c \in 1..issued : sent'[c] = sent[c]
  BY IssueKeepsIds DEF SendFails, CommandIInv, Addresses
<1>3. RepoInv'
  BY <1>1, <1>2, IssueKeepsRepo DEF CommandIInv
<1>4. CallInv'
  BY <1>1, <1>2 DEF StartWaiting, CommandIInv, IdInv, CallInv, CallState, WaitsOnLastToken, Waiting
<1>5. RetInv'
  BY <1>1 DEF CommandIInv, RetInv, ReplyAnswersCommand
<1> QED BY <1>2, <1>3, <1>4, <1>5 DEF CommandIInv

(* All ways to send a command.                                             *)
LEMMA SendIInv ==
  ASSUME CommandIInv, Send
  PROVE  CommandIInv'
<1>1. ASSUME NEW d \in Devices, sendQueryRequest(d) PROVE CommandIInv'
  <2>1. d \in Addresses /\ d \in Devices \cup {Multicast}
    BY DEF Addresses
  <2> QED BY <1>1, <2>1, AsyncSendIInv DEF sendQueryRequest
<1>2. ASSUME NEW d \in Devices, query(d) PROVE CommandIInv'
  <2>1. d \in Addresses /\ d \in Devices \cup {Multicast}
    BY DEF Addresses
  <2>2. CASE SendFails /\ NoWaiting
    BY <1>2, <2>1, <2>2, AsyncSendIInv DEF query
  <2>3. CASE SendSucceeds(d, TRUE, d) /\ StartWaiting("query", Len(token))
    BY <2>1, <2>3, SyncSendIInv
  <2> QED BY <1>2, <2>2, <2>3 DEF query
<1>3. ASSUME NEW d \in Devices, queryDeviceType(d) PROVE CommandIInv'
  <2>1. d \in Addresses /\ d \in Devices \cup {Multicast}
    BY DEF Addresses
  <2>2. CASE SendFails /\ NoWaiting
    BY <1>3, <2>1, <2>2, AsyncSendIInv DEF queryDeviceType
  <2>3. CASE SendFails /\ StartWaiting("queryDeviceType", -1)
    BY <2>3, BlindWaitIInv
  <2>4. CASE SendSucceeds(d, TRUE, d) /\ StartWaiting("queryDeviceType", Len(token))
    BY <2>1, <2>4, SyncSendIInv
  <2> QED BY <1>3, <2>2, <2>3, <2>4 DEF queryDeviceType
<1>4. ASSUME NEW addr \in Addresses, NEW own \in BOOLEAN,
             sendLoginRequest(addr, own) \/ login(addr, own)
      PROVE  CommandIInv'
  <2>1. LoginIp(addr) \in Devices \cup {Multicast}
    BY DEF LoginIp, Addresses
  <2>2. CASE sendLoginRequest(addr, own)
    BY <2>1, <2>2, AsyncSendIInv DEF sendLoginRequest
  <2>3. CASE login(addr, own)
    <3>1. CASE SendFails /\ NoWaiting
      BY <2>1, <2>3, <3>1, AsyncSendIInv DEF login
    <3>2. CASE SendSucceeds(addr, own, LoginIp(addr)) /\ StartWaiting("login", Len(token))
      BY <2>1, <3>2, SyncSendIInv
    <3> QED BY <2>3, <3>1, <3>2 DEF login
  <2> QED BY <1>4, <2>2, <2>3
<1>5. CASE sendLogoffRequest
  <2>1. SendFails /\ NoWaiting /\ op = "idle"
    BY <1>5 DEF sendLogoffRequest, SendFails
  <2>2. Broadcast \in Addresses /\ Multicast \in Devices \cup {Multicast}
    BY DEF Addresses
  <2> QED BY <2>1, <2>2, AsyncSendIInv
<1> QED BY <1>1, <1>2, <1>3, <1>4, <1>5 DEF Send

(* A reply that checkReply lets pass for a token answers the token's       *)
(* command, unless the token is NumIds packet ids old.                     *)
LEMMA CheckedReplyMatches ==
  ASSUME CommandIInv, NEW p \in Replies \cup ForeignReplies, NEW i \in 1..Len(token),
         checkReply(p, token[i])
  PROVE  /\ p.cid \in Nat
         /\ token[i].cid \in 1..issued
         /\ issued - token[i].cid < NumIds => p.cid = token[i].cid
<1>1. p \notin ForeignReplies
  BY DEF ForeignReplies, checkReply
<1>2. PICK c \in 1..issued : issued - c <= MaxDelay /\ p \in Answers(c)
  BY <1>1 DEF Replies
<1>3. p.cid = c /\ p.packetid = sent[c].packetid
  BY <1>2 DEF Answers
<1>4. issued \in Nat /\ issued - c < NumIds
  BY <1>2, NumIdsAssumption DEF CommandIInv, IdInv
<1>5. token[i].cid \in 1..issued /\ token[i].packetid = sent[token[i].cid].packetid
  BY DEF CommandIInv, RepoInv, TokensInOrder
<1>6. sent[c].packetid = sent[token[i].cid].packetid
  BY <1>3, <1>5 DEF checkReply
<1>7. ASSUME issued - token[i].cid < NumIds PROVE p.cid = token[i].cid
  BY <1>3, <1>4, <1>5, <1>6, <1>7, SamePacketId DEF CommandIInv
<1> QED BY <1>3, <1>4, <1>5, <1>7

(* Calls that end, skip a packet or do not touch the identifiers.          *)
LEMMA ReturnIInv ==
  ASSUME CommandIInv, RepoInv', RetInv', Return, needs_login' \in BOOLEAN
  PROVE  CommandIInv'
<1>1. IdInv'
  BY DEF Return, CommandIInv, IdInv, PidBack, PacketIdsDistinct
<1>2. CallInv'
  BY DEF Return, CommandIInv, IdInv, CallInv, CallState, WaitsOnLastToken, Waiting
<1> QED BY <1>1, <1>2 DEF CommandIInv

LEMMA SkipIInv ==
  ASSUME CommandIInv, SkipPacket
  PROVE  CommandIInv'
<1>1. IdInv'
  BY DEF SkipPacket, CommandIInv, IdInv, PidBack, PacketIdsDistinct
<1>2. RepoInv'
  BY DEF SkipPacket, CommandIInv, RepoInv, TokensInOrder, CreateBack
<1>3. CallInv'
  BY DEF SkipPacket, CommandIInv, CallInv, CallState, WaitsOnLastToken
<1>4. RetInv'
  BY DEF SkipPacket, CommandIInv, RetInv, ReplyAnswersCommand
<1> QED BY <1>1, <1>2, <1>3, <1>4 DEF CommandIInv

(* What the two removals at the end of a call leave: with a token, the     *)
(* repository without its last element; without one, everything.           *)
LEMMA WaitingRemoves ==
  ASSUME CommandIInv, op \in Waiting
  PROVE  /\ HasToken => /\ wait_idx = Len(token) - 1
                        /\ wait_cid = issued
                        /\ token[wait_idx + 1].cid = issued
         /\ remove(remove(token, wait_idx), wait_idx) = remove(token, wait_idx)
<1>1. token \in Seq(Token) /\ wait_idx \in Int /\ Len(token) \in Nat
  BY DEF CommandIInv, RepoInv, CallInv
<1>2. CASE HasToken
  <2>1. /\ wait_idx = Len(token) - 1
        /\ wait_cid = issued
        /\ token[Len(token)].cid = wait_cid
    BY <1>1, <1>2 DEF CommandIInv, CallInv, CallState, WaitsOnLastToken, HasToken
  <2>2. remove(token, wait_idx) \in Seq(Token) /\ Len(remove(token, wait_idx)) = Len(token) - 1
    BY <1>1, <1>2, RemoveFacts DEF HasToken
  <2>3. wait_idx \notin 0..(Len(remove(token, wait_idx)) - 1)
    BY <1>1, <2>1, <2>2
  <2>4. remove(remove(token, wait_idx), wait_idx) = remove(token, wait_idx)
    BY <1>1, <2>2, <2>3, RemoveFacts
  <2> QED BY <1>1, <2>1, <2>4
<1>3. CASE ~HasToken
  <2>1. remove(token, wait_idx) = token
    BY <1>1, <1>3, RemoveFacts DEF HasToken
  <2> QED BY <1>3, <2>1
<1> QED BY <1>2, <1>3

(* One turn of the receive loop.                                           *)
LEMMA LoopIInv ==
  ASSUME CommandIInv, LoopStep
  PROVE  CommandIInv'
<1>1. CASE giveUp
  <2>1. RepoInv'
    BY <1>1 DEF giveUp, Return, CommandIInv, RepoInv, TokensInOrder, CreateBack
  <2>2. RetInv'
    BY <1>1 DEF giveUp, CommandIInv, RetInv, ReplyAnswersCommand
  <2>3. Return /\ needs_login' \in BOOLEAN
    BY <1>1 DEF giveUp, CommandIInv, CallInv
  <2> QED BY <2>1, <2>2, <2>3, ReturnIInv
<1>2. ASSUME NEW p \in Replies \cup ForeignReplies, receive(p) PROVE CommandIInv'
  <2>1. op \in Waiting
    BY <1>2 DEF receive
  <2>2. CASE (HasToken => checkReply(p, token[wait_idx + 1])) /\ accept(p)
    <3>1. token' = remove(token, wait_idx) /\ wait_idx \in Int
      BY <2>1, <2>2, WaitingRemoves DEF accept, CommandIInv, CallInv
    <3>2. UNCHANGED <<issued, sent, clock, time>> /\ Return
      BY <2>2 DEF accept, Return
    <3>3. RepoInv'
      BY <3>1, <3>2, RemoveKeepsRepo DEF CommandIInv
    <3>4. needs_login' \in BOOLEAN
      BY <2>2 DEF accept
    <3>5. RetInv'
      <4>1. CASE HasToken
        <5>1. wait_idx + 1 \in 1..Len(token) /\ wait_cid = issued /\ issued \in Nat
              /\ token[wait_idx + 1].cid = issued
          BY <2>1, <3>1, <4>1, WaitingRemoves DEF HasToken, CommandIInv, IdInv, RepoInv
        <5>2. p.cid \in Nat /\ p.cid = issued
          BY <2>2, <4>1, <5>1, CheckedReplyMatches, NumIdsAssumption
        <5>3. ret' = [cid |-> issued, answer |-> p.cid, age |-> issued - issued]
          BY <2>2, <4>1, <5>1 DEF accept
        <5> QED BY <5>1, <5>2, <5>3 DEF RetInv, ReplyAnswersCommand
      <4>2. CASE ~HasToken
        BY <2>2, <4>2 DEF accept, NoReply, RetInv, ReplyAnswersCommand
      <4> QED BY <4>1, <4>2
    <3> QED BY <3>2, <3>3, <3>4, <3>5, ReturnIInv
  <2>3. CASE SkipPacket
    BY <2>3, SkipIInv
  <2> QED BY <1>2, <2>2, <2>3 DEF receive
<1>3. CASE receiveUnrelated
  BY <1>3, SkipIInv DEF receiveUnrelated
<1>4. ASSUME NEW stale \in 0..(issued - 1), receiveFailure(stale) PROVE CommandIInv'
  <2>1. CASE token' = remove(token, wait_idx) /\ Return /\ UNCHANGED <<needs_login, ret>>
    <3>1. UNCHANGED <<issued, sent, clock, time>> /\ wait_idx \in Int
      BY <2>1 DEF Return, CommandIInv, CallInv
    <3>2. RepoInv'
      BY <2>1, <3>1, RemoveKeepsRepo DEF CommandIInv
    <3>3. RetInv' /\ needs_login' \in BOOLEAN
      BY <2>1 DEF CommandIInv, RetInv, ReplyAnswersCommand, CallInv
    <3> QED BY <2>1, <3>2, <3>3, ReturnIInv
  <2>2. CASE SkipPacket
    BY <2>2, SkipIInv
  <2> QED BY <1>4, <2>1, <2>2 DEF receiveFailure
<1> QED BY <1>1, <1>2, <1>3, <1>4 DEF LoopStep

(* The application's own operations on the repository.                     *)
LEMMA RepositoryIInv ==
  ASSUME CommandIInv,
         \/ \E p \in Replies \cup ForeignReplies : handleReply(p)
         \/ clear
         \/ expire
         \/ expireStep
         \/ tick
  PROVE  CommandIInv'
<1>0. issued \in Nat /\ token \in Seq(Token) /\ Len(token) \in Nat /\ wait_idx \in Int
  BY DEF CommandIInv, IdInv, RepoInv, CallInv
<1>1. ASSUME NEW p \in Replies \cup ForeignReplies, handleReply(p) PROVE CommandIInv'
  <2>1. PICK i \in 1..Len(token) :
           /\ checkReply(p, token[i])
           /\ token' = remove(token, i - 1)
           /\ ret' = [cid |-> token[i].cid, answer |-> p.cid, age |-> issued - token[i].cid]
    BY <1>1 DEF handleReply
  <2>2. UNCHANGED <<needs_login, packet_id, issued, sent, clock, time, op, wait_idx,
                    wait_cid, noise>> /\ op = "idle"
    BY <1>1 DEF handleReply
  <2>3. RepoInv'
    <3>1. i - 1 \in Int
      BY <1>0
    <3> QED BY <2>1, <2>2, <3>1, RemoveKeepsRepo DEF CommandIInv
  <2>4. RetInv'
    <3>1. /\ p.cid \in Nat
          /\ token[i].cid \in 1..issued
          /\ issued - token[i].cid < NumIds => p.cid = token[i].cid
      BY <2>1, CheckedReplyMatches
    <3> QED BY <1>0, <2>1, <3>1 DEF RetInv, ReplyAnswersCommand
  <2>5. IdInv'
    BY <2>2 DEF CommandIInv, IdInv, PidBack, PacketIdsDistinct
  <2>6. CallInv'
    BY <2>2 DEF CommandIInv, CallInv, CallState, WaitsOnLastToken, Waiting
  <2> QED BY <2>3, <2>4, <2>5, <2>6 DEF CommandIInv
<1>2. CASE clear
  <2>1. UNCHANGED <<needs_login, packet_id, issued, sent, clock, time, op, wait_idx,
                    wait_cid, noise, ret>> /\ op = "idle" /\ token' = <<>>
    BY <1>2 DEF clear
  <2>2. RepoInv'
    BY <2>1 DEF CommandIInv, RepoInv, TokensInOrder, CreateBack
  <2>3. RetInv' /\ IdInv'
    BY <2>1 DEF CommandIInv, IdInv, PidBack, PacketIdsDistinct, RetInv, ReplyAnswersCommand
  <2>4. CallInv'
    BY <2>1 DEF CommandIInv, CallInv, CallState, WaitsOnLastToken, Waiting
  <2> QED BY <2>2, <2>3, <2>4 DEF CommandIInv
<1>3. CASE expire
  <2>1. UNCHANGED <<token, needs_login, packet_id, issued, sent, clock, time, wait_cid,
                    noise, ret>> /\ op' = "expire" /\ wait_idx' = 0
    BY <1>3 DEF expire
  <2>2. RepoInv' /\ RetInv' /\ IdInv'
    BY <2>1 DEF CommandIInv, RepoInv, TokensInOrder, CreateBack, IdInv, PidBack,
                PacketIdsDistinct, RetInv, ReplyAnswersCommand
  <2>3. CallInv'
    BY <1>0, <2>1 DEF CommandIInv, CallInv, CallState, WaitsOnLastToken, Waiting
  <2> QED BY <2>2, <2>3 DEF CommandIInv
<1>4. CASE expireStep
  <2>1. UNCHANGED <<needs_login, packet_id, issued, sent, clock, time, wait_cid, noise, ret>>
        /\ op = "expire" /\ wait_idx \in 0..Len(token)
    BY <1>4 DEF expireStep, CommandIInv, CallInv, CallState
  <2>2. RetInv' /\ IdInv'
    BY <2>1 DEF CommandIInv, IdInv, PidBack, PacketIdsDistinct, RetInv, ReplyAnswersCommand
  <2>3. CASE wait_idx < Len(token) /\ token' = remove(token, wait_idx) /\ UNCHANGED <<wait_idx, op>>
    <3>1. RepoInv'
      BY <1>0, <2>1, <2>3, RemoveKeepsRepo DEF CommandIInv
    <3>2. Len(token') = Len(token) - 1
      <4>1. token \in Seq(Token)
        BY DEF CommandIInv, RepoInv
      <4>2. wait_idx \in Int /\ wait_idx \in 0..(Len(token) - 1)
        BY <2>1, <2>3, <4>1
      <4>3. Len(remove(token, wait_idx)) = Len(token) - 1
        BY <4>1, <4>2, RemoveFacts
      <4> QED BY <2>3, <4>3
    <3>3. CallInv'
      BY <1>0, <2>1, <2>3, <3>2 DEF CommandIInv, CallInv, CallState, WaitsOnLastToken, Waiting
    <3> QED BY <2>2, <3>1, <3>3 DEF CommandIInv
  <2>4. CASE wait_idx < Len(token) /\ UNCHANGED <<token, op>> /\ wait_idx' = wait_idx + 1
    <3>1. RepoInv'
      BY <2>1, <2>4 DEF CommandIInv, RepoInv, TokensInOrder, CreateBack
    <3>2. CallInv'
      BY <1>0, <2>1, <2>4 DEF CommandIInv, CallInv, CallState, WaitsOnLastToken, Waiting
    <3> QED BY <2>2, <3>1, <3>2 DEF CommandIInv
  <2>5. CASE op' = "idle" /\ wait_idx' = -1 /\ UNCHANGED token
    <3>1. RepoInv'
      BY <2>1, <2>5 DEF CommandIInv, RepoInv, TokensInOrder, CreateBack
    <3>2. CallInv'
      BY <1>0, <2>1, <2>5 DEF CommandIInv, CallInv, CallState, WaitsOnLastToken, Waiting
    <3> QED BY <2>2, <3>1, <3>2 DEF CommandIInv
  <2> QED BY <1>4, <2>3, <2>4, <2>5 DEF expireStep
<1>5. CASE tick
  <2>1. UNCHANGED <<token, needs_login, packet_id, issued, sent, op, wait_idx, wait_cid,
                    noise, ret>>
    BY <1>5 DEF tick
  <2>2. RepoInv'
    BY <1>5, TickKeepsRepo DEF CommandIInv
  <2>3. RetInv' /\ IdInv'
    BY <2>1 DEF CommandIInv, IdInv, PidBack, PacketIdsDistinct, RetInv, ReplyAnswersCommand
  <2>4. CallInv'
    BY <2>1 DEF CommandIInv, CallInv, CallState, WaitsOnLastToken
  <2> QED BY <2>2, <2>3, <2>4 DEF CommandIInv
<1> QED BY <1>1, <1>2, <1>3, <1>4, <1>5

LEMMA NextCommandIInv == CommandIInv /\ [Next]_vars => CommandIInv'
<1> SUFFICES ASSUME CommandIInv, [Next]_vars PROVE CommandIInv'
  OBVIOUS
<1>1. CASE Send
  BY <1>1, SendIInv
<1>2. CASE LoopStep
  BY <1>2, LoopIInv
<1>3. CASE UNCHANGED vars
  BY <1>3 DEF vars, CommandIInv, IdInv, PidBack, PacketIdsDistinct, RepoInv, TokensInOrder,
              CreateBack, CallInv, CallState, WaitsOnLastToken, RetInv, ReplyAnswersCommand
<1> QED BY <1>1, <1>2, <1>3, RepositoryIInv DEF Next

(* The inductive invariant holds in every reachable state.                 *)
THEOREM CommandInvariant == Spec => []CommandIInv
  BY InitCommandIInv, NextCommandIInv, PTL DEF Spec

(* Type correctness, the order of the tokens and the token of a waiting    *)
(* call, and packet ids that tell recent commands apart.                   *)
THEOREM CommandTypeCorrect == Spec => []TokensConsistent
<1>1. CommandIInv => TokensConsistent
  BY DEF CommandIInv, IdInv, RepoInv, CallInv, RetInv, TypeOK, TokensConsistent
<1> QED BY <1>1, CommandInvariant, PTL

(* The reply that a command gets is its own: never a late or repeated      *)
(* reply to an earlier command, nor one to another host's command.         *)
THEOREM RepliesMatched == Spec => [](ReplyAnswersCommand /\ PacketIdsDistinct)
<1>1. CommandIInv => ReplyAnswersCommand /\ PacketIdsDistinct
  BY DEF CommandIInv, IdInv, RetInv
<1> QED BY <1>1, CommandInvariant, PTL

-----------------------------------------------------------------------------
(***************************************************************************)
(* What calls and expire may never take out of the repository.             *)
(***************************************************************************)

(* Removing an index leaves the token of every other number.               *)
LEMMA RemoveSpares ==
  ASSUME NEW tokens \in Seq(Token), NEW index \in Int, NEW i \in 1..Len(tokens),
         i # index + 1
  PROVE  \E j \in 1..Len(remove(tokens, index)) : remove(tokens, index)[j] = tokens[i]
<1>1. CASE index \notin 0..(Len(tokens) - 1)
  <2>1. remove(tokens, index) = tokens
    BY <1>1, RemoveFacts
  <2> QED BY <2>1
<1>2. CASE index \in 0..(Len(tokens) - 1)
  <2>1. /\ Len(remove(tokens, index)) = Len(tokens) - 1
        /\ \A j \in 1..(Len(tokens) - 1) :
              remove(tokens, index)[j] = IF j <= index THEN tokens[j] ELSE tokens[j + 1]
    BY <1>2, RemoveFacts
  <2>2. CASE i <= index
    <3>1. i \in 1..(Len(tokens) - 1)
      BY <1>2, <2>2
    <3> QED BY <2>1, <2>2, <3>1
  <2>3. CASE i > index
    <3> DEFINE j == i - 1
    <3>1. j \in 1..(Len(tokens) - 1) /\ ~(j <= index) /\ j + 1 = i
      BY <1>2, <2>3
    <3> HIDE DEF j
    <3> QED BY <2>1, <3>1
  <2> QED BY <2>2, <2>3
<1> QED BY <1>1, <1>2

(* While a call waits, every step leaves the tokens of other commands.     *)
LEMMA WaitingStepSpares ==
  ASSUME CommandIInv, [Next]_vars, op \in Waiting, NEW c \in Pending, c # wait_cid
  PROVE  c \in Pending'
<1>1. token \in Seq(Token) /\ Len(token) \in Nat /\ wait_idx \in Int
  BY DEF CommandIInv, RepoInv, CallInv
<1>2. PICK i \in 1..Len(token) : token[i].cid = c
  BY DEF Pending
<1>3. CASE UNCHANGED token
  BY <1>3 DEF Pending
<1>4. CASE token' = remove(token, wait_idx)
  <2>1. i # wait_idx + 1
    <3>1. HasToken => wait_cid = issued /\ token[wait_idx + 1].cid = issued
      BY WaitingRemoves
    <3>2. i = wait_idx + 1 => HasToken
      BY <1>1 DEF HasToken
    <3> QED BY <1>2, <3>1, <3>2
  <2>2. PICK j \in 1..Len(remove(token, wait_idx)) : remove(token, wait_idx)[j] = token[i]
    BY <1>1, <2>1, RemoveSpares
  <2> QED BY <1>2, <1>4, <2>2 DEF Pending
<1>5. ASSUME NEW p \in Replies \cup ForeignReplies, accept(p)
      PROVE  token' = remove(token, wait_idx)
  BY <1>5, WaitingRemoves DEF accept
<1>6. CASE LoopStep
  <2>1. token' = remove(token, wait_idx) \/ UNCHANGED token
    BY <1>5, <1>6 DEF LoopStep, giveUp, receive, receiveUnrelated, receiveFailure, SkipPacket
  <2> QED BY <1>3, <1>4, <2>1
<1>7. CASE tick
  BY <1>3, <1>7 DEF tick
<1>8. op # "idle" /\ op # "expire"
  BY DEF Waiting
<1>9. ~Send
  BY <1>8 DEF Send, sendQueryRequest, query, queryDeviceType, sendLoginRequest, login,
              sendLogoffRequest
<1> QED
  BY <1>3, <1>6, <1>7, <1>8, <1>9
     DEF Next, handleReply, clear, expire, expireStep, vars

(* The end of a synchronous call removes its own token at most, although   *)
(* query and login remove the same index twice.                            *)
THEOREM CallsSpareOthers == Spec => CallSparesOthers
<1>1. CommandIInv /\ [Next]_vars
        => [(op \in Waiting) => \A c \in Pending : c = wait_cid \/ (c \in Pending')]_vars
  BY WaitingStepSpares
<1> QED BY <1>1, CommandInvariant, PTL DEF Spec, CallSparesOthers

(* The 32 bit age of a token that is not older than the timeout is its     *)
(* age, so it is not expired.                                              *)
LEMMA YoungIsNotExpired ==
  ASSUME CommandIInv, NEW i \in 1..Len(token), time - token[i].born <= Timeout
  PROVE  ~IsExpired(token[i], clock, Timeout, TimeMod)
<1>1. /\ TimeMod \in Nat /\ Timeout \in Nat /\ Timeout < TimeMod
      /\ clock \in 0..(TimeMod - 1) /\ time \in Nat
  BY TimeAssumption DEF CommandIInv, RepoInv
<1>2. token[i] \in Token
  BY DEF CommandIInv, RepoInv
<1> DEFINE age == time - token[i].born
<1>3. token[i].born \in Nat /\ token[i].born <= time
  BY <1>2 DEF Token, CommandIInv, RepoInv, CreateBack
<1>4. age \in Nat /\ age <= Timeout
  BY <1>1, <1>3
<1>5. age < TimeMod => token[i].create_time = Minus(clock, age, TimeMod)
  BY DEF CommandIInv, RepoInv, CreateBack
<1> HIDE DEF age
<1>6. Minus(clock, token[i].create_time, TimeMod) = age
  BY <1>1, <1>4, <1>5 DEF Minus
<1> QED BY <1>1, <1>4, <1>6 DEF IsExpired

(* A step of expire leaves the tokens that are not older than the timeout. *)
LEMMA ExpireStepSpares ==
  ASSUME CommandIInv, [Next]_vars, op = "expire", NEW i \in 1..Len(token),
         time - token[i].born <= Timeout
  PROVE  token[i].cid \in Pending'
<1>1. token \in Seq(Token) /\ Len(token) \in Nat /\ wait_idx \in 0..Len(token)
  BY DEF CommandIInv, RepoInv, CallInv, CallState
<1>2. CASE UNCHANGED token
  BY <1>2 DEF Pending
<1>3. CASE /\ token' = remove(token, wait_idx)
           /\ IsExpired(token[wait_idx + 1], clock, Timeout, TimeMod)
  <2>1. i # wait_idx + 1
    BY <1>3, YoungIsNotExpired
  <2>2. PICK j \in 1..Len(remove(token, wait_idx)) : remove(token, wait_idx)[j] = token[i]
    BY <1>1, <2>1, RemoveSpares
  <2> QED BY <1>3, <2>2 DEF Pending
<1>4. CASE expireStep
  BY <1>2, <1>3, <1>4 DEF expireStep
<1>5. op # "idle" /\ op \notin Waiting
  BY DEF Waiting
<1>6. ~Send
  BY <1>5 DEF Send, sendQueryRequest, query, queryDeviceType, sendLoginRequest, login,
              sendLogoffRequest
<1>7. ~LoopStep
  BY <1>5 DEF LoopStep, giveUp, receive, receiveUnrelated, receiveFailure
<1> QED
  BY <1>2, <1>4, <1>5, <1>6, <1>7 DEF Next, handleReply, clear, expire, tick, vars

(* expire spares the young, wherever the 32 bit clock turns over.          *)
THEOREM ExpireSparesTheYoung == Spec => ExpireSparesYoung
<1>1. CommandIInv /\ [Next]_vars
        => [op = "expire" =>
              \A i \in 1..Len(token) :
                 time - token[i].born <= Timeout => (token[i].cid \in Pending')]_vars
  BY ExpireStepSpares
<1> QED BY <1>1, CommandInvariant, PTL DEF Spec, ExpireSparesYoung

(* What expire has passed is not older than the timeout, by its clock.     *)
PassedAreYoung ==
    op = "expire" =>
        \A i \in 1..wait_idx : ~IsExpired(token[i], clock, Timeout, TimeMod)

(* While expire runs, nothing but its own step changes what it looks at.   *)
LEMMA OnlyExpireStep ==
  ASSUME [Next]_vars, op = "expire"
  PROVE  expireStep \/ UNCHANGED vars
<1>1. op # "idle" /\ op \notin Waiting
  BY DEF Waiting
<1>2. ~Send
  BY <1>1 DEF Send, sendQueryRequest, query, queryDeviceType, sendLoginRequest, login,
              sendLogoffRequest
<1>3. ~LoopStep
  BY <1>1 DEF LoopStep, giveUp, receive, receiveUnrelated, receiveFailure
<1> QED BY <1>1, <1>2, <1>3 DEF Next, handleReply, clear, expire, tick

(* expire starts at the first token.                                       *)
LEMMA ExpireStarts ==
  ASSUME CommandIInv, [Next]_vars, op # "expire", op' = "expire"
  PROVE  wait_idx' = 0
<1>1. ~Send
  BY DEF Send, sendQueryRequest, query, queryDeviceType, sendLoginRequest, login,
         sendLogoffRequest, NoWaiting, StartWaiting
<1>2. ~LoopStep
  BY DEF LoopStep, giveUp, receive, accept, receiveUnrelated, receiveFailure, Return, SkipPacket
<1> QED BY <1>1, <1>2 DEF Next, handleReply, clear, expire, expireStep, tick, vars

(* Erasing shifts the next token under the iterator, which then stays.     *)
LEMMA PassedStayYoung == CommandIInv /\ PassedAreYoung /\ [Next]_vars => PassedAreYoung'
<1> SUFFICES ASSUME CommandIInv, PassedAreYoung, [Next]_vars, op' = "expire",
                    NEW i \in 1..wait_idx'
             PROVE  ~IsExpired(token'[i], clock', Timeout, TimeMod)
  BY DEF PassedAreYoung
<1>1. CASE op # "expire"
  BY <1>1, ExpireStarts
<1>2. CASE op = "expire"
  <2>1. token \in Seq(Token) /\ Len(token) \in Nat /\ wait_idx \in 0..Len(token)
    BY <1>2 DEF CommandIInv, RepoInv, CallInv, CallState
  <2>2. \A k \in 1..wait_idx : ~IsExpired(token[k], clock, Timeout, TimeMod)
    BY <1>2 DEF PassedAreYoung
  <2>3. CASE UNCHANGED <<token, clock, wait_idx>>
    BY <2>2, <2>3
  <2>4. CASE /\ wait_idx < Len(token)
             /\ token' = remove(token, wait_idx) /\ UNCHANGED <<wait_idx, clock>>
    <3>1. wait_idx \in 0..(Len(token) - 1)
      BY <2>1, <2>4
    <3>2. token'[i] = token[i]
      <4>1. i \in 1..(Len(token) - 1) /\ i <= wait_idx
        BY <2>1, <2>4, <3>1
      <4>2. \A j \in 1..(Len(token) - 1) :
               remove(token, wait_idx)[j] = IF j <= wait_idx THEN token[j] ELSE token[j + 1]
        BY <2>1, <3>1, RemoveFacts
      <4> QED BY <2>4, <4>1, <4>2
    <3> QED BY <2>2, <2>4, <3>2
  <2>5. CASE /\ ~IsExpired(token[wait_idx + 1], clock, Timeout, TimeMod)
             /\ wait_idx' = wait_idx + 1 /\ UNCHANGED <<token, clock>>
    <3>1. i \in 1..wait_idx \/ i = wait_idx + 1
      BY <2>1, <2>5
    <3> QED BY <2>2, <2>5, <3>1
  <2>6. CASE expireStep
    <3>1. UNCHANGED clock
      BY <2>6 DEF expireStep
    <3> QED BY <2>1, <2>4, <2>5, <2>6, <3>1 DEF expireStep
  <2> QED BY <1>2, <2>3, <2>6, OnlyExpireStep DEF vars
<1> QED BY <1>1, <1>2

(* When expire returns, it has passed all tokens, and none is left that    *)
(* its clock calls older than the timeout.                                 *)
THEOREM ExpireIsComplete == Spec => ExpireLeavesNoOld
<1>1. Init => PassedAreYoung
  BY DEF Init, PassedAreYoung
<1>2. CommandIInv /\ PassedAreYoung /\ [Next]_vars
        => [op = "expire" /\ op' = "idle" =>
              \A i \in 1..Len(token') : ~IsExpired(token'[i], clock, Timeout, TimeMod)]_vars
  <2> SUFFICES ASSUME CommandIInv, PassedAreYoung, [Next]_vars, op = "expire", op' = "idle",
                      NEW i \in 1..Len(token')
               PROVE  ~IsExpired(token'[i], clock, Timeout, TimeMod)
    OBVIOUS
  <2>1. Len(token) \in Nat /\ wait_idx \in 0..Len(token)
    BY DEF CommandIInv, RepoInv, CallInv, CallState
  <2>2. expireStep
    BY OnlyExpireStep DEF vars
  <2>3. ~(wait_idx < Len(token)) /\ UNCHANGED token
    BY <2>2 DEF expireStep
  <2>4. i \in 1..wait_idx
    BY <2>1, <2>3
  <2> QED BY <2>3, <2>4 DEF PassedAreYoung
<1> QED BY <1>1, <1>2, PassedStayYoung, CommandInvariant, PTL DEF Spec, ExpireLeavesNoOld

=============================================================================
