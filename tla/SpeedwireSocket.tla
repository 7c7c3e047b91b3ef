-------------------------- MODULE SpeedwireSocket --------------------------
(* src/src/SpeedwireSocket.cpp and src/src/SpeedwireSocketSimple.cpp.        *)
(* Copies of a socket share its descriptor and a counter of the sharers; the *)
(* destructor that brings the counter to zero closes the descriptor. The     *)
(* operating system hands out the lowest free descriptor, so that a number   *)
(* that was closed comes to denote another socket.                           *)
EXTENDS Integers, FiniteSets

CONSTANTS MaxFd,     \* descriptors are 0..MaxFd: the limit of the process
          Cells,     \* reference counters on the heap
          AnyAddr, BadAddr, V6Addrs, V4Addrs,
          Closed,    \* a descriptor that is not open
          Simple,    \* the holder SpeedwireSocketSimple
          Lost,      \* a descriptor that is open although no object names it
          Refused    \* a packet that does not leave

ASSUME DescriptorAssumption ==
    /\ MaxFd \in Nat
    /\ Simple \notin Cells
    /\ AnyAddr \notin V4Addrs /\ BadAddr \notin V4Addrs \union {AnyAddr}
    /\ \A h \in Cells \union {Simple}, a \in V4Addrs \union V6Addrs \union {AnyAddr, BadAddr} :
          [holder |-> h, addr |-> a] \notin {Closed, Lost}

Addrs == V4Addrs \union V6Addrs \union {AnyAddr, BadAddr}
NoFd == -1

VARIABLES os,          \* by descriptor: the open socket, or Closed
          counters,    \* socket_fd_ref_counter, by cell; 0: not allocated
          simple,      \* SpeedwireSocketSimple: its instance and static fd
          misused      \* whether a shared socket was closed or opened again

osVars == <<os, counters, simple, misused>>

Free == {f \in DOMAIN os : os[f] = Closed}
Lowest == {f \in Free : \A g \in Free : f <= g}
IsIpv4(addr) == addr \in V4Addrs \union {AnyAddr}
family(addr) == IF IsIpv4(addr) THEN "v4" ELSE IF addr \in V6Addrs THEN "v6" ELSE "unspec"

OsInit ==
    /\ os = [f \in 0..MaxFd |-> Closed]
    /\ counters = [c \in Cells |-> 0]
    /\ simple = [instance |-> FALSE, fd |-> NoFd]
    /\ misused = FALSE

(* SpeedwireSocket(localhost): not open, its own counter *)
NewSocket(c) == [fd |-> NoFd, cell |-> c, family |-> "unspec", in4 |-> AnyAddr]
FreshCells == {c \in Cells : counters[c] = 0}
FreshCell == CHOOSE c \in Cells : counters[c] = 0

(* openSocketV4 and openSocketV6: socket() fails, or one of the calls after  *)
(* it does, and the descriptor is neither closed nor returned, or all        *)
(* succeed. A unicast socket is bound to a port that the system chooses.     *)
Openings(holder, addr) ==
    {[fd |-> NoFd, os |-> os]} \union
    {[fd |-> f, os |-> [os EXCEPT ![f] = [holder |-> holder, addr |-> addr]]] : f \in Lowest} \union
    {[fd |-> NoFd, os |-> [os EXCEPT ![f] = Lost]] : f \in Lowest}

(* openSocket: the descriptor it had is overwritten, not closed; an address  *)
(* of neither family changes the family only                                 *)
Opened(sock, addr, opening) ==
    [sock EXCEPT !.family = family(addr),
                 !.fd  = IF addr = BadAddr THEN @ ELSE opening.fd,
                 !.in4 = IF IsIpv4(addr) THEN addr ELSE @]
openSocket(sock, addr, opening) ==
    LET shared == counters[sock.cell] > 1
    IN  /\ opening \in IF addr = BadAddr THEN {[fd |-> sock.fd, os |-> os]}
                       ELSE Openings(sock.cell, addr)
        /\ os' = IF addr = BadAddr \/ sock.fd = NoFd \/ shared THEN opening.os
                 ELSE [opening.os EXCEPT ![sock.fd] = Lost]
        /\ misused' = (misused \/ shared)

(* closeSocket: close() of the descriptor that this object has, whatever it  *)
(* denotes by now; the interface address of the binary form stays            *)
Shut(fd) == IF fd = NoFd THEN os ELSE [os EXCEPT ![fd] = Closed]
closed(sock) == [sock EXCEPT !.fd = NoFd, !.family = IF sock.fd = NoFd THEN @ ELSE "unspec"]
closeSocket(sock) ==
    /\ os' = Shut(sock.fd)
    /\ misused' = (misused \/ (sock.fd # NoFd /\ counters[sock.cell] > 1))

(* The copy constructor, for each of the copies *)
copySockets(copies) ==
    counters' = [c \in Cells |-> counters[c] + Cardinality({h \in DOMAIN copies : copies[h].cell = c})]
(* The destructor: the last sharer closes *)
destroySocketFirst(sock) ==
    counters' = [counters EXCEPT ![sock.cell] = @ - 1] /\ os' = Shut(sock.fd)
destroySocket(sock) ==
    /\ counters' = [counters EXCEPT ![sock.cell] = @ - 1]
    /\ IF counters[sock.cell] <= 1 THEN os' = Shut(sock.fd) ELSE UNCHANGED os

(* sendto with an interface address: refused for INADDR_ANY; a packet to the *)
(* multicast group leaves through the interface that is given, any other     *)
(* comes from the address that the descriptor is bound to                    *)
sendto(sock, dest, in4) ==
    IF in4 = AnyAddr \/ sock.fd = NoFd \/ os[sock.fd] \in {Closed, Lost} THEN Refused
    ELSE IF dest = "group" THEN in4 ELSE os[sock.fd].addr
sendtoOwn(sock, dest) == sendto(sock, dest, sock.in4)

(* send: to the group, by the family of the socket *)
send(sock) == IF sock.family = "v4" THEN sendtoOwn(sock, "group")
              ELSE IF sock.family = "v6" /\ sock.fd # NoFd THEN os[sock.fd].addr ELSE Refused

(***************************************************************************)
(* SpeedwireSocketSimple, one static descriptor                            *)
(***************************************************************************)
getInstanceSimple(opening) ==
    /\ simple.fd = NoFd /\ opening \in Openings(Simple, AnyAddr)
    /\ simple' = [instance |-> opening.fd # NoFd, fd |-> opening.fd]
    /\ os' = opening.os
    /\ UNCHANGED <<counters, misused>>

closeSimple ==
    /\ simple.instance /\ simple' = [simple EXCEPT !.fd = NoFd]
    /\ os' = Shut(simple.fd)
    /\ UNCHANGED <<counters, misused>>
=============================================================================
