-------------------------- MODULE SpeedwireCommand --------------------------
(***************************************************************************)
(* SpeedwireCommand and SpeedwireAuthentication: commands to devices, the  *)
(* tokens that match replies to commands, the synchronous calls with their *)
(* receive loop, and the asynchronous use of the same repository.          *)
(*                                                                         *)
(* The application is one thread: while a synchronous call waits, nobody   *)
(* else touches the repository. The network is not: it loses, duplicates,  *)
(* delays and reorders. So no packet is kept in a channel; the reply to    *)
(* any command of the last MaxDelay ones may arrive at any time, any       *)
(* number of times, or never.                                              *)
(*                                                                         *)
(* Packet ids have the top bit set, (packet_id + 1) | 0x8000; what counts  *)
(* is the low 15 bits, 0 .. NumIds - 1 with NumIds = 2^15 in the code.     *)
(***************************************************************************)
EXTENDS TokenRepository

CONSTANTS Devices,      \* the devices: their speedwire and ip addresses
          NoSocket,     \* the devices on an interface without a usable socket
          Broadcast,    \* the broadcast speedwire address
          Multicast,    \* the speedwire multicast ip address
          NumIds,       \* number of packet ids
          MaxDelay,     \* how many commands later a reply still arrives
          TimeMod,      \* 2^32 for a 32 bit clock
          Timeout,      \* what the application passes to expire
          MaxCommands,  \* bound: commands sent
          MaxTime,      \* bound: clock ticks
          MaxNoise      \* bound: packets skipped by one receive loop

ASSUME AddressAssumption ==
    /\ NoSocket \subseteq Devices
    /\ Broadcast \notin Devices
    /\ Multicast \notin Devices
ASSUME NumIdsAssumption ==
    NumIds \in Nat /\ 2 <= NumIds /\ MaxDelay \in Nat /\ MaxDelay < NumIds
ASSUME TimeAssumption == TimeMod \in Nat /\ Timeout \in Nat /\ Timeout < TimeMod
ASSUME BoundAssumption == MaxCommands \in Nat /\ MaxTime \in Nat /\ MaxNoise \in Nat

VARIABLES token,        \* the repository
          needs_login,  \* flag of the repository
          packet_id,    \* the static packet id counter
          issued,       \* history: how many packet ids were taken
          sent,         \* history: what became of command 1 .. issued
          clock,        \* the 32 bit clock
          time,         \* history: the clock without a wrap around
          op,           \* the call in progress, or "idle"
          wait_idx,     \* its token index; the iterator of expire
          wait_cid,     \* history: the command it sent
          noise,        \* packets its receive loop has skipped
          ret           \* history: the last reply accepted and for whom

vars == <<token, needs_login, packet_id, issued, sent, clock, time, op,
          wait_idx, wait_cid, noise, ret>>

Addresses == Devices \cup {Broadcast}
Errors    == {0, 23, 256}    \* ok, 0x0017 not authenticated, 0x0100 bad password

Waiting == {"query", "login", "queryDeviceType"}

Token == [addr : Addresses, packetid : 0..(NumIds - 1), ip : Devices \cup {Multicast},
          create_time : 0..(TimeMod - 1), cid : Nat, born : Nat]

(* What a packet id was used for: a command to addr that may be answered,  *)
(* sent under this host's own address or under that of another device; or  *)
(* one that is not, because it did not leave this host or is a logoff.     *)
Command == [packetid : 0..(NumIds - 1), addr : Addresses, own : BOOLEAN,
            answerable : BOOLEAN]

(* The last accepted reply: the command whose token accepted it, the       *)
(* command it answers (0: none), and how many packet ids the token is old. *)
NoReply == [cid |-> 0, answer |-> 0, age |-> 0]

-----------------------------------------------------------------------------
(***************************************************************************)
(* Packets. A device answers to the address the command came from.         *)
(***************************************************************************)
Answers(c) ==
    {[src |-> d, ip |-> i, toLocal |-> sent[c].own,
      packetid |-> sent[c].packetid, cid |-> c, error |-> e] :
        d \in IF sent[c].addr = Broadcast THEN Devices ELSE {sent[c].addr},
        i \in Devices, e \in Errors}

(* Replies to this host's commands; replies to somebody else's commands.   *)
Replies == UNION {Answers(c) : c \in {k \in 1..issued : sent[k].answerable /\ issued - k <= MaxDelay}}

ForeignReplies ==
    [src : Devices, ip : Devices, toLocal : {FALSE}, packetid : 0..(NumIds - 1),
     cid : {0}, error : {0}]

(* Mutant: the packet id is not compared.                                  *)
checkReplyAnyId(p, t) ==
    /\ p.toLocal
    /\ p.src = t.addr \/ t.addr = Broadcast
    /\ p.ip = t.ip \/ t.ip = Multicast

(* checkReply(packet, from, token): destination, source, packet id and ip. *)
checkReply(p, t) ==
    /\ p.toLocal
    /\ p.src = t.addr \/ t.addr = Broadcast
    /\ p.packetid = t.packetid
    /\ p.ip = t.ip \/ t.ip = Multicast

(* findCommandToken: the first token with the reply's sender and packet    *)
(* id; the token of a broadcast is never found.                            *)
findCommandToken(p, i) == Finds(token, p.src, p.packetid, i)

-----------------------------------------------------------------------------
(***************************************************************************)
(* Sending.                                                                *)
(***************************************************************************)
getIncrementedPacketID(addr, own, answerable) ==
    /\ issued < MaxCommands
    /\ packet_id' = Succ(packet_id, NumIds)
    /\ issued' = issued + 1
    /\ sent' = [c \in 1..(issued + 1) |->
                   IF c = issued + 1
                   THEN [packetid |-> packet_id', addr |-> addr, own |-> own,
                         answerable |-> answerable]
                   ELSE sent[c]]

NewToken(addr, ip) ==
    [addr |-> addr, packetid |-> packet_id', ip |-> ip, create_time |-> clock,
     cid |-> issued', born |-> time]

(* The common end of sendQueryRequest and sendLoginRequest: a packet id is *)
(* taken first; a missing socket or a failed sendto ends without a token.  *)
SendFails ==
    /\ getIncrementedPacketID(Broadcast, FALSE, FALSE)
    /\ UNCHANGED token

SendSucceeds(addr, own, ip) ==
    /\ getIncrementedPacketID(addr, own, TRUE)
    /\ token' = add(token, NewToken(addr, ip))

LoginIp(addr) == IF addr = Broadcast THEN Multicast ELSE addr

(* A synchronous call starts to wait with the given token index.           *)
StartWaiting(call, index) ==
    /\ op' = call
    /\ wait_idx' = index
    /\ wait_cid' = issued'
    /\ noise' = 0
    /\ UNCHANGED <<needs_login, clock, time, ret>>

NoWaiting == UNCHANGED <<needs_login, clock, time, op, wait_idx, wait_cid, noise, ret>>

(* Asynchronous send methods.                                              *)
sendQueryRequest(d) ==
    /\ op = "idle"
    /\ SendFails \/ (d \notin NoSocket /\ SendSucceeds(d, TRUE, d))
    /\ NoWaiting

sendLoginRequest(addr, own) ==
    /\ op = "idle"
    /\ \/ SendFails
       \/ addr \notin NoSocket /\ SendSucceeds(addr, own, LoginIp(addr))
    /\ NoWaiting

(* A logoff is not answered and leaves no token, whether it is sent or not.*)
sendLogoffRequest ==
    /\ op = "idle"
    /\ getIncrementedPacketID(Broadcast, FALSE, FALSE)
    /\ UNCHANGED token
    /\ NoWaiting

(* Synchronous calls, up to the receive loop. query and login look for the *)
(* socket first and stop when the send fails.                              *)
query(d) ==
    /\ op = "idle"
    /\ d \notin NoSocket
    /\ \/ SendFails /\ NoWaiting
       \/ SendSucceeds(d, TRUE, d) /\ StartWaiting("query", Len(token))

login(addr, own) ==
    /\ op = "idle"
    /\ addr \notin NoSocket
    /\ \/ SendFails /\ NoWaiting
       \/ SendSucceeds(addr, own, LoginIp(addr)) /\ StartWaiting("login", Len(token))

(* queryDeviceType sends first, and looks only at the socket afterwards:   *)
(* when the send fails, it waits with index -1.                            *)
queryDeviceType(d) ==
    /\ op = "idle"
    /\ \/ d \in NoSocket /\ SendFails /\ NoWaiting
       \/ d \notin NoSocket /\ SendFails /\ StartWaiting("queryDeviceType", -1)
       \/ d \notin NoSocket /\ SendSucceeds(d, TRUE, d)
                            /\ StartWaiting("queryDeviceType", Len(token))

-----------------------------------------------------------------------------
(***************************************************************************)
(* The receive loop of receiveResponse, and what its callers do with the   *)
(* result.                                                                 *)
(***************************************************************************)
HasToken == wait_idx \in 0..(Len(token) - 1)

Return ==
    /\ op' = "idle"
    /\ wait_idx' = -1
    /\ wait_cid' = 0
    /\ noise' = 0
    /\ UNCHANGED <<packet_id, issued, sent, clock, time>>

SkipPacket ==
    /\ noise' = noise + 1
    /\ UNCHANGED <<token, needs_login, packet_id, issued, sent, clock, time, op,
                   wait_idx, wait_cid, ret>>

(* Mutant: a poll that times out is repeated.                              *)
giveUpRetries == op \in Waiting /\ UNCHANGED vars

(* poll times out or fails, or an empty datagram arrives: the callers      *)
(* return, and the token stays in the repository.                          *)
giveUp ==
    /\ op \in Waiting
    /\ Return
    /\ UNCHANGED <<token, needs_login, ret>>

(* A reply passes checkReply: receiveResponse removes the token; query and *)
(* login look at the error code and remove the index once more.            *)
accept(p) ==
    /\ token' = IF op \in {"query", "login"}
                THEN remove(remove(token, wait_idx), wait_idx)
                ELSE remove(token, wait_idx)
    /\ needs_login' = (needs_login \/ (op \in {"query", "login"} /\ p.error = 23))
    /\ ret' = IF HasToken
              THEN [cid |-> wait_cid, answer |-> p.cid, age |-> issued - wait_cid]
              ELSE NoReply
    /\ Return

(* at() with an index that is out of range reads whatever is there, so the *)
(* check may then go either way.                                           *)
receive(p) ==
    /\ op \in Waiting
    /\ \/ (HasToken => checkReply(p, token[wait_idx + 1])) /\ accept(p)
       \/ ~(HasToken /\ checkReply(p, token[wait_idx + 1])) /\ noise < MaxNoise /\ SkipPacket

(* A packet that is no inverter reply restarts the loop, as does an event  *)
(* other than POLLIN.                                                      *)
receiveUnrelated ==
    /\ op \in Waiting
    /\ noise < MaxNoise
    /\ SkipPacket

(* recvfrom fails with -1 and the loop examines the old content of the     *)
(* buffer: the reply to an earlier command, or no reply (stale = 0).       *)
receiveFailure(stale) ==
    /\ op \in Waiting
    /\ IF stale # 0 /\ HasToken /\ sent[stale].packetid = token[wait_idx + 1].packetid
       THEN /\ token' = remove(token, wait_idx)
            /\ Return
            /\ UNCHANGED <<needs_login, ret>>
       ELSE noise < MaxNoise /\ SkipPacket

-----------------------------------------------------------------------------
(***************************************************************************)
(* The application's own use of the repository.                            *)
(***************************************************************************)

(* A packet receiver of the application finds the token of a reply, checks *)
(* the reply against it and removes the token.                             *)
handleReply(p) ==
    /\ op = "idle"
    /\ \E i \in 1..Len(token) :
          /\ findCommandToken(p, i)
          /\ checkReply(p, token[i])
          /\ token' = remove(token, i - 1)
          /\ ret' = [cid |-> token[i].cid, answer |-> p.cid, age |-> issued - token[i].cid]
    /\ UNCHANGED <<needs_login, packet_id, issued, sent, clock, time, op, wait_idx,
                   wait_cid, noise>>

clear ==
    /\ op = "idle"
    /\ token' = <<>>
    /\ UNCHANGED <<needs_login, packet_id, issued, sent, clock, time, op, wait_idx,
                   wait_cid, noise, ret>>

(* expire walks over the vector; one step is one turn of its loop.         *)
expire ==
    /\ op = "idle"
    /\ op' = "expire"
    /\ wait_idx' = 0
    /\ UNCHANGED <<token, needs_login, packet_id, issued, sent, clock, time, wait_cid,
                   noise, ret>>

(* Mutant: the iterator advances behind an erased token, too.              *)
expireStepSkips ==
    /\ op = "expire"
    /\ IF wait_idx < Len(token)
       THEN /\ token' = IF IsExpired(token[wait_idx + 1], clock, Timeout, TimeMod)
                        THEN remove(token, wait_idx) ELSE token
            /\ wait_idx' = wait_idx + 1
            /\ UNCHANGED op
       ELSE op' = "idle" /\ wait_idx' = -1 /\ UNCHANGED token
    /\ UNCHANGED <<needs_login, packet_id, issued, sent, clock, time, wait_cid, noise, ret>>

expireStep ==
    /\ op = "expire"
    /\ IF wait_idx < Len(token)
       THEN /\ IF IsExpired(token[wait_idx + 1], clock, Timeout, TimeMod)
               THEN token' = remove(token, wait_idx) /\ UNCHANGED wait_idx
               ELSE UNCHANGED token /\ wait_idx' = wait_idx + 1
            /\ UNCHANGED op
       ELSE op' = "idle" /\ wait_idx' = -1 /\ UNCHANGED token
    /\ UNCHANGED <<needs_login, packet_id, issued, sent, clock, time, wait_cid, noise, ret>>

(* Time passes between and during calls; expire reads the clock once, and  *)
(* its loop takes no time.                                                 *)
tick ==
    /\ op # "expire"
    /\ time < MaxTime
    /\ time' = time + 1
    /\ clock' = Succ(clock, TimeMod)
    /\ UNCHANGED <<token, needs_login, packet_id, issued, sent, op, wait_idx, wait_cid,
                   noise, ret>>

-----------------------------------------------------------------------------
Init ==
    /\ token = <<>>
    /\ needs_login = FALSE
    /\ packet_id = 1
    /\ issued = 0
    /\ sent = [c \in 1..0 |-> 0]
    /\ clock \in 0..(TimeMod - 1)
    /\ time = 0
    /\ op = "idle"
    /\ wait_idx = -1
    /\ wait_cid = 0
    /\ noise = 0
    /\ ret = NoReply

Send ==
    \/ \E d \in Devices : sendQueryRequest(d) \/ query(d) \/ queryDeviceType(d)
    \/ \E addr \in Addresses, own \in BOOLEAN : sendLoginRequest(addr, own) \/ login(addr, own)
    \/ sendLogoffRequest

LoopStep ==
    \/ giveUp
    \/ \E p \in Replies \cup ForeignReplies : receive(p)
    \/ receiveUnrelated
    \/ \E stale \in 0..(issued - 1) : receiveFailure(stale)

Next ==
    \/ Send
    \/ LoopStep
    \/ \E p \in Replies \cup ForeignReplies : handleReply(p)
    \/ clear
    \/ expire
    \/ expireStep
    \/ tick

Spec == Init /\ [][Next]_vars

(* A call that has started is carried on: the thread is scheduled and poll *)
(* returns after its timeout at the latest.                                *)
Fairness == WF_vars(LoopStep) /\ WF_vars(expireStep)

FairSpec == Spec /\ Fairness

-----------------------------------------------------------------------------
(***************************************************************************)
(* Properties.                                                             *)
(***************************************************************************)

(* Every variable has its type.                                            *)
TypeOK ==
    /\ token \in Seq(Token)
    /\ needs_login \in BOOLEAN
    /\ packet_id \in 0..(NumIds - 1)
    /\ issued \in Nat
    /\ sent \in [1..issued -> Command]
    /\ clock \in 0..(TimeMod - 1)
    /\ time \in Nat
    /\ op \in Waiting \cup {"idle", "expire"}
    /\ wait_idx \in Int
    /\ wait_cid \in Nat
    /\ noise \in Nat
    /\ ret \in [cid : Nat, answer : Nat, age : Nat]

(* Tokens are in the order of their commands, each with the packet id of   *)
(* the command it stands for, and every command has at most one token.     *)
TokensInOrder ==
    /\ \A i \in 1..Len(token) :
          /\ token[i].cid \in 1..issued
          /\ token[i].packetid = sent[token[i].cid].packetid
          /\ token[i].addr = sent[token[i].cid].addr
          /\ sent[token[i].cid].answerable
    /\ \A i, j \in 1..Len(token) : i < j => token[i].cid < token[j].cid

(* While query, login or queryDeviceType wait with a token, it is the      *)
(* token of the command they sent, and the last one of the repository: so  *)
(* the second remove of query and login meets no other token.              *)
WaitsOnLastToken ==
    op \in Waiting /\ wait_idx # -1 =>
        /\ wait_cid = issued
        /\ wait_idx = Len(token) - 1
        /\ token[Len(token)].cid = wait_cid

(* The wrap around of the packet id confuses no two commands that are less *)
(* than NumIds apart.                                                      *)
PacketIdsDistinct ==
    \A c, k \in 1..issued :
        c < k /\ k - c < NumIds => sent[c].packetid # sent[k].packetid

(* The repository is consistent with the commands: tokens stand for        *)
(* commands in their order, the waiting call's is the last one, and packet *)
(* ids tell commands apart within the distance of their range.             *)
TokensConsistent == TypeOK /\ TokensInOrder /\ WaitsOnLastToken /\ PacketIdsDistinct

(* A reply is accepted only for the command it answers, if that command is *)
(* less than NumIds packet ids old: a late, repeated or foreign reply is   *)
(* never taken for the reply to another command.                           *)
ReplyAnswersCommand ==
    ret.age < NumIds => ret.answer = ret.cid

(* The same for tokens of any age: "used to match command replies with     *)
(* their corresponding command queries" (include/SpeedwireCommand.hpp).    *)
ReplyAlwaysAnswersCommand ==
    ret.answer = ret.cid

(* While a call waits, the token at its index is the one of its command:   *)
(* "receive command reply packet for the given command token".             *)
WaitsForItsCommand ==
    op \in Waiting => HasToken /\ token[wait_idx + 1].cid = wait_cid

Pending == {token[i].cid : i \in 1..Len(token)}

(* The end of a synchronous call, with its two removals, takes no other    *)
(* command's token out of the repository, and a call that gives up takes   *)
(* none.                                                                   *)
CallSparesOthers ==
    [][(op \in Waiting) => \A c \in Pending : c = wait_cid \/ (c \in Pending')]_vars

(* expire never takes out a token that is not older than the timeout, also *)
(* when the 32 bit clock turns over in between.                            *)
ExpireSparesYoung ==
    [][op = "expire" =>
         \A i \in 1..Len(token) :
             time - token[i].born <= Timeout => (token[i].cid \in Pending')]_vars

(* When expire returns, no token is left whose 32 bit age is beyond the    *)
(* timeout, although erasing shifts the vector under the iterator.         *)
ExpireLeavesNoOld ==
    [][op = "expire" /\ op' = "idle" =>
         \A i \in 1..Len(token') : ~IsExpired(token'[i], clock, Timeout, TimeMod)]_vars

(* Every call returns: the receive loop ends when the burst of unrelated   *)
(* packets does, and expire reaches the end of the vector.                 *)
CallReturns == (op # "idle") ~> (op = "idle")

=============================================================================
