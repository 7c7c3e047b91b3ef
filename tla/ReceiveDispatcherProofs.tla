----------------------- MODULE ReceiveDispatcherProofs -----------------------
(***************************************************************************)
(* Proofs about ReceiveDispatcher, for any number of sockets, receivers,   *)
(* packets and failures of recvfrom.                                       *)
(***************************************************************************)
EXTENDS ReceiveDispatcher, FiniteSetTheorems, SequenceTheorems, TLAPS

(* A packet waits in one place of one queue, nobody has seen it, and it is *)
(* not in the buffer.                                                      *)
Unseen(id) ==
    /\ id # buffer
    /\ id \notin counted
    /\ id \notin reread
    /\ \A r \in DOMAIN receivers : delivered[r][id] = 0

QueueInv ==
    /\ \A s \in 1..NumSockets : \A i \in 1..Len(queue[s]) : Unseen(queue[s][i])
    /\ \A s, t \in 1..NumSockets : \A i \in 1..Len(queue[s]), l \in 1..Len(queue[t]) :
          queue[s][i] = queue[t][l] => s = t /\ i = l

(* What dispatch takes the packet for that it is delivering; a packet that *)
(* is evaluated for the first time, or that ends with its end-of-data tag, *)
(* is taken for what it is.                                                *)
SeenInv ==
    /\ phase = "deliver" => seen \notin {"malformed", "invalid"}
    /\ phase = "deliver" /\ buffer \in Ids /\ (buffer \in whole \/ buffer \notin reread) =>
          seen = kinds[buffer]

(* Who has got what: receivers before the next one have got the packet     *)
(* that is being delivered for the first time, and all have got all        *)
(* earlier ones.                                                           *)
ServeInv ==
    /\ Len(kinds) <= MaxPackets
    /\ phase # "deliver" => k = 1
    /\ \A id \in Ids : taken[id] <= Len(receivers)
    /\ \A r \in DOMAIN receivers : \A id \in 1..MaxPackets :
          id \notin Ids => delivered[r][id] = 0
    /\ \A r \in DOMAIN receivers : \A id \in Ids :
          ~Matches(receivers[r], kinds[id]) /\ (id \in whole \/ id \notin reread) =>
             delivered[r][id] = 0
    /\ \A r \in DOMAIN receivers : \A id \in Ids :
          /\ r <= taken[id] /\ Matches(receivers[r], kinds[id])
          /\ phase = "deliver" /\ id = buffer /\ id \notin reread => r < k
          => delivered[r][id] >= 1

(* A failure lets one packet be delivered once more; the next receivers    *)
(* have not yet got it this time.                                          *)
RepeatInv ==
    \A r \in DOMAIN receivers : \A id \in Ids :
        /\ delivered[r][id] <= 1 + failures
        /\ phase = "deliver" /\ id = buffer /\ r >= k => delivered[r][id] <= failures

(* What the call has counted and read so far.                              *)
CallInv ==
    /\ IsFiniteSet(counted)
    /\ Cardinality(counted) <= npackets
    /\ npackets <= Cardinality(counted) + failures
    /\ phase = "idle" /\ result >= 0 => npackets = result /\ read = ready
    /\ phase = "scan" => read = {s \in ready : s < j}
    /\ phase = "deliver" => read = {s \in ready : s <= j} /\ j \in ready

IInv ==
    /\ TypeOK /\ QueueInv /\ SeenInv /\ ServeInv /\ RepeatInv /\ CallInv
    /\ ErrorReturns /\ SkippedWait

-----------------------------------------------------------------------------
(* Every step keeps the invariant.                                         *)

(* Before the first call nothing has been received.                        *)
LEMMA InitIInv == Init => IInv
<1> SUFFICES ASSUME Init PROVE IInv
  OBVIOUS
<1>1. TypeOK
  <2>1. Ids = {} /\ receivers = <<>> /\ kinds = <<>> /\ taken = <<>> /\ delivered = <<>>
    BY DEF Init, Ids
  <2>2. taken \in [Ids -> Nat] /\ delivered \in [DOMAIN receivers -> [1..MaxPackets -> Nat]]
    BY <2>1
  <2>3. queue \in [1..NumSockets -> Seq(Ids)]
    BY DEF Init
  <2> QED BY <2>1, <2>2, <2>3, NumSocketsAssumption DEF Init, TypeOK, Kinds
<1>2. QueueInv
  <2>1. \A s \in 1..NumSockets : Len(queue[s]) = 0
    BY DEF Init
  <2> QED BY <2>1 DEF QueueInv
<1>3. SeenInv /\ ServeInv /\ ErrorReturns /\ SkippedWait
  BY DispatchBounds DEF Init, SeenInv, ServeInv, ErrorReturns, SkippedWait, Ids
<1>4. RepeatInv
  BY DEF Init, RepeatInv, Ids
<1>5. CallInv
  BY FS_EmptySet DEF Init, CallInv
<1> QED BY <1>1, <1>2, <1>3, <1>4, <1>5 DEF IInv

(* The types that the steps rest on.                                       *)
LEMMA Types ==
  ASSUME IInv
  PROVE  /\ Len(receivers) \in Nat /\ DOMAIN receivers = 1..Len(receivers)
         /\ Len(kinds) \in Nat /\ Ids = 1..Len(kinds)
         /\ \A s \in 1..NumSockets : queue[s] \in Seq(Ids) /\ Len(queue[s]) \in Nat
         /\ \A r \in DOMAIN receivers : delivered[r] \in [1..MaxPackets -> Nat]
         /\ Ids \subseteq 1..MaxPackets
         /\ NumSockets \in Nat /\ MaxPackets \in Nat
<1>1. receivers \in Seq(Protocols) /\ kinds \in Seq(Kinds) /\ Len(kinds) <= MaxPackets
  BY DEF IInv, TypeOK, ServeInv
<1>2. Len(receivers) \in Nat /\ DOMAIN receivers = 1..Len(receivers)
      /\ Len(kinds) \in Nat /\ Ids = 1..Len(kinds)
  BY <1>1 DEF Ids
<1>3. \A s \in 1..NumSockets : queue[s] \in Seq(Ids)
  BY DEF IInv, TypeOK
<1>4. \A s \in 1..NumSockets : Len(queue[s]) \in Nat
  BY <1>3
<1>5. \A r \in DOMAIN receivers : delivered[r] \in [1..MaxPackets -> Nat]
  BY DEF IInv, TypeOK
<1> QED BY <1>1, <1>2, <1>3, <1>4, <1>5, NumSocketsAssumption, DispatchBounds

(* Nobody has seen a packet that waits.                                    *)
LEMMA Queued ==
  ASSUME IInv, NEW s \in 1..NumSockets, NEW i \in 1..Len(queue[s])
  PROVE  /\ queue[s][i] \in Ids /\ queue[s][i] \in 1..MaxPackets
         /\ queue[s][i] # 0 /\ Unseen(queue[s][i])
<1> DEFINE q == queue[s]
<1>1. q \in Seq(Ids) /\ Len(q) \in Nat /\ i \in 1..Len(q)
  BY Types
<1>2. Unseen(q[i])
  BY DEF IInv, QueueInv
<1> HIDE DEF q
<1>3. q[i] \in Ids
  BY <1>1
<1>4. q[i] \in 1..MaxPackets /\ q[i] # 0
  BY <1>3, Types
<1> QED BY <1>2, <1>3, <1>4 DEF q

(* A receiver is registered between calls, with all counts at zero.        *)
LEMMA RegisterIInv ==
  ASSUME IInv, NEW protocol \in Protocols, registerReceiver(protocol)
  PROVE  IInv'
<1>1. /\ phase = "idle"
      /\ receivers' = Append(receivers, protocol)
      /\ delivered' = Append(delivered, [id \in 1..MaxPackets |-> 0])
      /\ UNCHANGED <<sockets, call, failures, reread, taken>>
  BY DEF registerReceiver
<1> DEFINE n == Len(receivers)
<1>2. n \in Nat /\ DOMAIN receivers = 1..n /\ receivers \in Seq(Protocols)
  BY Types DEF IInv, TypeOK
<1>3. /\ receivers' \in Seq(Protocols)
      /\ Len(receivers') = n + 1
      /\ DOMAIN receivers' = 1..(n + 1)
      /\ \A r \in 1..n : receivers'[r] = receivers[r]
  BY <1>1, <1>2
<1>4. delivered \in Seq([1..MaxPackets -> Nat]) /\ Len(delivered) = n
  <2>1. delivered \in [1..n -> [1..MaxPackets -> Nat]]
    BY <1>2 DEF IInv, TypeOK
  <2> QED BY <1>2, <2>1
<1>5. /\ delivered' \in [1..(n + 1) -> [1..MaxPackets -> Nat]]
      /\ \A r \in 1..n : delivered'[r] = delivered[r]
      /\ \A id \in 1..MaxPackets : delivered'[n + 1][id] = 0
  <2> DEFINE zero == [id \in 1..MaxPackets |-> 0]
  <2>1. zero \in [1..MaxPackets -> Nat] /\ \A id \in 1..MaxPackets : zero[id] = 0
    OBVIOUS
  <2>2. delivered' = Append(delivered, zero)
    BY <1>1
  <2> DEFINE Rows == [1..MaxPackets -> Nat]
  <2>4. zero \in Rows /\ delivered \in Seq(Rows)
    BY <1>4, <2>1
  <2> HIDE DEF zero, Rows
  <2>3. /\ Append(delivered, zero) \in Seq(Rows)
        /\ Len(Append(delivered, zero)) = n + 1
        /\ \A r \in 1..n : Append(delivered, zero)[r] = delivered[r]
        /\ Append(delivered, zero)[n + 1] = zero
    BY <1>2, <1>4, <2>4
  <2>5. Append(delivered, zero) \in [1..(n + 1) -> Rows]
    BY <2>3, LenProperties
  <2> QED BY <2>1, <2>2, <2>3, <2>5 DEF Rows
<1> HIDE DEF n
<1>6. UNCHANGED <<queue, kinds, whole, phase, ready, j, k, buffer, seen, npackets, result,
                  failures, reread, taken, read, counted, Ids>>
  BY <1>1 DEF sockets, call, Ids
<1>7. TypeOK'
  BY <1>3, <1>5, <1>6 DEF IInv, TypeOK
<1>8. \A r \in DOMAIN receivers' : r \in DOMAIN receivers \/ r = n + 1
  BY <1>2, <1>3
<1>9. QueueInv'
  <2>1. ASSUME NEW s \in 1..NumSockets, NEW i \in 1..Len(queue[s])
        PROVE  Unseen(queue[s][i])'
    <3>1. queue[s][i] \in Ids /\ Unseen(queue[s][i]) /\ queue[s][i] \in 1..MaxPackets
      BY Queued
    <3> QED BY <1>2, <1>5, <1>6, <1>8, <3>1 DEF Unseen
  <2> QED BY <1>6, <2>1 DEF IInv, QueueInv
<1>10. \A id \in Ids : taken[id] <= n
  BY DEF IInv, ServeInv, n
<1>11. \A id \in Ids : taken[id] \in Nat
  BY DEF IInv, TypeOK
<1>12. ServeInv'
  <2>1. \A id \in Ids : taken'[id] <= Len(receivers')
    BY <1>2, <1>3, <1>6, <1>10, <1>11
  <2>2. ASSUME NEW r \in DOMAIN receivers', NEW id \in 1..MaxPackets, id \notin Ids
        PROVE  delivered'[r][id] = 0
    <3>1. CASE r \in DOMAIN receivers
      <4>1. delivered[r][id] = 0
        BY <2>2, <3>1 DEF IInv, ServeInv
      <4> QED BY <1>2, <1>5, <3>1, <4>1
    <3>2. CASE r = n + 1
      BY <1>5, <3>2
    <3> QED BY <1>8, <3>1, <3>2
  <2>3. ASSUME NEW r \in DOMAIN receivers', NEW id \in Ids
        PROVE  /\ ~Matches(receivers'[r], kinds[id]) /\ (id \in whole \/ id \notin reread)
                    => delivered'[r][id] = 0
               /\ r <= taken[id] /\ Matches(receivers'[r], kinds[id])
                    => delivered'[r][id] >= 1
    <3>1. CASE r \in DOMAIN receivers
      BY <1>1, <1>2, <1>3, <1>5, <3>1 DEF IInv, ServeInv
    <3>2. CASE r = n + 1
      <4>1. ~(r <= taken[id])
        BY <1>2, <1>10, <1>11, <3>2
      <4> QED BY <1>5, <3>2, <4>1, Types
    <3> QED BY <1>8, <3>1, <3>2
  <2> QED BY <1>6, <2>1, <2>2, <2>3 DEF IInv, ServeInv
<1>13. RepeatInv'
  <2> SUFFICES ASSUME NEW r \in DOMAIN receivers', NEW id \in Ids
               PROVE  delivered'[r][id] <= 1 + failures
    BY <1>1, <1>6 DEF RepeatInv
  <2>0. failures \in Nat
    BY DEF IInv, TypeOK
  <2>1. CASE r \in DOMAIN receivers
    BY <1>2, <1>5, <2>1 DEF IInv, RepeatInv
  <2>2. CASE r = n + 1
    BY <1>5, <2>0, <2>2, Types
  <2> QED BY <1>8, <2>1, <2>2
<1>14. SeenInv' /\ CallInv' /\ ErrorReturns' /\ SkippedWait'
  BY <1>1, <1>6 DEF IInv, SeenInv, CallInv, ErrorReturns, SkippedWait
<1> QED BY <1>7, <1>9, <1>12, <1>13, <1>14 DEF IInv

(* A packet that arrives is the newest, and nobody has seen it.            *)
LEMMA ArriveIInv ==
  ASSUME IInv, NEW s \in 1..NumSockets, NEW kind \in Kinds, NEW hasEnd \in BOOLEAN,
         arrive(s, kind, hasEnd)
  PROVE  IInv'
<1> DEFINE new == Len(kinds) + 1
<1>1. /\ Len(kinds) < MaxPackets
      /\ kinds' = Append(kinds, kind)
      /\ queue' = [queue EXCEPT ![s] = Append(@, Len(kinds'))]
      /\ taken' = Append(taken, 0)
      /\ whole' = IF hasEnd THEN whole \cup {Len(kinds')} ELSE whole
      /\ UNCHANGED <<receivers, phase, ready, j, k, buffer, seen, npackets, result, read,
                     counted, failures, reread, delivered>>
  BY DEF arrive, call
<1>2. /\ Len(kinds) \in Nat /\ kinds \in Seq(Kinds) /\ Ids = 1..Len(kinds)
      /\ MaxPackets \in Nat
  BY Types DEF IInv, TypeOK
<1>3. /\ kinds' \in Seq(Kinds) /\ Len(kinds') = new
      /\ \A id \in Ids : kinds'[id] = kinds[id]
      /\ Ids' = Ids \cup {new} /\ new \notin Ids /\ new \in 1..MaxPackets
      /\ Ids' = 1..new
      /\ whole \subseteq whole' /\ whole' \subseteq whole \cup {new}
  BY <1>1, <1>2 DEF Ids
<1>4. taken \in Seq(Nat) /\ Len(taken) = Len(kinds)
  <2>1. taken \in [1..Len(kinds) -> Nat]
    BY <1>2 DEF IInv, TypeOK
  <2> QED BY <1>2, <2>1
<1>5. /\ taken' \in [1..new -> Nat]
      /\ \A id \in Ids : taken'[id] = taken[id]
      /\ taken'[new] = 0
  <2>1. /\ taken' \in Seq(Nat) /\ Len(taken') = new /\ taken'[new] = 0
        /\ \A id \in 1..Len(kinds) : taken'[id] = taken[id]
    BY <1>1, <1>2, <1>4, AppendProperties
  <2>2. taken' \in [1..Len(taken') -> Nat]
    BY <2>1, LenProperties
  <2> QED BY <1>2, <2>1, <2>2
<1> HIDE DEF new
<1>6. /\ queue[s] \in Seq(Ids) /\ Len(queue[s]) \in Nat
      /\ DOMAIN queue = 1..NumSockets
  BY Types DEF IInv, TypeOK
<1>7. /\ queue'[s] \in Seq(Ids') /\ Len(queue'[s]) = Len(queue[s]) + 1
      /\ \A i \in 1..Len(queue[s]) : queue'[s][i] = queue[s][i]
      /\ queue'[s][Len(queue[s]) + 1] = new
  <2>1. queue'[s] = Append(queue[s], new)
    BY <1>1, <1>3, <1>6
  <2>2. queue[s] \in Seq(Ids') /\ new \in Ids'
    BY <1>3, <1>6
  <2> QED BY <1>6, <2>1, <2>2
<1>8. \A t \in 1..NumSockets : t # s => queue'[t] = queue[t] /\ queue'[t] \in Seq(Ids')
  <2> SUFFICES ASSUME NEW t \in 1..NumSockets, t # s
               PROVE  queue'[t] = queue[t] /\ queue'[t] \in Seq(Ids')
    OBVIOUS
  <2>1. queue'[t] = queue[t]
    BY <1>1, <1>6
  <2>2. queue[t] \in Seq(Ids) /\ Ids \subseteq Ids'
    BY <1>3, Types
  <2> QED BY <2>1, <2>2
<1>9. \A t \in 1..NumSockets : \A i \in 1..Len(queue'[t]) :
         \/ i \in 1..Len(queue[t]) /\ queue'[t][i] = queue[t][i]
         \/ t = s /\ i = Len(queue[s]) + 1 /\ queue'[t][i] = new
  <2> SUFFICES ASSUME NEW t \in 1..NumSockets, NEW i \in 1..Len(queue'[t])
               PROVE  \/ i \in 1..Len(queue[t]) /\ queue'[t][i] = queue[t][i]
                      \/ t = s /\ i = Len(queue[s]) + 1 /\ queue'[t][i] = new
    OBVIOUS
  <2>1. CASE t = s
    <3>1. i \in 1..(Len(queue[s]) + 1)
      BY <1>7, <2>1
    <3>2. i \in 1..Len(queue[s]) \/ i = Len(queue[s]) + 1
      BY <1>6, <3>1
    <3> QED BY <1>7, <2>1, <3>2
  <2>2. CASE t # s
    BY <1>8, <2>2
  <2> QED BY <2>1, <2>2
<1>10. TypeOK'
  <2>1. queue' \in [1..NumSockets -> Seq(Ids')]
    <3>1. DOMAIN queue' = 1..NumSockets /\ queue' = [t \in DOMAIN queue' |-> queue'[t]]
      BY <1>1, <1>6
    <3> QED BY <1>7, <1>8, <3>1
  <2> QED BY <1>1, <1>3, <1>5, <2>1 DEF IInv, TypeOK
<1>11. \A t \in 1..NumSockets : \A i \in 1..Len(queue[t]) :
          queue[t][i] \in Ids /\ queue[t][i] # new /\ Unseen(queue[t][i])
  BY <1>3, Queued
<1>12. Unseen(new)
  <2>1. new # buffer /\ new \notin counted /\ new # 0 /\ new \notin reread
    BY <1>2, <1>3 DEF IInv, TypeOK
  <2>2. \A r \in DOMAIN receivers : delivered[r][new] = 0
    BY <1>3 DEF IInv, ServeInv
  <2> QED BY <2>1, <2>2 DEF Unseen
<1>13. QueueInv'
  <2>1. \A id : Unseen(id)' <=> Unseen(id)
    BY <1>1 DEF Unseen
  <2>2. ASSUME NEW t \in 1..NumSockets, NEW i \in 1..Len(queue'[t])
        PROVE  Unseen(queue'[t][i])
    BY <1>9, <1>11, <1>12
  <2>3. ASSUME NEW t \in 1..NumSockets, NEW u \in 1..NumSockets,
               NEW i \in 1..Len(queue'[t]), NEW l \in 1..Len(queue'[u]),
               queue'[t][i] = queue'[u][l]
        PROVE  t = u /\ i = l
    <3>1. \/ i \in 1..Len(queue[t]) /\ queue'[t][i] = queue[t][i] /\ queue[t][i] # new
          \/ t = s /\ i = Len(queue[s]) + 1 /\ queue'[t][i] = new
      BY <1>9, <1>11
    <3>2. \/ l \in 1..Len(queue[u]) /\ queue'[u][l] = queue[u][l] /\ queue[u][l] # new
          \/ u = s /\ l = Len(queue[s]) + 1 /\ queue'[u][l] = new
      BY <1>9, <1>11
    <3>3. CASE queue'[t][i] = new
      BY <2>3, <3>1, <3>2, <3>3
    <3>4. CASE queue'[t][i] # new
      <4>1. /\ i \in 1..Len(queue[t]) /\ l \in 1..Len(queue[u])
            /\ queue[t][i] = queue[u][l]
        BY <2>3, <3>1, <3>2, <3>4
      <4> QED BY <4>1 DEF IInv, QueueInv
    <3> QED BY <3>3, <3>4
  <2> QED BY <2>1, <2>2, <2>3 DEF QueueInv
<1>14. \A r \in DOMAIN receivers : r \in Nat \ {0} /\ delivered[r][new] = 0
  BY <1>3, Types DEF IInv, ServeInv
<1>15. ServeInv'
  <2>1. Len(kinds') <= MaxPackets
    BY <1>3
  <2>2. \A id \in Ids' : taken'[id] <= Len(receivers)
    <3>1. \A id \in Ids : taken[id] <= Len(receivers)
      BY DEF IInv, ServeInv
    <3>2. Len(receivers) \in Nat
      BY Types
    <3> QED BY <1>3, <1>5, <3>1, <3>2
  <2>3. \A r \in DOMAIN receivers : \A id \in 1..MaxPackets : id \notin Ids' => delivered[r][id] = 0
    BY <1>3 DEF IInv, ServeInv
  <2>4. \A r \in DOMAIN receivers : \A id \in Ids' :
          ~Matches(receivers[r], kinds'[id]) /\ (id \in whole' \/ id \notin reread)
             => delivered[r][id] = 0
    <3> SUFFICES ASSUME NEW r \in DOMAIN receivers, NEW id \in Ids',
                        ~Matches(receivers[r], kinds'[id]), id \in whole' \/ id \notin reread
                 PROVE  delivered[r][id] = 0
      OBVIOUS
    <3>1. CASE id = new
      BY <1>14, <3>1
    <3>2. CASE id # new
      BY <1>3, <3>2 DEF IInv, ServeInv
    <3> QED BY <3>1, <3>2
  <2>5. ASSUME NEW r \in DOMAIN receivers, NEW id \in Ids',
               r <= taken'[id], Matches(receivers[r], kinds'[id]),
               phase = "deliver" /\ id = buffer /\ id \notin reread => r < k
        PROVE  delivered[r][id] >= 1
    <3>1. id # new
      BY <1>5, <1>14, <2>5
    <3>2. id \in Ids /\ kinds'[id] = kinds[id] /\ taken'[id] = taken[id]
      BY <1>3, <1>5, <3>1
    <3> QED BY <2>5, <3>2 DEF IInv, ServeInv
  <2> QED BY <1>1, <2>1, <2>2, <2>3, <2>4, <2>5 DEF IInv, ServeInv
<1>16. RepeatInv'
  <2> SUFFICES ASSUME NEW r \in DOMAIN receivers, NEW id \in Ids'
               PROVE  /\ delivered[r][id] <= 1 + failures
                      /\ phase = "deliver" /\ id = buffer /\ r >= k => delivered[r][id] <= failures
    BY <1>1 DEF RepeatInv
  <2>1. failures \in Nat
    BY DEF IInv, TypeOK
  <2>2. CASE id = new
    BY <1>14, <2>1, <2>2
  <2>3. CASE id # new
    BY <1>3, <2>3 DEF IInv, RepeatInv
  <2> QED BY <2>2, <2>3
<1>17. CallInv'
  BY <1>1 DEF IInv, CallInv
<1>18. SeenInv'
  <2>1. buffer # new /\ (buffer \in Ids' => buffer \in Ids)
    BY <1>3, <1>12 DEF Unseen
  <2> QED BY <1>1, <1>3, <2>1 DEF IInv, SeenInv
<1>19. ErrorReturns'
  <2>1. buffer # new
    BY <1>12 DEF Unseen
  <2>2. /\ buffer \in Ids /\ kinds[buffer] = "malformed"
             => buffer \in Ids' /\ kinds'[buffer] = "malformed"
        /\ buffer \in reread \ whole => buffer \in reread \ whole'
    BY <1>3, <2>1
  <2> QED BY <1>1, <2>2 DEF IInv, ErrorReturns
<1>20. SkippedWait'
  <2>1. \A t \in 1..NumSockets : queue[t] # <<>> => queue'[t] # <<>>
    <3> SUFFICES ASSUME NEW t \in 1..NumSockets, queue[t] # <<>> PROVE queue'[t] # <<>>
      OBVIOUS
    <3>1. CASE t = s
      <4>1. Len(queue'[s]) # 0
        BY <1>6, <1>7
      <4> QED BY <3>1, <4>1
    <3>2. CASE t # s
      BY <1>8, <3>2
    <3> QED BY <3>1, <3>2
  <2>2. ready \subseteq 1..NumSockets
    BY DEF IInv, TypeOK
  <2> QED BY <1>1, <2>1, <2>2 DEF IInv, SkippedWait
<1> QED BY <1>10, <1>13, <1>15, <1>16, <1>17, <1>18, <1>19, <1>20 DEF IInv

(* A call starts to count anew, with whatever is in the buffer.            *)
LEMMA DispatchIInv ==
  ASSUME IInv, dispatch
  PROVE  IInv'
<1>1. /\ phase = "idle"
      /\ npackets' = 0 /\ read' = {} /\ counted' = {}
      /\ ready' = {s \in 1..NumSockets : queue[s] # <<>>}
      /\ UNCHANGED <<receivers, queue, kinds, whole, failures, reread, taken, delivered, k, seen>>
  BY DEF dispatch, sockets
<1>2. buffer' \in {0, buffer} /\ j' = 1 /\ phase' \in {"idle", "scan"}
  BY DEF dispatch, Return
<1>3. phase' = "idle" => result' = -1 \/ (result' = 0 /\ ready' = {})
  BY DEF dispatch, Return
<1>4. result' \in {-1} \cup Nat
  BY DEF dispatch, Return, IInv, TypeOK
<1>5. TypeOK'
  BY <1>1, <1>2, <1>4, NumSocketsAssumption DEF IInv, TypeOK, Ids
<1>6. QueueInv'
  <2>1. ASSUME NEW s \in 1..NumSockets, NEW i \in 1..Len(queue[s])
        PROVE  Unseen(queue[s][i])'
    <3>1. queue[s][i] \in Ids /\ Unseen(queue[s][i]) /\ queue[s][i] # 0
      BY Queued
    <3> QED BY <1>1, <1>2, <3>1 DEF Unseen
  <2> QED BY <1>1, <2>1 DEF IInv, QueueInv
<1>7. ServeInv'
  BY <1>1, <1>2 DEF IInv, ServeInv, Ids
<1>8. RepeatInv'
  BY <1>1, <1>2 DEF IInv, RepeatInv, Ids
<1>9. CallInv'
  <2>1. IsFiniteSet(counted') /\ Cardinality(counted') = 0
    BY <1>1, FS_EmptySet
  <2>2. failures \in Nat /\ ready' \subseteq 1..NumSockets
    BY <1>1 DEF IInv, TypeOK
  <2>3. phase' = "scan" => read' = {s \in ready' : s < j'}
    BY <1>1, <1>2, <2>2
  <2> QED BY <1>1, <1>2, <1>3, <2>1, <2>2, <2>3 DEF CallInv
<1>10. SeenInv' /\ ErrorReturns' /\ SkippedWait'
  BY <1>1, <1>2 DEF IInv, SeenInv, ErrorReturns, SkippedWait
<1> QED BY <1>5, <1>6, <1>7, <1>8, <1>9, <1>10 DEF IInv

(* A socket is passed over, or the call returns what it has counted.       *)
LEMMA NextSocketIInv ==
  ASSUME IInv, nextSocket
  PROVE  IInv'
<1>1. /\ phase = "scan" /\ j \notin ready
      /\ UNCHANGED <<receivers, queue, kinds, whole, ready, k, buffer, seen, npackets,
                     failures, reread, taken, read, counted, delivered>>
  BY DEF nextSocket, sockets
<1>2. \/ j <= NumSockets /\ j' = j + 1 /\ UNCHANGED <<phase, result>>
      \/ ~(j <= NumSockets) /\ phase' = "idle" /\ result' = npackets /\ j' = 1
  BY DEF nextSocket, Return
<1>3. j \in 1..(NumSockets + 1) /\ NumSockets \in Nat /\ ready \subseteq 1..NumSockets
      /\ npackets \in Nat
  BY NumSocketsAssumption DEF IInv, TypeOK
<1>4. TypeOK'
  <2>1. j' \in 1..(NumSockets + 1) /\ result' \in {-1} \cup Nat /\ phase' \in {"idle", "scan", "deliver"}
    BY <1>1, <1>2, <1>3 DEF IInv, TypeOK
  <2> QED BY <1>1, <2>1 DEF IInv, TypeOK, Ids
<1>5. QueueInv'
  <2>1. \A id : Unseen(id)' <=> Unseen(id)
    BY <1>1 DEF Unseen
  <2>2. QueueInv
    BY DEF IInv
  <2> QED BY <1>1, <2>1, <2>2 DEF QueueInv
<1>6. phase' # "deliver" /\ (phase' = "idle" => result' # -1)
  BY <1>1, <1>2, <1>3
<1>8. SeenInv' /\ ErrorReturns' /\ SkippedWait'
  BY <1>1, <1>6 DEF IInv, SeenInv, ErrorReturns, SkippedWait
<1>9. ServeInv' /\ RepeatInv'
  BY <1>1, <1>6 DEF IInv, ServeInv, RepeatInv, Ids
<1>7. CallInv'
  <2>1. read = {s \in ready : s < j}
    BY <1>1 DEF IInv, CallInv
  <2>2. ASSUME phase' = "scan" PROVE read' = {s \in ready' : s < j'}
    <3>1. j' = j + 1 /\ ready' = ready /\ read' = read
      BY <1>1, <1>2, <2>2
    <3>2. \A s \in ready : s < j <=> s < j + 1
      <4> SUFFICES ASSUME NEW s \in ready PROVE s < j <=> s < j + 1
        OBVIOUS
      <4>1. s \in Int /\ j \in Int /\ s # j
        BY <1>1, <1>3
      <4> QED BY <4>1
    <3> QED BY <2>1, <3>1, <3>2
  <2>3. ASSUME phase' = "idle" PROVE npackets' = result' /\ read' = ready'
    <3>1. ~(j <= NumSockets) /\ result' = npackets
      BY <1>1, <1>2, <2>3
    <3>2. \A s \in ready : s < j
      BY <1>3, <3>1
    <3> QED BY <1>1, <2>1, <3>1, <3>2
  <2> QED BY <1>1, <1>2, <2>2, <2>3 DEF IInv, CallInv
<1> QED BY <1>4, <1>5, <1>7, <1>8, <1>9 DEF IInv

(* What becomes of the packet in the buffer: the call ends, the loop goes  *)
(* on to the next socket, or the receivers come next.                      *)
LEMMA ClassifyOutcomes ==
  ASSUME IInv, phase = "scan", NEW kind \in Kinds, Classify(kind)
  PROVE  /\ k = 1 /\ k' = 1
         /\ npackets' = IF Counts(kind) THEN npackets + 1 ELSE npackets
         /\ \/ kind = "malformed" /\ phase' = "idle" /\ result' = -1 /\ j' = 1 /\ seen' = seen
            \/ kind = "invalid" /\ phase' = "scan" /\ result' = result /\ j' = j + 1 /\ seen' = seen
            \/ /\ kind \notin {"malformed", "invalid"}
               /\ phase' = "deliver" /\ result' = result /\ j' = j /\ seen' = kind
<1>1. k = 1
  BY DEF IInv, ServeInv
<1>2. CASE kind = "malformed"
  BY <1>1, <1>2 DEF Classify, Return
<1>3. CASE kind = "invalid"
  BY <1>1, <1>3 DEF Classify
<1>4. CASE kind \notin {"malformed", "invalid"}
  BY <1>1, <1>4 DEF Classify
<1> QED BY <1>2, <1>3, <1>4

(* The socket that has been read is the last one up to here.               *)
LEMMA ReadOneMore ==
  ASSUME IInv, phase = "scan", j \in ready
  PROVE  /\ read \cup {j} = {s \in ready : s <= j}
         /\ read \cup {j} = {s \in ready : s < j + 1}
<1>1. read = {s \in ready : s < j}
  BY DEF IInv, CallInv
<1>2. j \in Int /\ \A s \in ready : s \in Int
  BY NumSocketsAssumption DEF IInv, TypeOK
<1>3. \A s \in ready : (s <= j <=> s < j \/ s = j) /\ (s < j + 1 <=> s < j \/ s = j)
  BY <1>2
<1> QED BY <1>1, <1>3

(* recvfrom takes the first packet of a socket.                            *)
LEMMA ReceiveIInv ==
  ASSUME IInv, receive
  PROVE  IInv'
<1> DEFINE b == Head(queue[j])
           q == queue[j]
<1>1. /\ phase = "scan" /\ j \in ready /\ q # <<>>
      /\ buffer' = b
      /\ queue' = [queue EXCEPT ![j] = Tail(@)]
      /\ taken' = [taken EXCEPT ![b] = Len(receivers)]
      /\ counted' = IF Counts(kinds[b]) THEN counted \cup {b} ELSE counted
      /\ read' = read \cup {j}
      /\ Classify(kinds[b])
      /\ UNCHANGED <<receivers, kinds, whole, ready, failures, reread, delivered>>
  BY DEF receive
<1>2. j \in 1..NumSockets /\ NumSockets \in Nat /\ j \in Nat /\ ready \subseteq 1..NumSockets
      /\ npackets \in Nat /\ result \in {-1} \cup Nat /\ failures \in Nat
  BY <1>1, NumSocketsAssumption DEF IInv, TypeOK
<1>3. q \in Seq(Ids) /\ Len(q) \in Nat /\ DOMAIN queue = 1..NumSockets
  BY <1>2, Types DEF IInv, TypeOK
<1>4. Len(q) >= 1 /\ b = q[1] /\ Tail(q) \in Seq(Ids) /\ Len(Tail(q)) = Len(q) - 1
      /\ \A i \in 1..(Len(q) - 1) : Tail(q)[i] = q[i + 1]
  <2> HIDE DEF q
  <2> QED BY <1>1, <1>3 DEF q
<1>5. b \in Ids /\ b \in 1..MaxPackets /\ b # 0 /\ Unseen(b)
  <2>1. 1 \in 1..Len(queue[j])
    BY <1>3, <1>4
  <2>2. /\ queue[j][1] \in Ids /\ queue[j][1] \in 1..MaxPackets
        /\ queue[j][1] # 0 /\ Unseen(queue[j][1])
    BY <1>2, <2>1, Queued
  <2> QED BY <1>4, <2>2
<1>6. kinds[b] \in Kinds /\ Ids' = Ids
  <2>1. kinds \in Seq(Kinds)
    BY DEF IInv, TypeOK
  <2> QED BY <1>1, <1>5, <2>1, ElementOfSeq, LenProperties DEF Ids
<1>7. queue'[j] = Tail(q) /\ \A t \in 1..NumSockets : t # j => queue'[t] = queue[t]
  BY <1>1, <1>2, <1>3
<1>8. queue' \in [1..NumSockets -> Seq(Ids)]
  <2>1. \A t \in 1..NumSockets : queue[t] \in Seq(Ids)
    BY Types
  <2> QED BY <1>1, <1>2, <1>3, <1>4, <2>1
<1>9. /\ \A id \in Ids : id # b => taken'[id] = taken[id]
      /\ taken'[b] = Len(receivers)
      /\ taken' \in [Ids -> Nat]
  <2>1. taken \in [Ids -> Nat] /\ Len(receivers) \in Nat
    BY Types DEF IInv, TypeOK
  <2> QED BY <1>1, <1>5, <2>1
<1>12. /\ k = 1 /\ k' = 1
       /\ npackets' = IF Counts(kinds[b]) THEN npackets + 1 ELSE npackets
       /\ \/ /\ kinds[b] = "malformed"
             /\ phase' = "idle" /\ result' = -1 /\ j' = 1 /\ seen' = seen
          \/ /\ kinds[b] = "invalid"
             /\ phase' = "scan" /\ result' = result /\ j' = j + 1 /\ seen' = seen
          \/ /\ kinds[b] \notin {"malformed", "invalid"}
             /\ phase' = "deliver" /\ result' = result /\ j' = j /\ seen' = kinds[b]
  BY <1>1, <1>6, ClassifyOutcomes
<1> HIDE DEF b, q
<1>13. TypeOK'
  <2>1. counted' \subseteq Ids
    BY <1>1, <1>5 DEF IInv, TypeOK
  <2>2. read' \subseteq ready'
    BY <1>1 DEF IInv, TypeOK
  <2>3. j' \in 1..(NumSockets + 1) /\ k' \in Nat /\ npackets' \in Nat /\ result' \in {-1} \cup Nat
    BY <1>2, <1>12
  <2>4. phase' \in {"idle", "scan", "deliver"}
    BY <1>12
  <2>5. seen' \in Kinds
    BY <1>6, <1>12 DEF IInv, TypeOK
  <2> QED BY <1>1, <1>5, <1>6, <1>8, <1>9, <2>1, <2>2, <2>3, <2>4, <2>5 DEF IInv, TypeOK
<1>14. \A t \in 1..NumSockets : \A i \in 1..Len(queue'[t]) :
          \/ t # j /\ i \in 1..Len(queue[t]) /\ queue'[t][i] = queue[t][i]
          \/ t = j /\ i + 1 \in 1..Len(queue[t]) /\ queue'[t][i] = queue[t][i + 1]
  <2> SUFFICES ASSUME NEW t \in 1..NumSockets, NEW i \in 1..Len(queue'[t])
               PROVE  \/ t # j /\ i \in 1..Len(queue[t]) /\ queue'[t][i] = queue[t][i]
                      \/ t = j /\ i + 1 \in 1..Len(queue[t]) /\ queue'[t][i] = queue[t][i + 1]
    OBVIOUS
  <2>1. CASE t = j
    <3>1. i \in 1..(Len(q) - 1)
      BY <1>4, <1>7, <2>1
    <3>2. i + 1 \in 1..Len(q)
      BY <1>3, <3>1
    <3>3. queue'[t][i] = q[i + 1]
      BY <1>4, <1>7, <2>1, <3>1
    <3> QED BY <2>1, <3>2, <3>3 DEF q
  <2>2. CASE t # j
    BY <1>7, <2>2
  <2> QED BY <2>1, <2>2
<1>15. QueueInv'
  <2>1. ASSUME NEW t \in 1..NumSockets, NEW i \in 1..Len(queue'[t]),
               NEW u \in 1..NumSockets, NEW l \in 1..Len(queue'[u]),
               queue'[t][i] = queue'[u][l]
        PROVE  t = u /\ i = l
    <3>1. \/ t # j /\ i \in 1..Len(queue[t]) /\ queue'[t][i] = queue[t][i]
          \/ t = j /\ i + 1 \in 1..Len(queue[t]) /\ queue'[t][i] = queue[t][i + 1]
      BY <1>14
    <3>2. \/ u # j /\ l \in 1..Len(queue[u]) /\ queue'[u][l] = queue[u][l]
          \/ u = j /\ l + 1 \in 1..Len(queue[u]) /\ queue'[u][l] = queue[u][l + 1]
      BY <1>14
    <3>3. i \in Int /\ l \in Int
      OBVIOUS
    <3> QED BY <2>1, <3>1, <3>2, <3>3 DEF IInv, QueueInv
  <2>2. ASSUME NEW t \in 1..NumSockets, NEW i \in 1..Len(queue'[t])
        PROVE  queue'[t][i] # b /\ Unseen(queue'[t][i])
    <3>1. PICK m \in 1..Len(queue[t]) : queue'[t][i] = queue[t][m] /\ (t = j => m # 1)
      <4>1. i \in Int /\ i >= 1
        OBVIOUS
      <4> QED BY <1>14, <4>1
    <3>2. 1 \in 1..Len(queue[j]) /\ b = queue[j][1]
      BY <1>3, <1>4 DEF q
    <3>3. queue[t][m] # queue[j][1]
      BY <1>2, <3>1, <3>2 DEF IInv, QueueInv
    <3> QED BY <3>1, <3>2, <3>3, Queued
  <2>3. ASSUME NEW id, id # b, Unseen(id)
        PROVE  Unseen(id)'
    BY <1>1, <2>3 DEF Unseen
  <2> QED BY <2>1, <2>2, <2>3 DEF QueueInv
<1>16. \A r \in DOMAIN receivers : r \in Nat /\ r >= 1
  BY Types
<1>17. ServeInv'
  <2>1. \A id \in Ids : taken'[id] <= Len(receivers)
    <3>1. \A id \in Ids : taken[id] <= Len(receivers)
      BY DEF IInv, ServeInv
    <3>2. Len(receivers) \in Nat
      BY Types
    <3> QED BY <1>9, <3>1, <3>2
  <2>2. ASSUME NEW r \in DOMAIN receivers, NEW id \in Ids,
               r <= taken'[id], Matches(receivers[r], kinds[id]),
               phase' = "deliver" /\ id = buffer' /\ id \notin reread => r < k'
        PROVE  delivered[r][id] >= 1
    <3>1. id # b
      <4> SUFFICES ASSUME id = b PROVE FALSE
        OBVIOUS
      <4>1. kinds[b] \notin {"malformed", "invalid"}
        <5>1. receivers[r] \in Protocols
          BY Types, ElementOfSeq DEF IInv, TypeOK
        <5> QED BY <2>2, <5>1 DEF Matches, Protocols
      <4>2. b \notin reread
        BY <1>5 DEF Unseen
      <4>3. r < 1
        BY <1>1, <1>12, <2>2, <4>1, <4>2
      <4> QED BY <1>16, <4>3
    <3>2. r <= taken[id]
      BY <1>9, <2>2, <3>1
    <3> QED BY <1>1, <2>2, <3>2 DEF IInv, ServeInv
  <2> QED BY <1>1, <1>6, <1>12, <2>1, <2>2 DEF IInv, ServeInv
<1>18. RepeatInv'
  <2>1. \A r \in DOMAIN receivers : delivered[r][b] = 0
    BY <1>5 DEF Unseen
  <2>2. failures \in Nat
    BY <1>2
  <2> QED BY <1>1, <1>6, <2>1, <2>2 DEF IInv, RepeatInv
<1>19. CallInv'
  <2>1. /\ IsFiniteSet(counted) /\ Cardinality(counted) <= npackets
        /\ npackets <= Cardinality(counted) + failures
    BY DEF IInv, CallInv
  <2>2. b \notin counted
    BY <1>5 DEF Unseen
  <2>3. Cardinality(counted) \in Nat
    BY <2>1, FS_CardinalityType
  <2>4. IsFiniteSet(counted \cup {b}) /\ Cardinality(counted \cup {b}) = Cardinality(counted) + 1
    BY <2>1, <2>2, FS_AddElement
  <2>6. /\ IsFiniteSet(counted') /\ Cardinality(counted') <= npackets'
        /\ npackets' <= Cardinality(counted') + failures
    BY <1>1, <1>2, <1>12, <2>1, <2>3, <2>4
  <2>7. /\ read' = {s \in ready : s <= j}
        /\ read' = {s \in ready : s < j + 1}
    BY <1>1, ReadOneMore
  <2>8. phase' = "idle" => result' = -1
    BY <1>12
  <2>9. phase' = "scan" => j' = j + 1
    BY <1>12
  <2>10. phase' = "deliver" => j' = j
    BY <1>12
  <2> QED BY <1>1, <2>6, <2>7, <2>8, <2>9, <2>10 DEF CallInv
<1>20. SeenInv'
  BY <1>1, <1>12 DEF SeenInv
<1>21. ErrorReturns'
  <2>1. ASSUME phase' = "idle" PROVE kinds[b] = "malformed"
    BY <1>12, <2>1
  <2>2. read' = {s \in ready : s <= j} /\ j \in read'
    BY <1>1, ReadOneMore
  <2> QED BY <1>1, <1>5, <1>6, <2>1, <2>2 DEF ErrorReturns
<1>22. SkippedWait'
  <2> SUFFICES ASSUME NEW s \in ready, s \notin read' PROVE queue'[s] # <<>>
    BY <1>1 DEF SkippedWait
  <2>1. s # j /\ s \notin read /\ s \in 1..NumSockets
    BY <1>1, <1>2
  <2> QED BY <1>7, <2>1 DEF IInv, SkippedWait
<1> QED BY <1>13, <1>15, <1>17, <1>18, <1>19, <1>20, <1>21, <1>22 DEF IInv

(* recvfrom fails: what is in the buffer is evaluated and may count once   *)
(* more, and so does the failure.                                          *)
LEMMA ReceiveFailsIInv ==
  ASSUME IInv, receiveFails
  PROVE  IInv'
<1>1. /\ phase = "scan" /\ j \in ready
      /\ failures' = failures + 1
      /\ reread' = reread \cup {buffer}
      /\ buffer' = buffer
      /\ read' = read \cup {j}
      /\ UNCHANGED <<receivers, queue, kinds, whole, ready, taken, counted, delivered>>
  BY DEF receiveFails, sockets
<1>2. j \in 1..NumSockets /\ NumSockets \in Nat /\ j \in Nat /\ ready \subseteq 1..NumSockets
      /\ npackets \in Nat /\ result \in {-1} \cup Nat /\ failures \in Nat
  BY <1>1, NumSocketsAssumption DEF IInv, TypeOK
<1>10. /\ kinds \in Seq(Kinds) /\ buffer \in {0} \cup Ids /\ whole \subseteq Ids
  BY DEF IInv, TypeOK
<1>11. PICK kind \in Evaluations(buffer) : Classify(kind)
  BY DEF receiveFails
<1>12. kind \in Kinds /\ (buffer \in whole => kind = kinds[buffer])
  <2>1. buffer \in whole => kinds[buffer] \in Kinds
    BY <1>10, ElementOfSeq, LenProperties DEF Ids
  <2> QED BY <1>11, <2>1 DEF Evaluations
<1>3. /\ k = 1 /\ k' = 1
      /\ npackets' \in {npackets, npackets + 1}
      /\ \/ kind = "malformed" /\ phase' = "idle" /\ result' = -1 /\ j' = 1 /\ seen' = seen
         \/ phase' = "scan" /\ result' = result /\ j' = j + 1 /\ seen' = seen
         \/ /\ kind \notin {"malformed", "invalid"}
            /\ phase' = "deliver" /\ result' = result /\ j' = j /\ seen' = kind
  BY <1>1, <1>11, <1>12, ClassifyOutcomes
<1>4. Ids' = Ids
  BY <1>1 DEF Ids
<1>5. TypeOK'
  <2>1. read' \subseteq ready
    BY <1>1 DEF IInv, TypeOK
  <2>2. /\ j' \in 1..(NumSockets + 1) /\ k' \in Nat /\ npackets' \in Nat
        /\ result' \in {-1} \cup Nat /\ failures' \in Nat
        /\ phase' \in {"idle", "scan", "deliver"}
    BY <1>1, <1>2, <1>3
  <2>3. seen' \in Kinds /\ reread' \subseteq {0} \cup Ids
    BY <1>1, <1>3, <1>10, <1>12 DEF IInv, TypeOK
  <2> QED BY <1>1, <1>4, <2>1, <2>2, <2>3 DEF IInv, TypeOK
<1>6. QueueInv'
  <2>1. \A id : Unseen(id) => Unseen(id)'
    BY <1>1 DEF Unseen
  <2> QED BY <1>1, <2>1 DEF IInv, QueueInv
<1>7. ServeInv'
  <2>1. ASSUME NEW r \in DOMAIN receivers, NEW id \in Ids,
               r <= taken[id], Matches(receivers[r], kinds[id])
        PROVE  delivered[r][id] >= 1
    BY <1>1, <2>1 DEF IInv, ServeInv
  <2> QED BY <1>1, <1>3, <1>4, <2>1 DEF IInv, ServeInv
<1>8. RepeatInv'
  <2> SUFFICES ASSUME NEW r \in DOMAIN receivers, NEW id \in Ids
               PROVE  delivered[r][id] <= failures + 1 /\ delivered[r][id] <= 1 + (failures + 1)
    BY <1>1, <1>4 DEF RepeatInv
  <2>1. delivered[r][id] \in Nat /\ delivered[r][id] <= 1 + failures
    <3>1. id \in 1..MaxPackets /\ delivered[r] \in [1..MaxPackets -> Nat]
      BY Types
    <3> QED BY <3>1 DEF IInv, RepeatInv
  <2> QED BY <1>2, <2>1
<1>9. CallInv'
  <2>1. /\ IsFiniteSet(counted) /\ Cardinality(counted) <= npackets
        /\ npackets <= Cardinality(counted) + failures
    BY DEF IInv, CallInv
  <2>2. Cardinality(counted) \in Nat
    BY <2>1, FS_CardinalityType
  <2>3. /\ Cardinality(counted) <= npackets'
        /\ npackets' <= Cardinality(counted) + failures'
    BY <1>1, <1>2, <1>3, <2>1, <2>2
  <2>4. /\ read' = {s \in ready : s <= j}
        /\ read' = {s \in ready : s < j + 1}
    BY <1>1, ReadOneMore
  <2>6. /\ phase' = "idle" => result' = -1
        /\ phase' = "scan" => j' = j + 1
        /\ phase' = "deliver" => j' = j
    BY <1>3
  <2> QED BY <1>1, <2>1, <2>3, <2>4, <2>6 DEF CallInv
<1>13. SeenInv'
  BY <1>1, <1>3, <1>4, <1>12 DEF SeenInv
<1>14. ErrorReturns'
  <2>1. phase' = "idle" => kind = "malformed"
    BY <1>3
  <2>2. read' = {s \in ready : s <= j} /\ j \in read'
    BY <1>1, ReadOneMore
  <2>3. CASE buffer \in whole
    BY <1>1, <1>4, <1>10, <1>12, <2>1, <2>2, <2>3 DEF ErrorReturns
  <2>4. CASE buffer \notin whole
    BY <1>1, <2>2, <2>4 DEF ErrorReturns
  <2> QED BY <2>3, <2>4
<1>15. SkippedWait'
  BY <1>1 DEF IInv, SkippedWait
<1> QED BY <1>5, <1>6, <1>7, <1>8, <1>9, <1>13, <1>14, <1>15 DEF IInv

(* The next receiver gets the packet in the buffer if it matches, or the   *)
(* loop over the sockets goes on.                                          *)
LEMMA DeliverIInv ==
  ASSUME IInv, deliver
  PROVE  IInv'
<1>1. /\ phase = "deliver"
      /\ UNCHANGED <<receivers, queue, kinds, whole, ready, buffer, npackets, result,
                     failures, reread, taken, read, counted>>
  BY DEF deliver, sockets
<1>2. \/ /\ k <= Len(receivers)
         /\ delivered' = IF Matches(receivers[k], seen) /\ buffer # 0
                         THEN [delivered EXCEPT ![k][buffer] = @ + 1] ELSE delivered
         /\ k' = k + 1 /\ phase' = "deliver" /\ j' = j /\ seen' = seen
      \/ /\ ~(k <= Len(receivers))
         /\ phase' = "scan" /\ j' = j + 1 /\ k' = 1 /\ delivered' = delivered
         /\ seen' = "invalid"
  BY <1>1 DEF deliver, Callback, AllServed
<1>3. /\ buffer # 0 => buffer \in Ids /\ buffer \in 1..MaxPackets
      /\ j \in ready /\ j \in 1..NumSockets /\ NumSockets \in Nat /\ k \in Nat
      /\ ready \subseteq 1..NumSockets
  <2>1. buffer \in {0} \cup Ids /\ j \in ready /\ k \in Nat /\ ready \subseteq 1..NumSockets
    BY <1>1 DEF IInv, TypeOK, CallInv
  <2> QED BY <2>1, Types
<1>4. /\ DOMAIN receivers = 1..Len(receivers) /\ Len(receivers) \in Nat
      /\ delivered \in [DOMAIN receivers -> [1..MaxPackets -> Nat]]
      /\ Ids' = Ids
  BY <1>1, Types DEF IInv, TypeOK, Ids
(* A count changes only for the next receiver and the packet it gets.      *)
<1>5. ASSUME NEW r \in DOMAIN receivers, NEW id \in 1..MaxPackets
      PROVE  /\ delivered[r][id] \in Nat
             /\ \/ delivered'[r][id] = delivered[r][id]
                \/ /\ r = k /\ id = buffer /\ delivered'[r][id] = delivered[r][id] + 1
                   /\ Matches(receivers[r], seen) /\ k' = k + 1 /\ phase' = "deliver"
             /\ r = k /\ id = buffer /\ Matches(receivers[r], seen)
                  => delivered'[r][id] = delivered[r][id] + 1
  <2>1. delivered[r] \in [1..MaxPackets -> Nat] /\ delivered[r][id] \in Nat
    BY <1>4
  <2>0. id # 0
    BY Types
  <2>2. CASE k <= Len(receivers) /\ Matches(receivers[k], seen) /\ buffer # 0
    <3>1. delivered' = [delivered EXCEPT ![k][buffer] = @ + 1] /\ k' = k + 1 /\ phase' = "deliver"
      BY <1>2, <2>2
    <3>2. r # k => delivered'[r] = delivered[r]
      BY <1>4, <3>1
    <3>3. r = k => delivered'[r] = [delivered[r] EXCEPT ![buffer] = delivered[r][buffer] + 1]
      BY <1>4, <3>1
    <3> QED BY <1>3, <2>1, <2>2, <3>1, <3>2, <3>3
  <2>3. CASE ~(k <= Len(receivers) /\ Matches(receivers[k], seen) /\ buffer # 0)
    <3>1. delivered' = delivered
      BY <1>2, <2>3
    <3>2. ~(r = k /\ id = buffer /\ Matches(receivers[r], seen))
      BY <1>4, <2>0, <2>3
    <3> QED BY <2>1, <3>1, <3>2
  <2> QED BY <2>2, <2>3
<1>6. delivered' \in [DOMAIN receivers -> [1..MaxPackets -> Nat]]
  <2>1. CASE delivered' = delivered
    BY <1>4, <2>1
  <2>2. CASE k <= Len(receivers) /\ buffer # 0 /\ delivered' = [delivered EXCEPT ![k][buffer] = @ + 1]
    <3> DEFINE row == [delivered[k] EXCEPT ![buffer] = delivered[k][buffer] + 1]
    <3>1. ASSUME k \in DOMAIN receivers PROVE row \in [1..MaxPackets -> Nat]
      <4>1. delivered[k] \in [1..MaxPackets -> Nat]
        BY <1>4, <3>1
      <4>2. delivered[k][buffer] \in Nat
        BY <1>3, <2>2, <4>1, Zenon
      <4>3. delivered[k][buffer] + 1 \in Nat
        BY <4>2
      <4> QED BY <1>3, <2>2, <4>1, <4>3
    <3>2. delivered' = [delivered EXCEPT ![k] = row]
      BY <2>2
    <3> HIDE DEF row
    <3> QED BY <1>4, <3>1, <3>2
  <2> QED BY <1>2, <2>1, <2>2
<1>7. TypeOK'
  <2>1. j' \in 1..(NumSockets + 1) /\ k' \in Nat /\ phase' \in {"idle", "scan", "deliver"}
    BY <1>2, <1>3
  <2>2. seen' \in Kinds
    BY <1>2 DEF IInv, TypeOK, Kinds
  <2> QED BY <1>1, <1>4, <1>6, <2>1, <2>2 DEF IInv, TypeOK
<1>8. QueueInv'
  <2>1. ASSUME NEW s \in 1..NumSockets, NEW i \in 1..Len(queue[s])
        PROVE  Unseen(queue[s][i])'
    <3>1. queue[s][i] \in 1..MaxPackets /\ Unseen(queue[s][i])
      BY Queued
    <3>2. queue[s][i] # buffer
      BY <3>1 DEF Unseen
    <3>3. \A r \in DOMAIN receivers : delivered'[r][queue[s][i]] = delivered[r][queue[s][i]]
      BY <1>5, <3>1, <3>2
    <3> QED BY <1>1, <3>1, <3>3 DEF Unseen
  <2> QED BY <1>1, <2>1 DEF IInv, QueueInv
<1>9. \A r \in DOMAIN receivers : r \in Nat /\ r >= 1 /\ r <= Len(receivers)
  BY <1>4
<1>10. Ids \subseteq 1..MaxPackets
  BY Types
<1>11. ServeInv'
  <2>1. phase' # "deliver" => k' = 1
    BY <1>2
  <2>2. ASSUME NEW r \in DOMAIN receivers, NEW id \in 1..MaxPackets, id \notin Ids
        PROVE  delivered'[r][id] = 0
    <3>1. delivered[r][id] = 0 /\ id # buffer
      BY <1>3, <2>2, Types DEF IInv, ServeInv
    <3> QED BY <1>5, <3>1
  <2>3. ASSUME NEW r \in DOMAIN receivers, NEW id \in Ids,
               ~Matches(receivers[r], kinds[id]), id \in whole \/ id \notin reread
        PROVE  delivered'[r][id] = 0
    <3>1. delivered[r][id] = 0
      BY <2>3 DEF IInv, ServeInv
    <3>2. id = buffer => ~Matches(receivers[r], seen)
      BY <1>1, <2>3 DEF IInv, SeenInv
    <3> QED BY <1>5, <1>10, <3>1, <3>2
  <2>4. ASSUME NEW r \in DOMAIN receivers, NEW id \in Ids,
               r <= taken[id], Matches(receivers[r], kinds[id]),
               phase' = "deliver" /\ id = buffer /\ id \notin reread => r < k'
        PROVE  delivered'[r][id] >= 1
    <3>1. /\ delivered[r][id] \in Nat
          /\ delivered'[r][id] = delivered[r][id] \/ delivered'[r][id] = delivered[r][id] + 1
      BY <1>5, <1>10
    <3>2. CASE id # buffer \/ id \in reread
      <4>1. delivered[r][id] >= 1
        BY <2>4, <3>2 DEF IInv, ServeInv
      <4> QED BY <3>1, <4>1
    <3>3. CASE id = buffer /\ r < k
      <4>1. delivered[r][id] >= 1
        BY <2>4, <3>3 DEF IInv, ServeInv
      <4> QED BY <3>1, <4>1
    <3>4. CASE id = buffer /\ id \notin reread /\ ~(r < k)
      <4>1. phase' = "deliver" /\ r < k'
        BY <1>2, <1>3, <1>9, <2>4, <3>4
      <4>2. r = k
        BY <1>2, <1>3, <1>9, <3>4, <4>1
      <4>3. seen = kinds[id]
        BY <1>1, <3>4 DEF IInv, SeenInv
      <4> QED BY <1>5, <1>10, <2>4, <3>1, <3>4, <4>2, <4>3
    <3> QED BY <3>2, <3>3, <3>4
  <2> QED BY <1>1, <1>4, <2>1, <2>2, <2>3, <2>4 DEF IInv, ServeInv
<1>12. RepeatInv'
  <2> SUFFICES ASSUME NEW r \in DOMAIN receivers, NEW id \in Ids
               PROVE  /\ delivered'[r][id] <= 1 + failures
                      /\ phase' = "deliver" /\ id = buffer /\ r >= k'
                            => delivered'[r][id] <= failures
    BY <1>1, <1>4 DEF RepeatInv
  <2>0. failures \in Nat /\ delivered[r][id] \in Nat
    BY <1>5, <1>10 DEF IInv, TypeOK
  <2>1. /\ delivered[r][id] <= 1 + failures
        /\ id = buffer /\ r >= k => delivered[r][id] <= failures
    BY <1>1 DEF IInv, RepeatInv
  <2>2. CASE delivered'[r][id] = delivered[r][id]
    <3>1. phase' = "deliver" /\ r >= k' => r >= k
      BY <1>2, <1>3, <1>9
    <3> QED BY <2>1, <2>2, <3>1
  <2>3. CASE /\ r = k /\ id = buffer /\ delivered'[r][id] = delivered[r][id] + 1
             /\ k' = k + 1
    <3>1. delivered[r][id] <= failures /\ ~(r >= k')
      BY <1>3, <2>1, <2>3
    <3> QED BY <2>0, <2>3, <3>1
  <2> QED BY <1>5, <1>10, <2>2, <2>3
<1>13. CallInv'
  <2>1. read = {s \in ready : s <= j}
    BY <1>1 DEF IInv, CallInv
  <2>2. \A s \in ready : s <= j <=> s < j + 1
    BY <1>3
  <2>3. read = {s \in ready : s < j + 1}
    BY <2>1, <2>2
  <2>4. /\ phase' = "deliver" => j' = j
        /\ phase' = "scan" => j' = j + 1
        /\ phase' # "idle"
    BY <1>2
  <2> QED BY <1>1, <1>3, <2>1, <2>3, <2>4 DEF IInv, CallInv
<1>14. SeenInv'
  BY <1>1, <1>2, <1>4 DEF IInv, SeenInv
<1>15. ErrorReturns' /\ SkippedWait'
  BY <1>1, <1>2 DEF IInv, ErrorReturns, SkippedWait
<1> QED BY <1>7, <1>8, <1>11, <1>12, <1>13, <1>14, <1>15 DEF IInv

(* Every step keeps the invariant.                                         *)
LEMMA NextIInv ==
  ASSUME IInv, [Next]_vars
  PROVE  IInv'
<1>1. ASSUME NEW protocol \in Protocols, registerReceiver(protocol) PROVE IInv'
  BY <1>1, RegisterIInv
<1>2. ASSUME NEW s \in 1..NumSockets, NEW form \in Forms, arrive(s, form[1], form[2]) PROVE IInv'
  <2>1. form[1] \in Kinds /\ form[2] \in BOOLEAN
    BY FormsAssumption
  <2> QED BY <1>2, <2>1, ArriveIInv
<1>3. CASE dispatch
  BY <1>3, DispatchIInv
<1>4. CASE receive
  BY <1>4, ReceiveIInv
<1>5. CASE receiveFails
  BY <1>5, ReceiveFailsIInv
<1>6. CASE nextSocket
  BY <1>6, NextSocketIInv
<1>7. CASE deliver
  BY <1>7, DeliverIInv
<1>8. CASE UNCHANGED vars
  BY <1>8 DEF vars, sockets, call, IInv, TypeOK, QueueInv, Unseen, SeenInv, ServeInv, RepeatInv,
              CallInv, ErrorReturns, SkippedWait, Ids
<1> QED BY <1>1, <1>2, <1>3, <1>4, <1>5, <1>6, <1>7, <1>8 DEF Next, Network, Step

(* The invariant holds in every state.                                     *)
LEMMA SpecIInv == Spec => []IInv
BY InitIInv, NextIInv, PTL DEF Spec

-----------------------------------------------------------------------------
(* When no packet is being delivered, every receiver registered for a      *)
(* packet that was received has got it; a receiver of another protocol     *)
(* does not get it, unless a failed recvfrom made dispatch evaluate it     *)
(* again and it has no end-of-data tag, for any number of sockets,         *)
(* receivers and failures.                                                 *)
THEOREM ReceiversAreServed == Spec => []ReceiversServed
<1>1. IInv => ReceiversServed
  BY DEF IInv, ServeInv, ReceiversServed
<1> QED BY <1>1, SpecIInv, PTL

(* A receiver gets a packet once, and once more for each failure of        *)
(* recvfrom at most.                                                       *)
THEOREM NothingRepeated == Spec => []NoRepeat
<1>1. IInv => NoRepeat
  BY DEF IInv, RepeatInv, NoRepeat
<1> QED BY <1>1, SpecIInv, PTL

(* The types, and what a call does: it counts the meter, inverter and      *)
(* encryption packets that it receives, too many only by failures of       *)
(* recvfrom, and reads each socket that poll found ready; if it returns an *)
(* error instead, poll failed or it stopped at a malformed inverter packet *)
(* (or one evaluated again), and the sockets behind that keep their        *)
(* packets.                                                                *)
THEOREM CallsAccounted == Spec => []CallAccounted
<1>1. IInv => CallAccounted
  <2> SUFFICES ASSUME IInv PROVE CallAccounted
    OBVIOUS
  <2>1. TypeOK
    BY DEF IInv
  <2>2. CountsPackets
    BY DEF IInv, CallInv, CountsPackets
  <2>3. ReadySocketsRead
    BY DEF IInv, CallInv, ReadySocketsRead
  <2>4. ErrorReturns /\ SkippedWait
    BY DEF IInv
  <2> QED BY <2>1, <2>2, <2>3, <2>4 DEF CallAccounted
<1> QED BY <1>1, SpecIInv, PTL

=============================================================================
