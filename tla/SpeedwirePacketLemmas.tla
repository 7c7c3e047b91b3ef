------------------------ MODULE SpeedwirePacketLemmas ------------------------
(***************************************************************************)
(* Lemmas about the operators that the packets are built and read with,    *)
(* for every size of the memory, every content of it and all fields: what  *)
(* a read returns after the writes before it, where the tags of a packet   *)
(* are and that the walk over them finds each of them, what every sender   *)
(* leaves in the memory, where the elements of an emeter packet are, and   *)
(* what a register is on the wire and what is read of one.                 *)
(***************************************************************************)
EXTENDS SpeedwirePackets, SequenceTheorems, FiniteSetTheorems, TLAPS

Numbers == INSTANCE MeasurementLemmas WITH TimeMax <- 2, EpochMax <- 4, MsPerSecond <- 1

-----------------------------------------------------------------------------
(* Bytes                                                                   *)

(* Memory areas of n bytes.                                                *)
Area(n) == [0..(n - 1) -> Byte]

(* What a read of bytes returns, and which bytes a write leaves alone.     *)
LEMMA ReadTyped ==
  ASSUME NEW n \in Nat, NEW b \in Area(n), NEW at \in Nat, NEW w \in Nat, at + w <= n
  PROVE  ReadBytes(b, at, w) \in [1..w -> Byte]
  BY DEF ReadBytes, Area

(* A write leaves an area of the same size.                                *)
LEMMA WriteTyped ==
  ASSUME NEW n \in Nat, NEW b \in Area(n), NEW at \in Nat, NEW s \in Seq(Byte)
  PROVE  WriteBytes(b, at, s) \in Area(n)
<1>1. ASSUME NEW o \in 0..(n - 1), o \in at..(at + Len(s) - 1)
      PROVE  s[(o - at) + 1] \in Byte
  <2>1. (o - at) + 1 \in 1..Len(s)
    BY <1>1
  <2> QED
    BY <2>1
<1> QED
  BY <1>1 DEF WriteBytes, Area

(* A write leaves the bytes before and behind it alone.                    *)
LEMMA WriteOutside ==
  ASSUME NEW n \in Nat, NEW b \in Area(n), NEW at \in Nat, NEW s \in Seq(Byte),
         NEW o \in 0..(n - 1), o < at \/ o >= at + Len(s)
  PROVE  WriteBytes(b, at, s)[o] = b[o]
  BY DEF WriteBytes, Area

(* A byte that was written is there.                                       *)
LEMMA WriteInside ==
  ASSUME NEW n \in Nat, NEW b \in Area(n), NEW at \in Nat, NEW s \in Seq(Byte),
         NEW i \in 1..Len(s), at + i <= n
  PROVE  WriteBytes(b, at, s)[(at + i) - 1] = s[i]
<1>1. (at + i) - 1 \in 0..(n - 1) /\ (at + i) - 1 \in at..(at + Len(s) - 1)
      /\ (((at + i) - 1) - at) + 1 = i
  OBVIOUS
<1> QED
  BY <1>1 DEF WriteBytes, Area

(* Sequences one after the other.                                          *)
LEMMA Joined ==
  ASSUME NEW s \in Seq(Byte), NEW t \in Seq(Byte)
  PROVE  /\ s \o t \in Seq(Byte)
         /\ Len(s \o t) = Len(s) + Len(t)
         /\ \A i \in 1..Len(s) : (s \o t)[i] = s[i]
         /\ \A i \in 1..Len(t) : (s \o t)[Len(s) + i] = t[i]
  OBVIOUS

(* Reverse, position by position.                                          *)
LEMMA ReverseOf ==
  ASSUME NEW s \in Seq(Byte)
  PROVE  /\ Reverse(s) \in Seq(Byte)
         /\ Len(Reverse(s)) = Len(s)
         /\ \A i \in 1..Len(s) : Reverse(s)[i] = s[(Len(s) - i) + 1]
  BY DEF Reverse

(* Two bytes and the number that they stand for.                           *)
LEMMA NumberOfTwo ==
  ASSUME NEW v \in [1..2 -> Byte]
  PROVE  ToNat(v) = v[1] * 256 + v[2]
<1> DEFINE Good(f) == f = [i \in 0..Len(v) |-> IF i = 0 THEN 0 ELSE f[i - 1] * 256 + v[i]]
           c == CHOOSE f : Good(f)
           w == [i \in 0..2 |-> IF i = 0 THEN 0 ELSE IF i = 1 THEN v[1] ELSE v[1] * 256 + v[2]]
<1>1. Len(v) = 2 /\ v[1] \in 0..255 /\ v[2] \in 0..255
  BY DEF Byte
<1>2. w = [i \in 0..2 |-> IF i = 0 THEN 0 ELSE w[i - 1] * 256 + v[i]]
  BY <1>1
<1>3. Good(w)
  BY <1>1, <1>2
<1>4. Good(c)
  BY <1>3
<1>5. c[0] = 0 /\ c[1] = c[0] * 256 + v[1] /\ c[2] = c[1] * 256 + v[2]
  <2> HIDE DEF c
  <2> QED
    BY <1>1, <1>4
<1>6. c[2] = v[1] * 256 + v[2]
  <2> HIDE DEF c
  <2> QED
  BY <1>1, <1>5
<1> QED
  BY <1>1, <1>6 DEF ToNat

(* The two bytes of a number that fits into them, and back.                *)
LEMMA Uint16Of ==
  ASSUME NEW n \in Nat, n <= UINT16_MAX
  PROVE  /\ Uint16(n) \in Seq(Byte) /\ Uint16(n) \in [1..2 -> Byte] /\ Len(Uint16(n)) = 2
         /\ Uint16(n)[1] * 256 + Uint16(n)[2] = n
         /\ ToNat(Uint16(n)) = n
<1>1. PICK d \in Int, r \in 0..255 : d = n \div 256 /\ r = n % 256 /\ n = d * 256 + r
  OBVIOUS
<1>2. d \in 0..255
  BY <1>1 DEF UINT16_MAX
<1>3. PICK e \in Int, s \in 0..255 : e = d \div 256 /\ s = d % 256 /\ d = e * 256 + s
  BY <1>2
<1>4. s = d
  BY <1>2, <1>3
<1>5. Uint16(n) = <<d, r>>
  BY <1>1, <1>3, <1>4 DEF Uint16
<1>6. <<d, r>> \in [1..2 -> Byte] /\ <<d, r>> \in Seq(Byte) /\ Len(<<d, r>>) = 2
      /\ <<d, r>>[1] = d /\ <<d, r>>[2] = r
  BY <1>2 DEF Byte
<1>7. ToNat(Uint16(n)) = Uint16(n)[1] * 256 + Uint16(n)[2]
  BY <1>5, <1>6, NumberOfTwo
<1>8. Uint16(n)[1] * 256 + Uint16(n)[2] = n
  BY <1>1, <1>5, <1>6
<1> QED
  BY <1>5, <1>6, <1>7, <1>8

-----------------------------------------------------------------------------
(* Walks                                                                   *)

(* The arithmetic that the lemma about the exclusive or of                 *)
(* MeasurementLemmas is instantiated with.                                 *)
LEMMA OneBit == 2 \in Nat \ {0} /\ 2 % 2 = 0 /\ 4 = 2 * 2 /\ 1 \in Nat \ {0}
  OBVIOUS

(* Readers that only go forward and stay in the places G.                  *)
Forward(step, G, lo, limit) ==
    /\ G \in SUBSET Int /\ lo \in Int /\ limit \in Nat /\ NULL \notin G
    /\ \A o \in G : /\ lo <= o /\ o < lo + limit
                    /\ step[o] \in G \cup {NULL}
                    /\ step[o] # NULL => step[o] > o

(* w has the stops from first on in their order, to the last one.          *)
Path(w, first, step, G) ==
    /\ w \in Seq(G)
    /\ first = NULL => Len(w) = 0
    /\ first # NULL => Len(w) >= 1 /\ w[1] = first /\ step[w[Len(w)]] = NULL
    /\ \A i \in 1..(Len(w) - 1) : w[i + 1] = step[w[i]]

(* The recursion of a walk defines a function: the walk goes along a path. *)
LEMMA WalkFacts ==
  ASSUME NEW step, NEW G, NEW lo, NEW limit, Forward(step, G, lo, limit),
         NEW first \in G \cup {NULL}
  PROVE  Path(Walk(first, step, limit), first, step, G)
<1> DEFINE V == G \cup {NULL}
           After(v) == IF v = NULL THEN NULL ELSE step[v]
           g == [kv \in (1..limit) \X V |-> After(kv[2])]
           Good(f) == f = [k \in 0..limit |->
                              IF k = 0 THEN first
                              ELSE LET stop == f[k - 1]
                                   IN  IF stop = NULL THEN NULL ELSE step[stop]]
           at == CHOOSE f : Good(f)
           Ends(k) == at[k] = NULL /\ \A j \in 0..(k - 1) : at[j] # NULL
           n == CHOOSE k \in 0..limit : Ends(k)
           w == [i \in 1..n |-> at[i - 1]]
<1>1. G \in SUBSET Int /\ lo \in Int /\ limit \in Nat /\ NULL \notin G /\ first \in V
  BY DEF Forward
<1>2. \A v \in V : After(v) \in V
  BY DEF Forward
<1>3. \A v \in V \ {NULL} : v \in Int /\ lo <= v /\ v < lo + limit
  BY DEF Forward
<1>4. \A v \in V \ {NULL} : After(v) # NULL => After(v) > v
  BY DEF Forward
<1>5. g \in [(1..limit) \X V -> V] /\ \A k \in 1..limit, v \in V : g[<<k, v>>] = After(v)
  <2>1. \A kv \in (1..limit) \X V : After(kv[2]) \in V
    BY <1>2
  <2> HIDE DEF V, After
  <2> QED
    BY <2>1
<1>6. PICK f \in [0..limit -> V] : Numbers!Recursion(f, limit, first, g)
  <2> HIDE DEF V, g
  <2> QED
    BY <1>1, <1>5, OneBit, Numbers!RecursionExists, Zenon
<1>7. f[0] = first /\ \A k \in 1..limit : f[k] = After(f[k - 1])
  <2>1. f[0] = first /\ \A k \in 1..limit : f[k] = g[<<k, f[k - 1]>>]
    BY <1>6 DEF Numbers!Recursion
  <2>2. \A k \in 1..limit : k - 1 \in 0..limit
    BY <1>1
  <2> HIDE DEF V, g, After
  <2> QED
    BY <1>5, <2>1, <2>2
<1>8. Good(f)
  <2>1. \A k \in 0..limit : k # 0 => k \in 1..limit
    BY SMTT(30)
  <2> QED
    BY <1>7, <2>1
<1>9. Good(at)
  BY ZenonT(60), <1>8
<1>10. at[0] = first /\ \A k \in 1..limit : at[k] = After(at[k - 1])
  <2> HIDE DEF at
  <2>1. at = [k \in 0..limit |-> IF k = 0 THEN first ELSE After(at[k - 1])]
    BY <1>9
  <2>2. 0 \in 0..limit /\ \A k \in 1..limit : k \in 0..limit /\ k # 0
    BY <1>1
  <2> HIDE DEF After, Good
  <2>3. at[0] = first
    BY <2>1, <2>2
  <2>4. \A k \in 1..limit : at[k] = After(at[k - 1])
    BY <2>1, <2>2
  <2> QED
    BY <2>3, <2>4
<1> HIDE DEF at, After, V
<1>11. \A k \in Nat : k <= limit => at[k] \in V /\ (at[k] = NULL \/ at[k] >= lo + k)
  <2> DEFINE S == {k \in Nat : k <= limit => at[k] \in V /\ (at[k] = NULL \/ at[k] >= lo + k)}
  <2>1. 0 \in S
    <3>1. first = NULL \/ first >= lo + 0
      BY <1>1, <1>3
    <3> QED
      BY <1>1, <1>10, <3>1
  <2>2. ASSUME NEW k \in S
        PROVE  k + 1 \in S
    <3>1. k \in Nat /\ k + 1 \in Nat /\ (k + 1) - 1 = k
      OBVIOUS
    <3>2. CASE k + 1 <= limit
      <4>0. k <= limit /\ k + 1 \in 1..limit
        BY <1>1, <3>1, <3>2
      <4>1. at[k] \in V /\ (at[k] = NULL \/ at[k] >= lo + k) /\ at[k + 1] = After(at[k])
        BY <1>10, <3>1, <4>0
      <4>2. at[k + 1] \in V
        BY <1>2, <4>1
      <4>3. CASE at[k] = NULL
        BY <3>1, <4>1, <4>2, <4>3 DEF After
      <4>4. CASE at[k] # NULL /\ at[k + 1] # NULL
        <5>1. at[k] \in Int /\ at[k + 1] \in Int /\ at[k + 1] > at[k] /\ at[k] >= lo + k
          BY <1>3, <1>4, <4>1, <4>2, <4>4
        <5>2. at[k + 1] >= lo + (k + 1)
          BY <1>1, <3>1, <5>1
        <5> QED
          BY <3>1, <4>2, <5>2
      <4>5. CASE at[k + 1] = NULL
        BY <3>1, <4>2, <4>5
      <4> QED
        BY <4>3, <4>4, <4>5
    <3>3. CASE ~(k + 1 <= limit)
      BY <3>1, <3>3
    <3> QED
      BY <3>2, <3>3
  <2>3. S \in SUBSET Nat
    OBVIOUS
  <2>4. \A k \in Nat : k \in S
    <3> HIDE DEF S
    <3> QED
      BY <2>1, <2>2, <2>3, Numbers!Induction
  <2> QED
    BY <2>4
<1>12. at[limit] = NULL
  <2>1. at[limit] \in V /\ (at[limit] = NULL \/ at[limit] >= lo + limit)
    BY <1>1, <1>11
  <2>2. CASE at[limit] # NULL
    <3>1. at[limit] \in V \ {NULL} /\ at[limit] >= lo + limit
      BY <2>1, <2>2
    <3>2. at[limit] \in Int /\ at[limit] < lo + limit
      BY <1>3, <3>1
    <3> QED
      BY <1>1, <3>1, <3>2
  <2> QED
    BY <2>2
<1>13. n \in 0..limit /\ Ends(n)
  <2> DEFINE T == {k \in 0..limit : at[k] = NULL}
  <2>1. T \in SUBSET Nat /\ T # {}
    BY <1>1, <1>12
  <2>2. PICK m \in T : \A k \in T : m <= k
    <3> HIDE DEF T
    <3> QED
      BY <2>1, Numbers!Least
  <2>3. m \in 0..limit /\ Ends(m)
    BY <1>1, <2>2
  <2> QED
    BY <2>3
<1> HIDE DEF n
<1>14. n \in Nat /\ \A k \in 0..(n - 1) : at[k] \in V /\ at[k] # NULL
  BY <1>1, <1>11, <1>13
<1>15. \A i \in 1..n : at[i - 1] \in G
  <2>1. \A i \in 1..n : i - 1 \in 0..(n - 1)
    BY <1>14
  <2> QED
    BY <1>14, <2>1 DEF V
<1>16. w \in Seq(G) /\ Len(w) = n /\ \A i \in 1..n : w[i] = at[i - 1]
  BY <1>14, <1>15
<1>17. \A i \in 1..(n - 1) : w[i + 1] = step[w[i]]
  <2> SUFFICES ASSUME NEW i \in 1..(n - 1)
               PROVE  w[i + 1] = step[w[i]]
    OBVIOUS
  <2>1. i \in 1..limit /\ (i + 1) - 1 = i /\ i - 1 \in 0..(n - 1) /\ i \in 1..n /\ i + 1 \in 1..n
    BY <1>1, <1>13
  <2>2. at[i] = After(at[i - 1]) /\ at[i - 1] # NULL
    BY <1>10, <1>14, <2>1
  <2>3. w[i + 1] = at[i] /\ w[i] = at[i - 1]
    BY <1>16, <2>1
  <2> HIDE DEF w
  <2> QED
    BY <2>2, <2>3 DEF After
<1>18. first = NULL => n = 0
  <2>1. first = NULL => ~(0 \in 0..(n - 1))
    BY <1>10, <1>13
  <2> QED
    BY <1>13, <2>1
<1>19. first # NULL => n >= 1 /\ w[1] = first /\ step[w[n]] = NULL
  <2> SUFFICES ASSUME first # NULL
               PROVE  n >= 1 /\ w[1] = first /\ step[w[n]] = NULL
    OBVIOUS
  <2>1. n # 0 /\ n \in 1..limit /\ n - 1 \in 0..(n - 1) /\ n \in 1..n /\ 1 \in 1..n /\ 1 - 1 = 0
    BY <1>10, <1>13
  <2>2. w[1] = at[0] /\ w[n] = at[n - 1]
    BY <1>16, <2>1
  <2>3. at[n] = After(at[n - 1]) /\ at[n] = NULL /\ at[n - 1] # NULL
    BY <1>10, <1>13, <1>14, <2>1
  <2> HIDE DEF w
  <2> QED
    BY <1>10, <2>1, <2>2, <2>3 DEF After
<1>20. Walk(first, step, limit) = w
  BY DEF Walk, w, n, at
<1> HIDE DEF w
<1> QED
  BY <1>16, <1>17, <1>18, <1>19, <1>20 DEF Path

-----------------------------------------------------------------------------
(* Tags                                                                    *)

(* A packet is its memory and its size.                                    *)
LEMMA PacketIs ==
  ASSUME NEW b, NEW s
  PROVE  Packet(b, s).udp = b /\ Packet(b, s).size = s
  BY DEF Packet

(* The length and the id of a tag are the numbers in its four bytes.       *)
LEMMA TagNumbers ==
  ASSUME NEW n \in Nat, NEW b \in Area(n), NEW s, NEW tag \in Nat, tag + 4 <= n
  PROVE  /\ getTagLength(Packet(b, s), tag) = b[tag] * 256 + b[tag + 1]
         /\ getTagId(Packet(b, s), tag) = b[tag + 2] * 256 + b[tag + 3]
         /\ getTagLength(Packet(b, s), tag) \in Nat
         /\ getTotalLength(Packet(b, s), tag) = 4 + getTagLength(Packet(b, s), tag)
         /\ getTagId(Packet(b, s), tag) \in Nat
<1> DEFINE u == ReadBytes(b, tag, 2)
           v == ReadBytes(b, tag + 2, 2)
<1>1. u \in [1..2 -> Byte] /\ v \in [1..2 -> Byte]
  <2>1. tag + 2 \in Nat /\ 2 \in Nat /\ (tag + 2) + 2 <= n /\ tag + 2 <= n
    OBVIOUS
  <2>2. u \in [1..2 -> Byte]
    BY <2>1, ReadTyped
  <2>3. v \in [1..2 -> Byte]
    BY <2>1, ReadTyped
  <2> QED
    BY <2>2, <2>3
<1>2. u[1] = b[tag] /\ u[2] = b[tag + 1] /\ v[1] = b[tag + 2] /\ v[2] = b[tag + 3]
  BY DEF ReadBytes
<1>3. ToNat(u) = u[1] * 256 + u[2] /\ ToNat(v) = v[1] * 256 + v[2]
  <2> HIDE DEF u, v
  <2> QED
    BY <1>1, NumberOfTwo
<1>4. u[1] \in Nat /\ u[2] \in Nat /\ v[1] \in Nat /\ v[2] \in Nat
  BY <1>1 DEF Byte
<1>5. getTagLength(Packet(b, s), tag) = ToNat(u) /\ getTagId(Packet(b, s), tag) = ToNat(v)
  BY PacketIs DEF getTagLength, getTagId, getBigEndian
<1> HIDE DEF u, v
<1> QED
  BY <1>2, <1>3, <1>4, <1>5 DEF getTotalLength, TAG_HEADER_LENGTH

(* The tags that lie inside of a packet.                                   *)
Fitting(p) == {tag \in 0..p.size : tagPacketFitsIntoUdp(p, tag)}
NextTag(p) == [tag \in 0..p.size |-> getNextTagPacket(p, tag)]

(* What it is for a tag to fit into a packet.                              *)
LEMMA FittingTag ==
  ASSUME NEW n \in Nat, NEW b \in Area(n), NEW s \in 0..n, NEW tag \in Int
  PROVE  tag \in Fitting(Packet(b, s)) <=>
            /\ tag \in Nat /\ tag + 4 <= s
            /\ tag + 4 + getTagLength(Packet(b, s), tag) <= s
<1> DEFINE p == Packet(b, s)
           l == getTagLength(p, tag)
<1>1. CASE tag \in Nat /\ tag + 4 <= s
  <2>1. l \in Nat /\ getTotalLength(p, tag) = 4 + l /\ tag # -1 /\ tag \in 0..s
    BY <1>1, TagNumbers
  <2>2. p.size = s
    BY PacketIs
  <2> HIDE DEF p, l
  <2>3. tag \in Fitting(p) <=> (s >= tag + 4 /\ s >= tag + (4 + l))
    BY <2>1, <2>2 DEF Fitting, tagPacketFitsIntoUdp, TAG_HEADER_LENGTH, NULL
  <2> QED
    BY <1>1, <2>1, <2>3 DEF p, l
<1>2. CASE ~(tag \in Nat /\ tag + 4 <= s)
  <2>1. p.size = s
    BY PacketIs
  <2> HIDE DEF p
  <2>2. tag \notin Fitting(p)
    BY <1>2, <2>1 DEF Fitting, tagPacketFitsIntoUdp, TAG_HEADER_LENGTH, NULL
  <2> QED
    BY <1>2, <2>2 DEF p
<1> QED
  BY <1>1, <1>2

(* The tag behind a tag, or NULL if it does not fit.                       *)
LEMMA NextTagIs ==
  ASSUME NEW n \in Nat, NEW b \in Area(n), NEW s \in 0..n, NEW tag \in Fitting(Packet(b, s))
  PROVE  /\ NextTag(Packet(b, s))[tag] = getNextTagPacket(Packet(b, s), tag)
         /\ getNextTagPacket(Packet(b, s), tag) =
               IF tag + 4 + getTagLength(Packet(b, s), tag) \in Fitting(Packet(b, s))
               THEN tag + 4 + getTagLength(Packet(b, s), tag) ELSE NULL
         /\ tag \in Nat /\ tag < s /\ getTagLength(Packet(b, s), tag) \in Nat
<1> DEFINE p == Packet(b, s)
           l == getTagLength(p, tag)
           m == tag + (4 + l)
<1>1. tag \in Nat /\ tag + 4 <= s /\ tag + 4 + l <= s
  <2>1. tag \in Int
    BY DEF Fitting
  <2> QED
    BY <2>1, FittingTag
<1>2. l \in Nat /\ getTotalLength(p, tag) = 4 + l
  BY <1>1, TagNumbers
<1>3. m \in 0..s /\ m = tag + 4 + l /\ p.size = s
  BY <1>1, <1>2, PacketIs
<1>4. tagPacketFitsIntoUdp(p, tag)
  BY DEF Fitting
<1>5. tag + getTotalLength(p, tag) = m
  BY <1>2
<1> HIDE DEF p, m, l
<1>6. getNextTagPacket(p, tag) = IF m \in Fitting(p) THEN m ELSE NULL
  BY <1>3, <1>4, <1>5 DEF getNextTagPacket, Fitting
<1>7. NextTag(p)[tag] = getNextTagPacket(p, tag)
  BY <1>1, <1>3 DEF NextTag
<1> QED
  BY <1>1, <1>2, <1>3, <1>6, <1>7 DEF p, m, l

(* The tags of a packet are those that one reaches from the first one; all *)
(* of them lie inside of it.                                               *)
LEMMA TagsFacts ==
  ASSUME NEW n \in Nat, NEW b \in Area(n), NEW s \in 0..n
  PROVE  Path(TagPackets(Packet(b, s)), IF 4 \in Fitting(Packet(b, s)) THEN 4 ELSE NULL,
              NextTag(Packet(b, s)), Fitting(Packet(b, s)))
<1> DEFINE p == Packet(b, s)
           first == IF 4 \in Fitting(p) THEN 4 ELSE NULL
<1>1. p.size = s
  BY PacketIs
<1>2. getFirstTagPacket(p) = first
  <2>1. 4 \in Fitting(p) <=> (4 \in 0..s /\ tagPacketFitsIntoUdp(p, 4))
    BY <1>1 DEF Fitting
  <2>2. tagPacketFitsIntoUdp(p, 4) => 4 \in 0..s
    <3>1. tagPacketFitsIntoUdp(p, 4) => s >= 4 + 4
      BY <1>1 DEF tagPacketFitsIntoUdp, TAG_HEADER_LENGTH
    <3> QED
      BY <3>1
  <2> HIDE DEF p
  <2> QED
    BY <2>1, <2>2 DEF getFirstTagPacket, sma_tag0_offset
<1>3. Forward(NextTag(p), Fitting(p), 0, s)
  <2>1. Fitting(p) \in SUBSET Int /\ NULL \notin Fitting(p)
    BY <1>1 DEF Fitting, NULL
  <2>2. ASSUME NEW o \in Fitting(p)
        PROVE  /\ 0 <= o /\ o < 0 + s
               /\ NextTag(p)[o] \in Fitting(p) \cup {NULL}
               /\ NextTag(p)[o] # NULL => NextTag(p)[o] > o
    <3>1. /\ NextTag(p)[o] = IF o + 4 + getTagLength(p, o) \in Fitting(p)
                             THEN o + 4 + getTagLength(p, o) ELSE NULL
          /\ o \in Nat /\ o < s /\ getTagLength(p, o) \in Nat
      BY NextTagIs
    <3> HIDE DEF p
    <3> QED
      BY <3>1
  <2> HIDE DEF p
  <2> QED
    BY <2>1, <2>2 DEF Forward
<1>4. first \in Fitting(p) \cup {NULL}
  OBVIOUS
<1> HIDE DEF first
<1>5. Path(Walk(first, NextTag(p), s), first, NextTag(p), Fitting(p))
  <2> HIDE DEF p
  <2> QED
    BY <1>3, <1>4, WalkFacts
<1>6. TagPackets(p) = Walk(first, NextTag(p), s)
  BY <1>1, <1>2 DEF TagPackets, NextTag
<1> QED
  BY <1>5, <1>6 DEF first

(* What looking for a tag finds: the first of its id, unless the           *)
(* end-of-data tag comes earlier.                                          *)
Sought(p, tag_id) ==
    {i \in DOMAIN TagPackets(p) : /\ getTagId(p, TagPackets(p)[i]) = tag_id
                                  /\ \A j \in 1..(i - 1) : ~EndOfData(p, TagPackets(p)[j])}

(* findTagPacket takes the first tag at which its loop stops, if it has    *)
(* the id.                                                                 *)
LEMMA FindIs ==
  ASSUME NEW p, NEW tag_id
  PROVE  findTagPacket(p, tag_id) = FirstStop(TagPackets(p), Sought(p, tag_id))
  BY DEF findTagPacket, Sought

(* The first stop has the smallest number.                                 *)
LEMMA FirstStopIs ==
  ASSUME NEW stops, NEW found \in SUBSET Nat
  PROVE  /\ found = {} => FirstStop(stops, found) = NULL
         /\ found # {} => \E m \in found : /\ FirstStop(stops, found) = stops[m]
                                           /\ \A k \in found : m <= k
<1>1. CASE found # {}
  <2> DEFINE m == CHOOSE x \in found : \A y \in found : x <= y
  <2>1. \E x \in found : \A y \in found : x <= y
    BY <1>1, Numbers!Least
  <2>2. m \in found /\ \A y \in found : m <= y
    BY <2>1
  <2>3. Min(found) = m
    BY DEF Min
  <2> HIDE DEF m
  <2> QED
    BY <1>1, <2>2, <2>3 DEF FirstStop
<1>2. CASE found = {}
  BY <1>2 DEF FirstStop
<1> QED
  BY <1>1, <1>2

(* A tag with the id is found if there is none, and no end of data, before *)
(* it.                                                                     *)
LEMMA FoundAt ==
  ASSUME NEW p, NEW tag_id, NEW G, TagPackets(p) \in Seq(G), NEW i \in 1..Len(TagPackets(p)),
         getTagId(p, TagPackets(p)[i]) = tag_id,
         \A j \in 1..(i - 1) : /\ getTagId(p, TagPackets(p)[j]) # tag_id
                               /\ ~EndOfData(p, TagPackets(p)[j])
  PROVE  findTagPacket(p, tag_id) = TagPackets(p)[i]
<1>1. Sought(p, tag_id) \in SUBSET Nat
  BY DEF Sought
<1>2. i \in Sought(p, tag_id)
  BY DEF Sought
<1>3. PICK m \in Sought(p, tag_id) : /\ findTagPacket(p, tag_id) = TagPackets(p)[m]
                                     /\ \A k \in Sought(p, tag_id) : m <= k
  BY <1>1, <1>2, FindIs, FirstStopIs
<1>4. m <= i /\ m \in 1..Len(TagPackets(p)) /\ getTagId(p, TagPackets(p)[m]) = tag_id
  BY <1>2, <1>3 DEF Sought
<1>5. ~(m \in 1..(i - 1))
  BY <1>4
<1>6. m = i
  BY <1>4, <1>5
<1> QED
  BY <1>3, <1>6

(* A tag behind the end of data is not found.                              *)
LEMMA NotFound ==
  ASSUME NEW p, NEW tag_id, NEW G, TagPackets(p) \in Seq(G), NEW i \in 1..Len(TagPackets(p)),
         EndOfData(p, TagPackets(p)[i]),
         \A j \in 1..i : getTagId(p, TagPackets(p)[j]) # tag_id
  PROVE  findTagPacket(p, tag_id) = NULL
<1>1. ASSUME NEW k \in Sought(p, tag_id)
      PROVE  FALSE
  <2>1. k \in 1..Len(TagPackets(p)) /\ getTagId(p, TagPackets(p)[k]) = tag_id
        /\ \A j \in 1..(k - 1) : ~EndOfData(p, TagPackets(p)[j])
    BY <1>1 DEF Sought
  <2>2. ~(k \in 1..i) /\ ~(i \in 1..(k - 1))
    BY <2>1
  <2> QED
    BY <2>1, <2>2
<1>2. Sought(p, tag_id) \in SUBSET Nat /\ Sought(p, tag_id) = {}
  BY <1>1
<1> QED
  BY <1>2, FindIs, FirstStopIs

(* Whatever is found is one of the tags of the id.                         *)
LEMMA FoundIsTag ==
  ASSUME NEW n \in Nat, NEW b \in Area(n), NEW s \in 0..n, NEW tag_id,
         findTagPacket(Packet(b, s), tag_id) # NULL
  PROVE  /\ findTagPacket(Packet(b, s), tag_id) \in Fitting(Packet(b, s))
         /\ getTagId(Packet(b, s), findTagPacket(Packet(b, s), tag_id)) = tag_id
<1> DEFINE p == Packet(b, s)
<1>1. TagPackets(p) \in Seq(Fitting(p))
  BY TagsFacts DEF Path
<1> HIDE DEF p
<1>2. Sought(p, tag_id) \in SUBSET Nat
  BY <1>1 DEF Sought
<1>3. PICK m \in Sought(p, tag_id) : findTagPacket(p, tag_id) = TagPackets(p)[m]
  BY <1>2, FindIs, FirstStopIs DEF p
<1>4. m \in 1..Len(TagPackets(p)) /\ getTagId(p, TagPackets(p)[m]) = tag_id
  BY <1>1, <1>3 DEF Sought
<1> QED
  BY <1>1, <1>3, <1>4 DEF p

-----------------------------------------------------------------------------
(* The data2 tag and the registers in it                                   *)

(* Sizes of 32 bits do not wrap around as long as they are no differences  *)
(* below zero.                                                             *)
LEMMA RangeIs == UINT32_RANGE \in Nat \ {0} /\ BufferSize < UINT32_RANGE /\ BufferSize \in Nat
  BY PacketsAssumption

LEMMA RestTyped ==
  ASSUME NEW x \in Int, NEW r \in Nat \ {0}
  PROVE  x % r \in Nat /\ x % r < r /\ x = (x \div r) * r + (x % r) /\ x \div r \in Int
  OBVIOUS

LEMMA SmallRest ==
  ASSUME NEW x \in Nat, NEW r \in Nat \ {0}, x < r
  PROVE  x % r = x
<1>1. PICK d \in Int, m \in Nat : d = x \div r /\ m = x % r /\ m < r /\ x = d * r + m
  BY RestTyped
<1>2. d >= 1 => d * r >= r
  BY <1>1
<1>3. d <= -1 => d * r <= -r
  BY <1>1
<1>4. d = 0
  BY <1>1, <1>2, <1>3
<1>5. d * r = 0
  BY <1>4
<1> QED
  BY <1>1, <1>5

LEMMA NotNegative ==
  ASSUME NEW x \in Nat
  PROVE  UnsignedLong(x) = x
  BY DEF UnsignedLong

(* The payload of a data2 tag lies inside of the packet, unless the tag is *)
(* too short for its own header.                                           *)
LEMMA PayloadInside ==
  ASSUME NEW n \in Nat, NEW b \in Area(n), NEW s \in 0..n, Data2(Packet(b, s)) # NULL
  PROVE  LET p == Packet(b, s)
             q == Payload(p)
             l == getTagLength(p, Data2(p))
         IN  /\ q.udp = b /\ q.at \in Nat /\ l \in Nat
             /\ q.at = Data2(p) + getPayloadOffset(p) /\ getPayloadOffset(p) \in {6, 8}
             /\ Data2(p) + 4 + l <= s
             /\ l >= getPayloadOffset(p) - 4 =>
                    q.size \in Nat /\ q.at + q.size = Data2(p) + 4 + l /\ q.at + q.size <= s
<1> DEFINE p == Packet(b, s)
           q == Payload(p)
           d == Data2(p)
           l == getTagLength(p, d)
           off == getPayloadOffset(p)
<1>1. d \in Fitting(p)
  BY FoundIsTag DEF Data2
<1>2. d \in Nat /\ d + 4 <= s /\ d + 4 + l <= s
  <2>1. d \in Int
    BY <1>1 DEF Fitting
  <2> HIDE DEF d
  <2> QED
    BY <1>1, <2>1, FittingTag
<1>3. l \in Nat /\ getTotalLength(p, d) = 4 + l
  <2> HIDE DEF d
  <2> QED
    BY <1>2, TagNumbers
<1>4. off \in {6, 8}
  BY DEF getPayloadOffset
<1>5. q.udp = b /\ q.at = d + off /\ q.size = UnsignedLong((4 + l) - off)
  BY <1>3, PacketIs DEF Payload
<1> HIDE DEF p, q, d, l, off
<1>6. q.udp = b /\ q.at \in Nat /\ q.at = d + off
  BY <1>2, <1>3, <1>4, <1>5
<1>7. ASSUME l >= off - 4
      PROVE  q.size \in Nat /\ q.at + q.size = d + 4 + l /\ q.at + q.size <= s
  <2>1. PICK x \in Nat : x = (4 + l) - off
    BY <1>3, <1>4, <1>7
  <2>2. q.size = x
    BY <1>5, <2>1, NotNegative
  <2> QED
    BY <1>2, <1>3, <1>4, <1>5, <2>1, <2>2
<1> QED
  BY <1>2, <1>3, <1>4, <1>6, <1>7 DEF p, q, d, l, off

(* Bytes are read as a natural number.                                     *)
LEMMA ToNatTyped ==
  ASSUME NEW v \in Seq(Byte)
  PROVE  ToNat(v) \in Nat
<1> DEFINE n == Len(v)
           g == [ku \in (1..n) \X Nat |-> ku[2] * 256 + v[ku[1]]]
           Good(f) == f = [i \in 0..n |-> IF i = 0 THEN 0 ELSE f[i - 1] * 256 + v[i]]
           c == CHOOSE f : Good(f)
<1>1. n \in Nat /\ \A i \in 1..n : v[i] \in Nat
  <2>1. n \in Nat /\ \A i \in 1..n : v[i] \in Byte
    OBVIOUS
  <2>2. Byte \subseteq Nat
    BY DEF Byte
  <2> HIDE DEF n
  <2> QED
    BY <2>1, <2>2
<1>2. g \in [(1..n) \X Nat -> Nat] /\ \A k \in 1..n, u \in Nat : g[<<k, u>>] = u * 256 + v[k]
  <2>1. \A ku \in (1..n) \X Nat : ku[2] * 256 + v[ku[1]] \in Nat
    BY <1>1
  <2> HIDE DEF n
  <2> QED
    BY <2>1
<1>3. PICK f \in [0..n -> Nat] : Numbers!Recursion(f, n, 0, g)
  <2>1. 0 \in Nat
    OBVIOUS
  <2> HIDE DEF n, g
  <2> QED
    BY <1>1, <1>2, <2>1, OneBit, Numbers!RecursionExists, Zenon
<1>4. f[0] = 0 /\ \A k \in 1..n : f[k] = g[<<k, f[k - 1]>>]
  BY <1>3 DEF Numbers!Recursion
<1>5. \A k \in 1..n : f[k] = f[k - 1] * 256 + v[k]
  <2>1. \A k \in 1..n : k - 1 \in 0..n /\ f[k - 1] \in Nat
    BY <1>1
  <2> HIDE DEF n, g
  <2> QED
    BY ZenonT(60), <1>2, <1>4, <2>1
<1>6. Good(f)
  <2>1. \A k \in 0..n : k # 0 => k \in 1..n
    BY <1>1
  <2> HIDE DEF n
  <2> QED
    BY <1>4, <1>5, <2>1
<1>7. Good(c)
  BY ZenonT(60), <1>6
<1> HIDE DEF c, g
<1>8. c = [i \in 0..n |-> IF i = 0 THEN 0 ELSE c[i - 1] * 256 + v[i]]
  BY <1>7
<1>9. c[0] = 0 /\ \A k \in 1..n : c[k] = c[k - 1] * 256 + v[k]
  <2>1. 0 \in 0..n /\ \A k \in 1..n : k \in 0..n /\ k # 0
    BY <1>1
  <2> HIDE DEF n
  <2> QED
    BY <1>8, <2>1
<1>10. \A k \in Nat : k <= n => c[k] \in Nat
  <2> DEFINE S == {k \in Nat : k <= n => c[k] \in Nat}
  <2>1. 0 \in S
    BY <1>9
  <2>2. ASSUME NEW k \in S
        PROVE  k + 1 \in S
    <3>1. k + 1 <= n => /\ c[k] \in Nat /\ k + 1 \in 1..n /\ (k + 1) - 1 = k
      BY <1>1
    <3>2. k + 1 <= n => c[k + 1] = c[k] * 256 + v[k + 1] /\ v[k + 1] \in Nat
      BY <1>1, <1>9, <3>1
    <3> QED
      BY <3>1, <3>2
  <2>3. S \in SUBSET Nat
    OBVIOUS
  <2>4. \A k \in Nat : k \in S
    <3> HIDE DEF S
    <3> QED
      BY <2>1, <2>2, <2>3, Numbers!Induction
  <2> QED
    BY <2>4
<1>11. ToNat(v) = c[n]
  BY DEF ToNat, c
<1> QED
  BY <1>1, <1>10, <1>11

(* A field that lies inside of the memory is read as bytes.                *)
LEMMA FieldTyped ==
  ASSUME NEW n \in Nat, NEW q, q.udp \in Area(n), NEW at \in Nat, NEW w \in Nat, at + w <= n
  PROVE  getLittleEndian(q.udp, at, w) \in Seq(Byte)
<1>1. ReadBytes(q.udp, at, w) \in Seq(Byte)
  BY ReadTyped
<1> QED
  BY <1>1, ReverseOf DEF getLittleEndian

(* The places of the registers, the first one in any case and others that  *)
(* lie inside of the payload, and the way from one to the next.            *)
RegisterPlaces(q) == {34} \cup {x \in 34..q.size : x + getRawDataLength(q) <= q.size}
RegisterAfter(q) == [x \in 0..(q.size + 34) |-> getNextRawDataElement(q, x, getRawDataLength(q))]

(* The walk over the registers goes along a path inside of the payload,    *)
(* although their length is computed from two ids and a size.              *)
LEMMA RegistersPath ==
  ASSUME NEW n \in Nat, NEW q, q.udp \in Area(n), q.at \in Nat, q.size \in Nat, q.at + 34 <= n,
         getRawDataLength(q) # 0
  PROVE  /\ Path(RawElements(q), 34, RegisterAfter(q), RegisterPlaces(q))
         /\ getRawDataLength(q) \in Int /\ getRawDataLength(q) >= 12
         /\ getRawDataLength(q) <= (q.size - 34) % UINT32_RANGE
<1> DEFINE length == getRawDataLength(q)
           z == (q.size - 34) % UINT32_RANGE
           r == NumRegisters(q)
           step == RegisterAfter(q)
           G == RegisterPlaces(q)
<1>1. length # 0 /\ z \in Nat
  <2>1. q.size - 34 \in Int /\ UINT32_RANGE \in Nat \ {0}
    BY RangeIs
  <2>2. PICK x \in Int : x = q.size - 34
    BY <2>1
  <2>3. x % UINT32_RANGE \in Nat
    BY <2>1, RestTyped
  <2> QED
    BY <2>2, <2>3
<1>2. r > 0 /\ z # 0 /\ z % r = 0 /\ z \div r >= 12 /\ length = z \div r
  BY <1>1 DEF getRawDataLength, sma_data_offset
<1>3. r \in Int
  <2>1. q.at + 26 \in Nat /\ q.at + 30 \in Nat /\ (q.at + 26) + 4 <= n /\ (q.at + 30) + 4 <= n
    BY <1>2
  <2>2. getLittleEndian(q.udp, q.at + 26, 4) \in Seq(Byte)
    BY <2>1, FieldTyped
  <2>3. getLittleEndian(q.udp, q.at + 30, 4) \in Seq(Byte)
    BY <2>1, FieldTyped
  <2>4. getField(q, "FirstRegisterID") = getLittleEndian(q.udp, q.at + 26, 4)
        /\ getField(q, "LastRegisterID") = getLittleEndian(q.udp, q.at + 30, 4)
    BY DEF getField, InverterField
  <2> QED
    BY <2>2, <2>3, <2>4, ToNatTyped DEF NumRegisters
<1>4. length \in Int /\ length >= 12 /\ length <= z
  <2> HIDE DEF r, length, z
  <2>1. PICK d \in Int : d = z \div r
    BY <1>1, <1>2, <1>3
  <2>2. z = d * r + (z % r)
    BY <1>1, <1>2, <1>3, <2>1
  <2>3. d >= 12 /\ d * r = z
    <3>1. z % r = 0 /\ d >= 12
      BY <1>2, <2>1
    <3>2. d * r \in Int
      BY <1>3, <2>1
    <3> QED
      BY <1>1, <2>2, <3>1, <3>2
  <2>4. d <= d * r
    BY <1>2, <1>3, <2>1, <2>3
  <2> QED
    BY <1>1, <1>2, <2>1, <2>3, <2>4
<1>5. G = {34} \cup {x \in 34..q.size : x + length <= q.size}
      /\ step = [x \in 0..(q.size + 34) |-> getNextRawDataElement(q, x, length)]
  BY DEF RegisterPlaces, RegisterAfter
<1> HIDE DEF length, r, step, G, z
<1>6. Forward(step, G, 0, q.size + 35)
  <2>1. G \in SUBSET Int /\ NULL \notin G /\ q.size + 35 \in Nat
    BY <1>5 DEF NULL
  <2>2. ASSUME NEW o \in G
        PROVE  /\ 0 <= o /\ o < 0 + (q.size + 35)
               /\ step[o] \in G \cup {NULL}
               /\ step[o] # NULL => step[o] > o
    <3>1. o \in 34..(q.size + 34) /\ o \in Int /\ 0 <= o /\ o < 0 + (q.size + 35)
      BY <1>4, <1>5
    <3>2. step[o] = getNextRawDataElement(q, o, length)
      BY <1>5, <3>1
    <3>3. step[o] = NULL \/ (step[o] = o + length /\ ~((o + length) + length > q.size))
      BY <3>2 DEF getNextRawDataElement
    <3>4. o + length \in Int /\ o + length > o
      BY <1>4, <3>1
    <3>5. ~((o + length) + length > q.size) => o + length \in G
      BY <1>4, <1>5, <3>1, <3>4
    <3> QED
      BY <3>1, <3>3, <3>4, <3>5
  <2> QED
    BY <2>1, <2>2 DEF Forward
<1>7. 34 \in G \cup {NULL}
  BY <1>5
<1>8. Path(Walk(34, step, q.size + 35), 34, step, G)
  BY <1>6, <1>7, WalkFacts
<1>9. RawElements(q) = Walk(34, step, q.size + 35)
  BY <1>1, <1>5 DEF RawElements, sma_data_offset, length
<1> QED
  BY <1>4, <1>8, <1>9 DEF length, step, G, z

(* Every register that is walked over lies inside of the payload when the  *)
(* payload holds the fields in front of them, and is the first one when it *)
(* does not.                                                               *)
LEMMA RegistersFit ==
  ASSUME NEW n \in Nat, NEW q, q.udp \in Area(n), q.at \in Nat, q.size \in Nat, q.at + 34 <= n,
         NEW e \in ToSet(RawElements(q))
  PROVE  /\ q.size < UINT32_RANGE /\ q.size >= 34 =>
                e \in 34..q.size /\ e + getRawDataLength(q) <= q.size /\ getRawDataLength(q) \in Int
         /\ q.size < 34 => e = 34
<1>1. getRawDataLength(q) # 0
  <2>1. getRawDataLength(q) = 0 => RawElements(q) = <<>>
    BY DEF RawElements
  <2> QED
    BY <2>1 DEF ToSet
<1>2. /\ Path(RawElements(q), 34, RegisterAfter(q), RegisterPlaces(q)) /\ getRawDataLength(q) >= 12
      /\ getRawDataLength(q) \in Int /\ getRawDataLength(q) <= (q.size - 34) % UINT32_RANGE
  BY <1>1, RegistersPath
<1>3. PICK G, w : G = RegisterPlaces(q) /\ w = RawElements(q)
  OBVIOUS
<1>4. w \in Seq(G)
  BY <1>2, <1>3 DEF Path
<1>5. PICK i \in DOMAIN w : e = w[i]
  BY <1>3 DEF ToSet
<1>6. e \in G
  BY <1>4, <1>5
<1>7. e = 34 \/ (e \in 34..q.size /\ e + getRawDataLength(q) <= q.size)
  BY <1>3, <1>6 DEF RegisterPlaces
<1>8. ASSUME q.size < UINT32_RANGE, q.size >= 34
      PROVE  (q.size - 34) % UINT32_RANGE = q.size - 34
  <2>1. PICK x \in Nat : x = q.size - 34 /\ x < UINT32_RANGE
    BY <1>8, RangeIs
  <2>2. x % UINT32_RANGE = x
    BY <2>1, RangeIs, SmallRest
  <2> QED
    BY <2>1, <2>2, Zenon
<1>9. ASSUME q.size < 34
      PROVE  e = 34
  BY <1>7, <1>9
<1>10. ASSUME q.size < UINT32_RANGE, q.size >= 34
       PROVE  e \in 34..q.size /\ e + getRawDataLength(q) <= q.size
  <2>1. PICK g \in Int : g = getRawDataLength(q)
    BY <1>2
  <2>2. g <= q.size - 34
    BY <1>2, <1>8, <1>10, <2>1
  <2>3. e = 34 => e \in 34..q.size /\ e + g <= q.size
    BY <1>10, <2>1, <2>2
  <2> QED
    BY <1>7, <2>1, <2>3
<1> QED
  BY <1>2, <1>9, <1>10

-----------------------------------------------------------------------------
(* Packets of a known shape                                                *)

(* The tag at an address of a memory area.                                 *)
Tag(b, at, id, length) ==
    b[at] * 256 + b[at + 1] = length /\ b[at + 2] * 256 + b[at + 3] = id

(* A sequence of tags that follow each other in a packet of s bytes.       *)
TagRecords == [at : Nat, id : Nat, length : Nat]

EndsData(tag) == tag.id = 0 /\ tag.length = 0

Chain(tags, s) ==
    /\ tags \in Seq(TagRecords) /\ Len(tags) >= 1
    /\ tags[1].at = 4
    /\ \A i \in 1..(Len(tags) - 1) : /\ tags[i + 1].at = tags[i].at + 4 + tags[i].length
                                     /\ ~EndsData(tags[i])
    /\ \A i \in 1..Len(tags) : tags[i].at + 4 + tags[i].length <= s

(* The last tag is the end-of-data tag, and the packet ends there.         *)
Shape(tags, s) ==
    /\ Chain(tags, s)
    /\ EndsData(tags[Len(tags)]) /\ tags[Len(tags)].at + 4 = s

Tagged(b, tags) == \A i \in DOMAIN tags : Tag(b, tags[i].at, tags[i].id, tags[i].length)

(* Each tag of a chain fits into the packet, with its length and its id.   *)
LEMMA ShapedTag ==
  ASSUME NEW n \in Nat, NEW b \in Area(n), NEW s \in 0..n, NEW m \in s..n, NEW tags,
         Chain(tags, s), Tagged(b, tags), NEW i \in 1..Len(tags)
  PROVE  /\ tags[i].at \in Fitting(Packet(b, m))
         /\ getTagLength(Packet(b, m), tags[i].at) = tags[i].length
         /\ getTagId(Packet(b, m), tags[i].at) = tags[i].id
         /\ EndOfData(Packet(b, m), tags[i].at) <=> EndsData(tags[i])
<1> DEFINE p == Packet(b, m)
           t == tags[i]
<1>1. t \in TagRecords /\ t.at + 4 + t.length <= s /\ Tag(b, t.at, t.id, t.length)
  <2>1. i \in DOMAIN tags /\ t \in TagRecords
    BY DEF Chain
  <2>2. Tag(b, t.at, t.id, t.length)
    BY <2>1 DEF Tagged
  <2>3. t.at + 4 + t.length <= s
    BY DEF Chain
  <2> QED
    BY <2>1, <2>2, <2>3
<1>2. t.at \in Nat /\ t.at + 4 <= n /\ m \in 0..n /\ t.at \in Int /\ t.length \in Nat
  BY <1>1 DEF TagRecords
<1> HIDE DEF t
<1>3. getTagLength(p, t.at) = t.length /\ getTagId(p, t.at) = t.id
  <2>1. PICK o \in Nat : o = t.at /\ o + 4 <= n
    BY <1>2
  <2>2. getTagLength(p, o) = b[o] * 256 + b[o + 1] /\ getTagId(p, o) = b[o + 2] * 256 + b[o + 3]
    <3>1. o + 4 <= n
      BY <2>1
    <3> QED
      BY <3>1, TagNumbers
  <2> HIDE DEF p
  <2> QED
    BY <1>1, <2>1, <2>2 DEF Tag
<1>4. t.at \in Fitting(p)
  BY <1>1, <1>2, <1>3, FittingTag
<1> HIDE DEF p
<1>5. EndOfData(p, t.at) <=> EndsData(t)
  BY <1>1, <1>3 DEF EndOfData, EndsData, sma_tag_endofdata
<1> QED
  BY <1>3, <1>4, <1>5 DEF p, t

(* A reader comes along these tags, whatever size of the area it is told.  *)
LEMMA ShapedWalk ==
  ASSUME NEW n \in Nat, NEW b \in Area(n), NEW s \in 0..n, NEW m \in s..n, NEW tags,
         Chain(tags, s), Tagged(b, tags)
  PROVE  \A i \in 1..Len(tags) : i <= Len(TagPackets(Packet(b, m)))
                                 /\ TagPackets(Packet(b, m))[i] = tags[i].at
<1> DEFINE p == Packet(b, m)
           w == TagPackets(p)
           first == IF 4 \in Fitting(p) THEN 4 ELSE NULL
           S == {k \in Nat : k + 1 <= Len(tags) => k + 1 <= Len(w) /\ w[k + 1] = tags[k + 1].at}
<1>1. Path(w, first, NextTag(p), Fitting(p))
  BY TagsFacts
<1>2. /\ \A i \in 1..Len(tags) : /\ tags[i].at \in Fitting(p) /\ tags[i].at \in Nat
                                 /\ tags[i].length \in Nat
                                 /\ getTagLength(p, tags[i].at) = tags[i].length
      /\ Len(tags) \in Nat /\ Len(tags) >= 1 /\ tags[1].at = 4
      /\ \A i \in 1..(Len(tags) - 1) : tags[i + 1].at = tags[i].at + 4 + tags[i].length
  <2>1. \A i \in 1..Len(tags) : /\ tags[i].at \in Fitting(p)
                                 /\ getTagLength(p, tags[i].at) = tags[i].length
    BY ShapedTag
  <2>2. \A i \in 1..Len(tags) : tags[i].at \in Nat /\ tags[i].length \in Nat
    <3>1. \A i \in 1..Len(tags) : tags[i] \in TagRecords
      BY DEF Chain
    <3> QED
      BY <3>1 DEF TagRecords
  <2> QED
    BY <2>1, <2>2 DEF Chain
<1>3. ASSUME NEW tag \in Fitting(p)
      PROVE  NextTag(p)[tag] = IF tag + 4 + getTagLength(p, tag) \in Fitting(p)
                               THEN tag + 4 + getTagLength(p, tag) ELSE NULL
  BY <1>3, NextTagIs
<1> HIDE DEF p, w
<1>4. Len(w) \in Nat
  BY <1>1 DEF Path
<1>5. 0 \in S
  BY <1>1, <1>2 DEF Path, NULL
<1>6. ASSUME NEW k \in S
      PROVE  k + 1 \in S
  <2> SUFFICES ASSUME (k + 1) + 1 <= Len(tags)
               PROVE  (k + 1) + 1 <= Len(w) /\ w[(k + 1) + 1] = tags[(k + 1) + 1].at
    OBVIOUS
  <2> DEFINE i == k + 1
  <2>1. i \in 1..(Len(tags) - 1) /\ i \in 1..Len(tags) /\ i + 1 \in 1..Len(tags) /\ i \in Nat
        /\ i <= Len(w) /\ w[i] = tags[i].at
    BY <1>2
  <2> HIDE DEF i, S
  <2>2. tags[i + 1].at = tags[i].at + 4 + getTagLength(p, tags[i].at)
    BY <1>2, <2>1
  <2>3. tags[i].at \in Fitting(p) /\ tags[i + 1].at \in Fitting(p)
    BY <1>2, <2>1
  <2>4. NextTag(p)[w[i]] = tags[i + 1].at
    BY <1>3, <2>1, <2>2, <2>3
  <2>5. tags[i + 1].at # NULL
    BY <1>2, <2>1 DEF NULL
  <2>6. i # Len(w)
    BY <1>1, <1>2, <1>4, <2>1, <2>4, <2>5 DEF Path
  <2>7. i \in 1..(Len(w) - 1)
    BY <1>4, <2>1, <2>6
  <2>8. w[i + 1] = NextTag(p)[w[i]]
    BY <1>1, <2>7 DEF Path
  <2> QED
    BY <1>4, <2>4, <2>7, <2>8 DEF i
<1>7. S \in SUBSET Nat
  OBVIOUS
<1>8. \A k \in Nat : k \in S
  <2> HIDE DEF S
  <2> QED
    BY <1>5, <1>6, <1>7, Numbers!Induction
<1>9. ASSUME NEW i \in 1..Len(tags)
      PROVE  i <= Len(w) /\ w[i] = tags[i].at
  <2>1. i - 1 \in Nat /\ (i - 1) + 1 = i
    BY <1>2
  <2>2. i - 1 \in S
    BY <1>8, <2>1
  <2> QED
    BY <2>1, <2>2
<1> QED
  BY <1>9 DEF w, p

(* What a reader finds there.                                              *)
LEMMA ShapedFind ==
  ASSUME NEW n \in Nat, NEW b \in Area(n), NEW s \in 0..n, NEW m \in s..n, NEW tags,
         Chain(tags, s), Tagged(b, tags), NEW tag_id \in Nat, NEW i \in 1..Len(tags),
         \A j \in 1..(i - 1) : tags[j].id # tag_id
  PROVE  /\ tags[i].id = tag_id => findTagPacket(Packet(b, m), tag_id) = tags[i].at
         /\ tags[i].id # tag_id /\ EndsData(tags[i]) => findTagPacket(Packet(b, m), tag_id) = NULL
<1> DEFINE p == Packet(b, m)
           w == TagPackets(p)
<1>1. w \in Seq(Fitting(p)) /\ Len(w) \in Nat /\ Len(tags) \in Nat /\ Len(tags) >= 1
  <2>1. w \in Seq(Fitting(p))
    <3>1. Path(w, IF 4 \in Fitting(p) THEN 4 ELSE NULL, NextTag(p), Fitting(p))
      BY TagsFacts
    <3> HIDE DEF w, p
    <3> QED
      BY <3>1 DEF Path
  <2>2. Len(tags) \in Nat /\ Len(tags) >= 1
    BY DEF Chain
  <2> HIDE DEF w, p
  <2> QED
    BY <2>1, <2>2
<1>2. \A j \in 1..Len(tags) : j \in 1..Len(w) /\ w[j] = tags[j].at
  <2>1. \A j \in 1..Len(tags) : j <= Len(w) /\ w[j] = tags[j].at
    BY ShapedWalk
  <2> HIDE DEF w
  <2> QED
    BY <1>1, <2>1
<1>3. \A j \in 1..Len(tags) : /\ getTagId(p, w[j]) = tags[j].id
                              /\ EndOfData(p, w[j]) <=> EndsData(tags[j])
  <2>1. \A j \in 1..Len(tags) : /\ getTagId(p, tags[j].at) = tags[j].id
                                /\ EndOfData(p, tags[j].at) <=> EndsData(tags[j])
    BY ShapedTag
  <2> HIDE DEF w, p
  <2> QED
    BY <1>2, <2>1
<1> HIDE DEF p
<1>4. ASSUME NEW j \in 1..(i - 1)
      PROVE  getTagId(p, w[j]) # tag_id /\ ~EndOfData(p, w[j])
  <2>1. j \in 1..Len(tags) /\ j \in 1..(Len(tags) - 1)
    BY <1>1
  <2>2. ~EndsData(tags[j])
    BY <2>1 DEF Chain
  <2> QED
    BY <1>3, <2>1, <2>2
<1>5. i \in 1..Len(w) /\ w[i] = tags[i].at
  BY <1>2
<1>6. CASE tags[i].id = tag_id
  <2>1. getTagId(p, w[i]) = tag_id
    BY <1>3, <1>6
  <2> QED
    BY <1>1, <1>4, <1>5, <1>6, <2>1, FoundAt DEF p
<1>7. CASE tags[i].id # tag_id /\ EndsData(tags[i])
  <2>1. EndOfData(p, w[i])
    BY <1>3, <1>7
  <2>2. ASSUME NEW j \in 1..i
        PROVE  getTagId(p, w[j]) # tag_id
    <3>1. j = i \/ j \in 1..(i - 1)
      OBVIOUS
    <3> QED
      BY <1>3, <1>4, <1>7, <3>1
  <2> HIDE DEF w
  <2>3. findTagPacket(p, tag_id) = NULL
    BY <1>1, <1>5, <2>1, <2>2, NotFound DEF w
  <2> QED
    BY <1>7, <2>3 DEF p
<1> QED
  BY <1>6, <1>7

(* The packets of a data2 tag of l bytes, of a discovery request and of a  *)
(* discovery response.                                                     *)
Data2Shape(l) == <<[at |-> 4, id |-> 672, length |-> 4], [at |-> 12, id |-> 16, length |-> l],
                   [at |-> 16 + l, id |-> 0, length |-> 0]>>
RequestShape == <<[at |-> 4, id |-> 672, length |-> 4], [at |-> 12, id |-> 32, length |-> 0],
                  [at |-> 16, id |-> 0, length |-> 0]>>
ResponseShape == <<[at |-> 4, id |-> 672, length |-> 4], [at |-> 12, id |-> 0, length |-> 2],
                   [at |-> 18, id |-> 16, length |-> 4], [at |-> 26, id |-> 32, length |-> 4],
                   [at |-> 34, id |-> 48, length |-> 4], [at |-> 42, id |-> 112, length |-> 2],
                   [at |-> 48, id |-> 128, length |-> 1], [at |-> 53, id |-> 0, length |-> 0]>>

(* The three shapes are chains of tags that the end of data closes.        *)
LEMMA Shapes ==
  /\ \A l \in Nat : Shape(Data2Shape(l), 20 + l)
  /\ Shape(RequestShape, 20)
  /\ Shape(ResponseShape, 57)
<1>1. ASSUME NEW l \in Nat PROVE Shape(Data2Shape(l), 20 + l)
  <2> DEFINE t == Data2Shape(l)
  <2>1. t \in Seq(TagRecords) /\ Len(t) = 3
    BY DEF Data2Shape, TagRecords
  <2>2. /\ t[1].at = 4 /\ t[1].id = 672 /\ t[1].length = 4
        /\ t[2].at = 12 /\ t[2].id = 16 /\ t[2].length = l
        /\ t[3].at = 16 + l /\ t[3].id = 0 /\ t[3].length = 0
    BY DEF Data2Shape
  <2> HIDE DEF t
  <2>3. \A i \in 1..(Len(t) - 1) : i = 1 \/ i = 2
    BY <2>1
  <2>4. \A i \in 1..Len(t) : i = 1 \/ i = 2 \/ i = 3
    BY <2>1
  <2>5. Chain(t, 20 + l)
    BY <2>1, <2>2, <2>3, <2>4 DEF Chain, EndsData
  <2>6. EndsData(t[Len(t)]) /\ t[Len(t)].at + 4 = 20 + l
    BY <2>1, <2>2 DEF EndsData
  <2> QED
    BY <2>5, <2>6 DEF Shape, t
<1>2. Shape(RequestShape, 20)
  <2> DEFINE t == RequestShape
  <2>1. t \in Seq(TagRecords) /\ Len(t) = 3
    BY DEF RequestShape, TagRecords
  <2>2. /\ t[1].at = 4 /\ t[1].id = 672 /\ t[1].length = 4
        /\ t[2].at = 12 /\ t[2].id = 32 /\ t[2].length = 0
        /\ t[3].at = 16 /\ t[3].id = 0 /\ t[3].length = 0
    BY DEF RequestShape
  <2> HIDE DEF t
  <2>3. \A i \in 1..(Len(t) - 1) : i = 1 \/ i = 2
    BY <2>1
  <2>4. \A i \in 1..Len(t) : i = 1 \/ i = 2 \/ i = 3
    BY <2>1
  <2>5. Chain(t, 20)
    BY <2>1, <2>2, <2>3, <2>4 DEF Chain, EndsData
  <2>6. EndsData(t[Len(t)]) /\ t[Len(t)].at + 4 = 20
    BY <2>1, <2>2 DEF EndsData
  <2> QED
    BY <2>5, <2>6 DEF Shape, t
<1>3. Shape(ResponseShape, 57)
  <2> DEFINE t == ResponseShape
  <2>1. t \in Seq(TagRecords) /\ Len(t) = 8
    BY DEF ResponseShape, TagRecords
  <2>2. /\ t[1].at = 4 /\ t[1].id = 672 /\ t[1].length = 4
        /\ t[2].at = 12 /\ t[2].id = 0 /\ t[2].length = 2
        /\ t[3].at = 18 /\ t[3].id = 16 /\ t[3].length = 4
        /\ t[4].at = 26 /\ t[4].id = 32 /\ t[4].length = 4
        /\ t[5].at = 34 /\ t[5].id = 48 /\ t[5].length = 4
        /\ t[6].at = 42 /\ t[6].id = 112 /\ t[6].length = 2
        /\ t[7].at = 48 /\ t[7].id = 128 /\ t[7].length = 1
        /\ t[8].at = 53 /\ t[8].id = 0 /\ t[8].length = 0
    BY DEF ResponseShape
  <2> HIDE DEF t
  <2>4. \A i \in 1..Len(t) : i = 1 \/ i = 2 \/ i = 3 \/ i = 4 \/ i = 5 \/ i = 6 \/ i = 7 \/ i = 8
    BY <2>1
  <2>5. ASSUME NEW i \in 1..(Len(t) - 1)
        PROVE  t[i + 1].at = t[i].at + 4 + t[i].length /\ ~EndsData(t[i])
    <3>1. CASE i = 1
      <4>1. i + 1 = 2
        BY <3>1
      <4> QED
        BY SMTT(30), <2>2, <3>1, <4>1 DEF EndsData
    <3>2. CASE i = 2
      <4>1. i + 1 = 3
        BY <3>2
      <4> QED
        BY SMTT(30), <2>2, <3>2, <4>1 DEF EndsData
    <3>3. CASE i = 3
      <4>1. i + 1 = 4
        BY <3>3
      <4> QED
        BY SMTT(30), <2>2, <3>3, <4>1 DEF EndsData
    <3>4. CASE i = 4
      <4>1. i + 1 = 5
        BY <3>4
      <4> QED
        BY <2>2, <3>4, <4>1 DEF EndsData
    <3>5. CASE i = 5
      <4>1. i + 1 = 6
        BY <3>5
      <4> QED
        BY SMTT(30), <2>2, <3>5, <4>1 DEF EndsData
    <3>6. CASE i = 6
      <4>1. i + 1 = 7
        BY <3>6
      <4> QED
        BY SMTT(30), <2>2, <3>6, <4>1 DEF EndsData
    <3>7. CASE i = 7
      <4>1. i + 1 = 8
        BY <3>7
      <4> QED
        BY SMTT(30), <2>2, <3>7, <4>1 DEF EndsData
    <3> QED
      BY <2>1, <3>1, <3>2, <3>3, <3>4, <3>5, <3>6, <3>7
  <2>6. ASSUME NEW i \in 1..Len(t)
        PROVE  t[i].at + 4 + t[i].length <= 57
    <3>1. CASE i = 1
      BY <2>2, <3>1
    <3>2. CASE i = 2
      BY <2>2, <3>2
    <3>3. CASE i = 3
      BY SMTT(30), <2>2, <3>3
    <3>4. CASE i = 4
      BY <2>2, <3>4
    <3>5. CASE i = 5
      BY <2>2, <3>5
    <3>6. CASE i = 6
      BY <2>2, <3>6
    <3>7. CASE i = 7
      BY <2>2, <3>7
    <3>8. CASE i = 8
      BY <2>2, <3>8
    <3> QED
      BY <2>4, <3>1, <3>2, <3>3, <3>4, <3>5, <3>6, <3>7, <3>8
  <2>7. Chain(t, 57)
    BY <2>1, <2>2, <2>5, <2>6 DEF Chain
  <2>8. EndsData(t[Len(t)]) /\ t[Len(t)].at + 4 = 57
    BY <2>1, <2>2 DEF EndsData
  <2> QED
    BY <2>7, <2>8 DEF Shape, t
<1> QED
  BY <1>1, <1>2, <1>3

(* What readers find in them, whatever size of the area they are told.     *)
LEMMA FindInData2 ==
  ASSUME NEW n \in Nat, NEW b \in Area(n), NEW l \in Nat, 20 + l <= n, NEW m \in (20 + l)..n,
         Tagged(b, Data2Shape(l))
  PROVE  /\ findTagPacket(Packet(b, m), 672) = 4 /\ findTagPacket(Packet(b, m), 16) = 12
         /\ findTagPacket(Packet(b, m), 32) = NULL /\ findTagPacket(Packet(b, m), 48) = NULL
<1> DEFINE t == Data2Shape(l)
           s == 20 + l
<1>1. Chain(t, s)
  BY Shapes DEF Shape
<1>2. s \in 0..n /\ m \in s..n
  OBVIOUS
<1>3. /\ Len(t) = 3 /\ t[1].at = 4 /\ t[1].id = 672 /\ t[2].at = 12 /\ t[2].id = 16
      /\ t[3].id = 0 /\ EndsData(t[3])
  BY DEF Data2Shape, EndsData
<1>4. Tagged(b, t)
  OBVIOUS
<1> HIDE DEF t, s
<1>5. ASSUME NEW i \in 1..3, NEW tag_id \in Nat, \A j \in 1..(i - 1) : t[j].id # tag_id
      PROVE  /\ t[i].id = tag_id => findTagPacket(Packet(b, m), tag_id) = t[i].at
             /\ t[i].id # tag_id /\ EndsData(t[i]) => findTagPacket(Packet(b, m), tag_id) = NULL
  <2>1. i \in 1..Len(t)
    BY <1>3
  <2> QED
    BY SMTT(30), <1>1, <1>2, <1>4, <1>5, <2>1, ShapedFind
<1>6. findTagPacket(Packet(b, m), 672) = 4
  <2>1. \A j \in 1..(1 - 1) : t[j].id # 672
    OBVIOUS
  <2> QED
    BY <1>3, <1>5, <2>1
<1>7. findTagPacket(Packet(b, m), 16) = 12
  <2>1. \A j \in 1..(2 - 1) : t[j].id # 16
    BY <1>3
  <2> QED
    BY <1>3, <1>5, <2>1
<1>8. ASSUME NEW tag_id \in {32, 48} PROVE findTagPacket(Packet(b, m), tag_id) = NULL
  <2>1. \A j \in 1..(3 - 1) : t[j].id # tag_id
    <3>1. \A j \in 1..(3 - 1) : j = 1 \/ j = 2
      OBVIOUS
    <3> QED
      BY <1>3, <3>1
  <2> QED
    BY <1>3, <1>5, <2>1
<1> QED
  BY <1>6, <1>7, <1>8

(* The tags that findTagPacket finds in a discovery request.               *)
LEMMA FindInRequest ==
  ASSUME NEW n \in Nat, NEW b \in Area(n), 20 <= n, NEW m \in 20..n, Tagged(b, RequestShape)
  PROVE  /\ findTagPacket(Packet(b, m), 672) = 4 /\ findTagPacket(Packet(b, m), 16) = NULL
         /\ findTagPacket(Packet(b, m), 32) = 12 /\ findTagPacket(Packet(b, m), 48) = NULL
<1> DEFINE t == RequestShape
           s == 20
<1>1. Chain(t, s)
  BY Shapes DEF Shape
<1>2. s \in 0..n /\ m \in s..n
  OBVIOUS
<1>3. /\ Len(t) = 3 /\ t[1].at = 4 /\ t[1].id = 672 /\ t[2].at = 12 /\ t[2].id = 32
      /\ t[3].id = 0 /\ EndsData(t[3])
  BY DEF RequestShape, EndsData
<1>4. Tagged(b, t)
  OBVIOUS
<1> HIDE DEF t, s
<1>5. ASSUME NEW i \in 1..3, NEW tag_id \in Nat, \A j \in 1..(i - 1) : t[j].id # tag_id
      PROVE  /\ t[i].id = tag_id => findTagPacket(Packet(b, m), tag_id) = t[i].at
             /\ t[i].id # tag_id /\ EndsData(t[i]) => findTagPacket(Packet(b, m), tag_id) = NULL
  <2>1. i \in 1..Len(t)
    BY <1>3
  <2> QED
    BY <1>1, <1>2, <1>4, <1>5, <2>1, ShapedFind
<1>6. findTagPacket(Packet(b, m), 672) = 4
  <2>1. \A j \in 1..(1 - 1) : t[j].id # 672
    OBVIOUS
  <2> QED
    BY <1>3, <1>5, <2>1
<1>7. findTagPacket(Packet(b, m), 32) = 12
  <2>1. \A j \in 1..(2 - 1) : t[j].id # 32
    BY <1>3
  <2> QED
    BY <1>3, <1>5, <2>1
<1>8. ASSUME NEW tag_id \in {16, 48} PROVE findTagPacket(Packet(b, m), tag_id) = NULL
  <2>1. \A j \in 1..(3 - 1) : t[j].id # tag_id
    <3>1. \A j \in 1..(3 - 1) : j = 1 \/ j = 2
      OBVIOUS
    <3> QED
      BY <1>3, <3>1
  <2> QED
    BY <1>3, <1>5, <2>1
<1> QED
  BY <1>6, <1>7, <1>8

(* The tags that findTagPacket finds in a discovery response.              *)
LEMMA FindInResponse ==
  ASSUME NEW n \in Nat, NEW b \in Area(n), 57 <= n, NEW m \in 57..n, Tagged(b, ResponseShape)
  PROVE  /\ findTagPacket(Packet(b, m), 672) = 4 /\ findTagPacket(Packet(b, m), 16) = 18
         /\ findTagPacket(Packet(b, m), 32) = 26 /\ findTagPacket(Packet(b, m), 48) = 34
<1> DEFINE t == ResponseShape
           s == 57
<1>1. Chain(t, s)
  BY Shapes DEF Shape
<1>2. s \in 0..n /\ m \in s..n
  OBVIOUS
<1>3. /\ Len(t) = 8 /\ t[1].at = 4 /\ t[1].id = 672 /\ t[2].id = 0 /\ t[3].at = 18 /\ t[3].id = 16
      /\ t[4].at = 26 /\ t[4].id = 32 /\ t[5].at = 34 /\ t[5].id = 48
  BY DEF ResponseShape
<1>4. Tagged(b, t)
  OBVIOUS
<1> HIDE DEF t, s
<1>5. ASSUME NEW i \in 1..8, NEW tag_id \in Nat, \A j \in 1..(i - 1) : t[j].id # tag_id,
             t[i].id = tag_id
      PROVE  findTagPacket(Packet(b, m), tag_id) = t[i].at
  <2>1. i \in 1..Len(t)
    BY <1>3
  <2> QED
    BY <1>1, <1>2, <1>4, <1>5, <2>1, ShapedFind
<1>6. findTagPacket(Packet(b, m), 672) = 4
  <2>1. \A j \in 1..(1 - 1) : t[j].id # 672
    OBVIOUS
  <2> QED
    BY <1>3, <1>5, <2>1
<1>7. findTagPacket(Packet(b, m), 16) = 18
  <2>1. \A j \in 1..(3 - 1) : j = 1 \/ j = 2
    OBVIOUS
  <2>2. \A j \in 1..(3 - 1) : t[j].id # 16
    BY <1>3, <2>1
  <2> QED
    BY <1>3, <1>5, <2>2
<1>8. findTagPacket(Packet(b, m), 32) = 26
  <2>1. \A j \in 1..(4 - 1) : j = 1 \/ j = 2 \/ j = 3
    OBVIOUS
  <2>2. \A j \in 1..(4 - 1) : t[j].id # 32
    BY <1>3, <2>1
  <2> QED
    BY <1>3, <1>5, <2>2
<1>9. findTagPacket(Packet(b, m), 48) = 34
  <2>1. \A j \in 1..(5 - 1) : j = 1 \/ j = 2 \/ j = 3 \/ j = 4
    OBVIOUS
  <2>2. \A j \in 1..(5 - 1) : t[j].id # 48
    BY <1>3, <2>1
  <2> QED
    BY <1>3, <1>5, <2>2
<1> QED
  BY <1>6, <1>7, <1>8, <1>9

-----------------------------------------------------------------------------
(* Bytes that senders put together                                         *)

(* The tag behind the first at bytes of a sequence.                        *)
SeqTag(s, at, id, length) ==
    /\ at + 4 <= Len(s)
    /\ s[at + 1] * 256 + s[at + 2] = length /\ s[at + 3] * 256 + s[at + 4] = id

(* Two bytes behind two bytes.                                             *)
LEMMA TwoAndTwo ==
  ASSUME NEW a \in Seq(Byte), NEW c \in Seq(Byte), Len(a) = 2, Len(c) = 2
  PROVE  /\ a \o c \in Seq(Byte) /\ Len(a \o c) = 4
         /\ (a \o c)[1] = a[1] /\ (a \o c)[2] = a[2]
         /\ (a \o c)[3] = c[1] /\ (a \o c)[4] = c[2]
<1>1. PICK h : h = a \o c
  OBVIOUS
<1>2. /\ h \in Seq(Byte) /\ Len(h) = Len(a) + Len(c)
      /\ \A i \in 1..Len(a) : h[i] = a[i]
      /\ \A i \in 1..Len(c) : h[Len(a) + i] = c[i]
  BY <1>1, Joined, Zenon
<1>3. Len(a) + 1 = 3 /\ Len(a) + 2 = 4 /\ 1 \in 1..Len(a) /\ 2 \in 1..Len(a)
      /\ 1 \in 1..Len(c) /\ 2 \in 1..Len(c)
  OBVIOUS
<1>4. h[1] = a[1] /\ h[2] = a[2] /\ h[3] = c[1] /\ h[4] = c[2]
  BY <1>2, <1>3
<1> QED
  BY <1>1, <1>2, <1>4

(* The bytes of a tag hold its length, its id and its payload.             *)
LEMMA TagBytesIs ==
  ASSUME NEW id \in Nat, id <= UINT16_MAX, NEW payload \in Seq(Byte), Len(payload) <= UINT16_MAX
  PROVE  /\ TagBytes(id, payload) \in Seq(Byte) /\ Len(TagBytes(id, payload)) = 4 + Len(payload)
         /\ SeqTag(TagBytes(id, payload), 0, id, Len(payload))
         /\ \A i \in 1..Len(payload) : TagBytes(id, payload)[4 + i] = payload[i]
<1>1. PICK a \in Seq(Byte) : a = Uint16(Len(payload)) /\ Len(a) = 2 /\ a[1] * 256 + a[2] = Len(payload)
  <2>1. Len(payload) \in Nat
    OBVIOUS
  <2> QED
    BY <2>1, Uint16Of
<1>2. PICK c \in Seq(Byte) : c = Uint16(id) /\ Len(c) = 2 /\ c[1] * 256 + c[2] = id
  BY Uint16Of
<1>3. PICK h : h = a \o c
  OBVIOUS
<1>4. h \in Seq(Byte) /\ Len(h) = 4 /\ h[1] = a[1] /\ h[2] = a[2] /\ h[3] = c[1] /\ h[4] = c[2]
  BY <1>1, <1>2, <1>3, TwoAndTwo
<1>5. PICK t : t = h \o payload
  OBVIOUS
<1>6. /\ t \in Seq(Byte) /\ Len(t) = Len(h) + Len(payload)
      /\ \A i \in 1..Len(h) : t[i] = h[i]
      /\ \A i \in 1..Len(payload) : t[Len(h) + i] = payload[i]
  BY <1>4, <1>5, Joined
<1>7. TagBytes(id, payload) = t
  BY <1>1, <1>2, <1>3, <1>5, Zenon DEF TagBytes
<1>8. t[1] = h[1] /\ t[2] = h[2] /\ t[3] = h[3] /\ t[4] = h[4] /\ Len(t) = 4 + Len(payload)
      /\ \A i \in 1..Len(payload) : t[4 + i] = payload[i]
  <2>1. 1 \in 1..Len(h) /\ 2 \in 1..Len(h) /\ 3 \in 1..Len(h) /\ 4 \in 1..Len(h) /\ Len(h) = 4
    BY <1>4
  <2> QED
    BY <1>6, <2>1
<1>9. SeqTag(t, 0, id, Len(payload))
  BY <1>1, <1>2, <1>4, <1>8 DEF SeqTag
<1> QED
  BY <1>6, <1>7, <1>8, <1>9

(* A tag put behind bytes leaves them alone.                               *)
LEMMA JoinTag ==
  ASSUME NEW s \in Seq(Byte), NEW id \in Nat, id <= UINT16_MAX, NEW payload \in Seq(Byte),
         Len(payload) <= UINT16_MAX
  PROVE  /\ s \o TagBytes(id, payload) \in Seq(Byte)
         /\ Len(s \o TagBytes(id, payload)) = Len(s) + 4 + Len(payload)
         /\ SeqTag(s \o TagBytes(id, payload), Len(s), id, Len(payload))
         /\ \A i \in 1..Len(s) : (s \o TagBytes(id, payload))[i] = s[i]
         /\ \A i \in 1..Len(payload) : (s \o TagBytes(id, payload))[Len(s) + 4 + i] = payload[i]
<1>1. PICK t \in Seq(Byte) :
             /\ t = TagBytes(id, payload) /\ Len(t) = 4 + Len(payload)
             /\ SeqTag(t, 0, id, Len(payload)) /\ \A i \in 1..Len(payload) : t[4 + i] = payload[i]
  BY TagBytesIs
<1>2. PICK r : r = s \o t
  OBVIOUS
<1>8. /\ r \in Seq(Byte) /\ Len(r) = Len(s) + Len(t)
      /\ \A i \in 1..Len(s) : r[i] = s[i]
      /\ \A i \in 1..Len(t) : r[Len(s) + i] = t[i]
  <2>1. t \in Seq(Byte)
    OBVIOUS
  <2> QED
    BY <1>2, <2>1, Joined
<1>3. Len(s) \in Nat /\ Len(payload) \in Nat
  OBVIOUS
<1>4. SeqTag(r, Len(s), id, Len(payload))
  <2>1. \A i \in 1..4 : r[Len(s) + i] = t[i]
    BY SMTT(30), <1>1, <1>8, <1>3
  <2> QED
    BY <1>1, <1>8, <1>3, <2>1 DEF SeqTag
<1>5. \A i \in 1..Len(payload) : r[Len(s) + 4 + i] = payload[i]
  <2>1. \A i \in 1..Len(payload) : 4 + i \in 1..Len(t) /\ Len(s) + (4 + i) = Len(s) + 4 + i
    BY <1>1, <1>3
  <2> QED
    BY <1>1, <1>8, <2>1
<1>6. s \o TagBytes(id, payload) = r
  BY <1>1, <1>2, Zenon
<1>7. Len(r) = Len(s) + 4 + Len(payload)
  BY <1>1, <1>8, <1>3
<1> QED
  BY <1>8, <1>4, <1>5, <1>6, <1>7

(* What was there stays.                                                   *)
LEMMA KeptTag ==
  ASSUME NEW s \in Seq(Byte), NEW r \in Seq(Byte), Len(s) <= Len(r),
         \A i \in 1..Len(s) : r[i] = s[i], NEW at \in Nat, NEW id, NEW length,
         SeqTag(s, at, id, length)
  PROVE  SeqTag(r, at, id, length)
<1>1. \A i \in 1..4 : at + i \in 1..Len(s)
  BY DEF SeqTag
<1> QED
  BY <1>1 DEF SeqTag

(* A sequence that is written to the begin of a memory area.               *)
LEMMA WrittenTag ==
  ASSUME NEW n \in Nat, NEW b \in Area(n), NEW s \in Seq(Byte), Len(s) <= n,
         NEW at \in Nat, NEW id, NEW length, SeqTag(s, at, id, length)
  PROVE  Tag(WriteBytes(b, 0, s), at, id, length)
<1>1. \A i \in 1..Len(s) : WriteBytes(b, 0, s)[(0 + i) - 1] = s[i]
  <2>1. 0 \in Nat /\ \A i \in 1..Len(s) : 0 + i <= n
    OBVIOUS
  <2> QED
    BY <2>1, WriteInside
<1>2. \A i \in 1..4 : at + i \in 1..Len(s) /\ (0 + (at + i)) - 1 = at + (i - 1)
  BY DEF SeqTag
<1>3. \A i \in 1..4 : WriteBytes(b, 0, s)[at + (i - 1)] = s[at + i]
  BY <1>1, <1>2
<1>4. /\ WriteBytes(b, 0, s)[at] = s[at + 1] /\ WriteBytes(b, 0, s)[at + 1] = s[at + 2]
      /\ WriteBytes(b, 0, s)[at + 2] = s[at + 3] /\ WriteBytes(b, 0, s)[at + 3] = s[at + 4]
  BY <1>3
<1> QED
  BY <1>4 DEF SeqTag, Tag

(* The three tags of a data2 packet.                                       *)
LEMMA ThreeTags ==
  ASSUME NEW b, NEW l
  PROVE  Tagged(b, Data2Shape(l)) <=> /\ Tag(b, 4, 672, 4) /\ Tag(b, 12, 16, l)
                                      /\ Tag(b, 16 + l, 0, 0)
<1> DEFINE t == Data2Shape(l)
<1>1. /\ DOMAIN t = 1..3
      /\ t[1].at = 4 /\ t[1].id = 672 /\ t[1].length = 4
      /\ t[2].at = 12 /\ t[2].id = 16 /\ t[2].length = l
      /\ t[3].at = 16 + l /\ t[3].id = 0 /\ t[3].length = 0
  BY DEF Data2Shape
<1>2. \A i \in 1..3 : i = 1 \/ i = 2 \/ i = 3
  OBVIOUS
<1>3. 1 \in 1..3 /\ 2 \in 1..3 /\ 3 \in 1..3
  OBVIOUS
<1> HIDE DEF t
<1>4. Tagged(b, t) <=> \A i \in 1..3 : Tag(b, t[i].at, t[i].id, t[i].length)
  BY <1>1 DEF Tagged
<1>5. (\A i \in 1..3 : Tag(b, t[i].at, t[i].id, t[i].length)) =>
          Tag(b, 4, 672, 4) /\ Tag(b, 12, 16, l) /\ Tag(b, 16 + l, 0, 0)
  <2> SUFFICES ASSUME \A i \in 1..3 : Tag(b, t[i].at, t[i].id, t[i].length)
               PROVE  Tag(b, 4, 672, 4) /\ Tag(b, 12, 16, l) /\ Tag(b, 16 + l, 0, 0)
    OBVIOUS
  <2>1. Tag(b, t[1].at, t[1].id, t[1].length) /\ Tag(b, t[2].at, t[2].id, t[2].length)
        /\ Tag(b, t[3].at, t[3].id, t[3].length)
    BY <1>3
  <2> QED
    BY <1>1, <2>1
<1>6. ASSUME Tag(b, 4, 672, 4), Tag(b, 12, 16, l), Tag(b, 16 + l, 0, 0)
      PROVE  \A i \in 1..3 : Tag(b, t[i].at, t[i].id, t[i].length)
  <2>1. Tag(b, t[1].at, t[1].id, t[1].length) /\ Tag(b, t[2].at, t[2].id, t[2].length)
        /\ Tag(b, t[3].at, t[3].id, t[3].length)
    BY <1>1, <1>6
  <2> QED
    BY <1>2, <2>1
<1> QED
  BY <1>4, <1>5, <1>6 DEF t

(* A tag that is not written over stays.                                   *)
LEMMA TagStays ==
  ASSUME NEW b, NEW c, NEW at \in Nat, NEW id, NEW length, Tag(b, at, id, length),
         \A o \in at..(at + 3) : c[o] = b[o]
  PROVE  Tag(c, at, id, length)
<1>1. at \in at..(at + 3) /\ at + 1 \in at..(at + 3) /\ at + 2 \in at..(at + 3) /\ at + 3 \in at..(at + 3)
  OBVIOUS
<1>2. c[at] = b[at] /\ c[at + 1] = b[at + 1] /\ c[at + 2] = b[at + 2] /\ c[at + 3] = b[at + 3]
  BY <1>1
<1> QED
  BY <1>2 DEF Tag

(* The bytes in front of the payload of a data2 packet.                    *)
HeadBytes(l) == sma_signature \o TagBytes(sma_tag_group_id, Group1) \o Uint16(l) \o Uint16(sma_tag_data2)

Signed(b) == b[0] = 83 /\ b[1] = 77 /\ b[2] = 65 /\ b[3] = 0

(* The 16 bytes that setDefaultHeader begins a packet with: signature,     *)
(* group tag and the head of the data2 tag.                                *)
LEMMA HeadBytesAre ==
  ASSUME NEW l \in Nat, l <= UINT16_MAX
  PROVE  /\ HeadBytes(l) \in Seq(Byte) /\ Len(HeadBytes(l)) = 16
         /\ HeadBytes(l)[1] = 83 /\ HeadBytes(l)[2] = 77 /\ HeadBytes(l)[3] = 65 /\ HeadBytes(l)[4] = 0
         /\ SeqTag(HeadBytes(l), 4, 672, 4) /\ SeqTag(HeadBytes(l), 12, 16, l)
<1>1. PICK s \in Seq(Byte) : s = sma_signature /\ Len(s) = 4 /\ s[1] = 83 /\ s[2] = 77 /\ s[3] = 65 /\ s[4] = 0
  <2>1. <<83, 77, 65, 0>> \in Seq(Byte)
    BY DEF Byte
  <2> QED
    BY <2>1 DEF sma_signature
<1>2. PICK g \in Seq(Byte) : g = Group1 /\ Len(g) = 4
  <2>1. <<0, 0, 0, 1>> \in Seq(Byte)
    BY DEF Byte
  <2> QED
    BY <2>1 DEF Group1
<1>3. PICK u \in Seq(Byte) : u = Uint16(l) /\ Len(u) = 2 /\ u[1] * 256 + u[2] = l
  BY Uint16Of
<1>4. 16 \in Nat /\ 672 \in Nat /\ 16 <= UINT16_MAX /\ 672 <= UINT16_MAX /\ Len(g) <= UINT16_MAX
  BY <1>2 DEF UINT16_MAX
<1>5. PICK v \in Seq(Byte) : v = Uint16(16) /\ Len(v) = 2 /\ v[1] * 256 + v[2] = 16
  BY <1>4, Uint16Of
<1>6. PICK x : x = s \o TagBytes(672, g)
  OBVIOUS
<1>7. /\ x \in Seq(Byte) /\ Len(x) = Len(s) + 4 + Len(g) /\ SeqTag(x, Len(s), 672, Len(g))
      /\ \A i \in 1..Len(s) : x[i] = s[i]
  <2>1. PICK id \in Nat : id = 672 /\ id <= UINT16_MAX /\ Len(g) <= UINT16_MAX
    BY <1>4
  <2>2. PICK y : y = s \o TagBytes(id, g)
    OBVIOUS
  <2>3. /\ y \in Seq(Byte) /\ Len(y) = Len(s) + 4 + Len(g) /\ SeqTag(y, Len(s), id, Len(g))
        /\ \A i \in 1..Len(s) : y[i] = s[i]
    BY <2>1, <2>2, JoinTag
  <2> QED
    BY <1>6, <2>1, <2>2, <2>3
<1>8. Len(x) = 12 /\ SeqTag(x, 4, 672, 4) /\ x[1] = 83 /\ x[2] = 77 /\ x[3] = 65 /\ x[4] = 0
  BY <1>1, <1>2, <1>7
<1>9. PICK y : y = x \o u
  OBVIOUS
<1>10. /\ y \in Seq(Byte) /\ Len(y) = Len(x) + Len(u) /\ \A i \in 1..Len(x) : y[i] = x[i]
       /\ \A i \in 1..Len(u) : y[Len(x) + i] = u[i]
  <2>1. u \in Seq(Byte) /\ x \in Seq(Byte)
    BY <1>7
  <2> QED
    BY <1>9, <2>1, Joined
<1>11. Len(y) = 14 /\ SeqTag(y, 4, 672, 4) /\ y[13] = u[1] /\ y[14] = u[2]
       /\ y[1] = 83 /\ y[2] = 77 /\ y[3] = 65 /\ y[4] = 0
  <2>1. Len(y) = 14 /\ \A i \in 1..12 : y[i] = x[i]
    BY <1>3, <1>8, <1>10
  <2>2. 1 \in 1..Len(u) /\ 2 \in 1..Len(u) /\ Len(x) + 1 = 13 /\ Len(x) + 2 = 14
    BY <1>3, <1>8
  <2>3. y[13] = u[1] /\ y[14] = u[2]
    BY <1>10, <2>2
  <2> QED
    BY <1>8, <2>1, <2>3 DEF SeqTag
<1>12. PICK z : z = y \o v
  OBVIOUS
<1>13. /\ z \in Seq(Byte) /\ Len(z) = Len(y) + Len(v) /\ \A i \in 1..Len(y) : z[i] = y[i]
       /\ \A i \in 1..Len(v) : z[Len(y) + i] = v[i]
  <2>1. v \in Seq(Byte) /\ y \in Seq(Byte)
    BY <1>10
  <2> QED
    BY <1>12, <2>1, Joined
<1>14. Len(z) = 16 /\ SeqTag(z, 4, 672, 4) /\ SeqTag(z, 12, 16, l)
       /\ z[1] = 83 /\ z[2] = 77 /\ z[3] = 65 /\ z[4] = 0
  <2>1. Len(z) = 16 /\ \A i \in 1..14 : z[i] = y[i]
    BY <1>5, <1>11, <1>13
  <2>2. 1 \in 1..Len(v) /\ 2 \in 1..Len(v) /\ Len(y) + 1 = 15 /\ Len(y) + 2 = 16
    BY <1>5, <1>11
  <2>3. z[15] = v[1] /\ z[16] = v[2]
    BY <1>13, <2>2
  <2> QED
    BY <1>3, <1>5, <1>11, <2>1, <2>3 DEF SeqTag
<1>15. HeadBytes(l) = z
  BY <1>1, <1>2, <1>3, <1>5, <1>6, <1>9, <1>12 DEF HeadBytes, sma_tag_group_id, sma_tag_data2
<1>16. z \in Seq(Byte)
  BY <1>13
<1> HIDE DEF HeadBytes
<1>17. /\ z \in Seq(Byte) /\ Len(z) = 16 /\ z[1] = 83 /\ z[2] = 77 /\ z[3] = 65 /\ z[4] = 0
       /\ SeqTag(z, 4, 672, 4) /\ SeqTag(z, 12, 16, l)
  BY <1>14, <1>16
<1> QED
  BY <1>15, <1>17

(* The end of data is a tag of no bytes.                                   *)
LEMMA EndTagIs ==
  /\ TagBytes(0, <<>>) \in Seq(Byte) /\ Len(TagBytes(0, <<>>)) = 4
  /\ SeqTag(TagBytes(0, <<>>), 0, 0, 0)
<1>1. 0 \in Nat /\ <<>> \in Seq(Byte) /\ Len(<<>>) = 0 /\ 0 <= UINT16_MAX
  BY DEF UINT16_MAX
<1>2. PICK e \in Seq(Byte) : e = <<>> /\ Len(e) = 0 /\ Len(e) <= UINT16_MAX
  BY <1>1
<1>3. /\ TagBytes(0, e) \in Seq(Byte) /\ Len(TagBytes(0, e)) = 4 + Len(e)
      /\ SeqTag(TagBytes(0, e), 0, 0, Len(e))
  BY <1>1, <1>2, TagBytesIs
<1> QED
  BY <1>2, <1>3

Protocols == {sma_emeter_protocol_id, sma_extended_emeter_protocol_id, sma_inverter_protocol_id,
              sma_encryption_protocol_id}

(* A memory area that holds a data2 packet with l bytes of a protocol.     *)
Headed(b, l, protocol) ==
    Signed(b) /\ Tagged(b, Data2Shape(l)) /\ b[16] * 256 + b[17] = protocol

(* setDefaultHeader leaves the tags, the protocol id and, for inverters,   *)
(* the long words, and spares the payload.                                 *)
LEMMA HeaderIs ==
  ASSUME NEW n \in Nat, NEW b \in Area(n), NEW l \in Nat, l >= 4, l <= UINT16_MAX, 20 + l <= n,
         NEW protocol \in Protocols,
         NEW h, h = setDefaultHeader(Packet(b, 20 + l), Group1, l, protocol)
  PROVE  /\ h \in Area(n) /\ Headed(h, l, protocol)
         /\ \A o \in 20..(15 + l) : h[o] = b[o]
         /\ protocol = sma_emeter_protocol_id => \A o \in 18..(15 + l) : h[o] = b[o]
         /\ protocol = sma_inverter_protocol_id => h[18] = (l \div 4) % 256
<1>1. PICK s \in Seq(Byte) : /\ s = HeadBytes(l) /\ Len(s) = 16
                             /\ s[1] = 83 /\ s[2] = 77 /\ s[3] = 65 /\ s[4] = 0
                             /\ SeqTag(s, 4, 672, 4) /\ SeqTag(s, 12, 16, l)
  BY HeadBytesAre
<1>2. PICK front : front = WriteBytes(b, 0, s)
  OBVIOUS
<1>3. front \in Area(n)
  BY <1>2, WriteTyped
<1>4. \A o \in 16..(n - 1) : front[o] = b[o]
  <2>1. ASSUME NEW o \in 16..(n - 1) PROVE front[o] = b[o]
    <3>1. 0 \in Nat /\ o \in 0..(n - 1) /\ (o < 0 \/ o >= 0 + Len(s)) /\ s \in Seq(Byte)
      BY <1>1
    <3> QED
      BY <1>2, <3>1, WriteOutside
  <2> QED
    BY <2>1
<1>5. Signed(front)
  <2>1. ASSUME NEW i \in 1..4 PROVE front[(0 + i) - 1] = s[i]
    <3>1. 0 \in Nat /\ i \in 1..Len(s) /\ 0 + i <= n /\ s \in Seq(Byte)
      BY <1>1
    <3> QED
      BY <1>2, <3>1, WriteInside
  <2>2. front[(0 + 1) - 1] = s[1] /\ front[(0 + 2) - 1] = s[2] /\ front[(0 + 3) - 1] = s[3] /\ front[(0 + 4) - 1] = s[4]
    BY <2>1
  <2> QED
    BY <1>1, <2>2 DEF Signed
<1>6. Tag(front, 4, 672, 4) /\ Tag(front, 12, 16, l)
  <2>1. 4 \in Nat /\ 12 \in Nat /\ Len(s) <= n /\ s \in Seq(Byte) /\ SeqTag(s, 4, 672, 4)
        /\ SeqTag(s, 12, 16, l)
    BY <1>1
  <2>2. Tag(WriteBytes(b, 0, s), 4, 672, 4)
    BY <2>1, WrittenTag
  <2>3. Tag(WriteBytes(b, 0, s), 12, 16, l)
    BY <2>1, WrittenTag
  <2> QED
    BY <1>2, <2>2, <2>3
<1>7. Data2(Packet(front, 20 + l)) = 12
  <2> DEFINE t == <<[at |-> 4, id |-> 672, length |-> 4], [at |-> 12, id |-> 16, length |-> l]>>
  <2>1. t \in Seq(TagRecords) /\ Len(t) = 2
    BY DEF TagRecords
  <2>2. /\ DOMAIN t = 1..2
        /\ t[1].at = 4 /\ t[1].id = 672 /\ t[1].length = 4
        /\ t[2].at = 12 /\ t[2].id = 16 /\ t[2].length = l
    OBVIOUS
  <2> HIDE DEF t
  <2>3. \A i \in 1..2 : i = 1 \/ i = 2
    OBVIOUS
  <2>4. Chain(t, 20 + l)
    BY <2>1, <2>2, <2>3 DEF Chain, EndsData
  <2>5. Tagged(front, t)
    <3>1. Tag(front, t[1].at, t[1].id, t[1].length) /\ Tag(front, t[2].at, t[2].id, t[2].length)
      BY <1>6, <2>2
    <3>2. ASSUME NEW i \in 1..2 PROVE Tag(front, t[i].at, t[i].id, t[i].length)
      <4>1. CASE i = 1
        BY <3>1, <4>1
      <4>2. CASE i = 2
        BY <3>1, <4>2
      <4> QED
        BY <2>3, <4>1, <4>2
    <3> QED
      BY <2>2, <3>2, ZenonT(60) DEF Tagged
  <2>6. 20 + l \in 0..n /\ 20 + l \in (20 + l)..n /\ 2 \in 1..Len(t) /\ 16 \in Nat
    BY <2>1
  <2>7. \A j \in 1..(2 - 1) : t[j].id # 16
    BY <2>2
  <2>8. findTagPacket(Packet(front, 20 + l), 16) = t[2].at
    BY <1>3, <2>2, <2>4, <2>5, <2>6, <2>7, ShapedFind
  <2> QED
    BY <2>2, <2>8 DEF Data2, sma_tag_data2
<1>8. PICK u \in Seq(Byte) : u = Uint16(protocol) /\ Len(u) = 2 /\ u[1] * 256 + u[2] = protocol
  <2>1. protocol \in Nat /\ protocol <= UINT16_MAX
    BY DEF Protocols, UINT16_MAX, sma_emeter_protocol_id, sma_extended_emeter_protocol_id,
           sma_inverter_protocol_id, sma_encryption_protocol_id
  <2> QED
    BY <2>1, Uint16Of
<1>9. PICK named : named = WriteBytes(front, 16, u)
  OBVIOUS
<1>10. named \in Area(n)
  <2>1. 16 \in Nat /\ u \in Seq(Byte)
    OBVIOUS
  <2> QED
    BY <1>3, <1>9, <2>1, WriteTyped
<1>11. \A o \in 0..(n - 1) : o < 16 \/ o >= 18 => named[o] = front[o]
  <2>1. ASSUME NEW o \in 0..(n - 1), o < 16 \/ o >= 18 PROVE named[o] = front[o]
    <3>1. 16 \in Nat /\ (o < 16 \/ o >= 16 + Len(u)) /\ u \in Seq(Byte)
      BY <1>8, <2>1
    <3> QED
      BY <1>3, <1>9, <3>1, WriteOutside
  <2> QED
    BY <2>1
<1>12. named[16] = u[1] /\ named[17] = u[2]
  <2>1. ASSUME NEW i \in 1..2 PROVE named[(16 + i) - 1] = u[i]
    <3>1. 16 \in Nat /\ i \in 1..Len(u) /\ 16 + i <= n /\ u \in Seq(Byte)
      BY <1>8
    <3> QED
      BY <1>3, <1>9, <3>1, WriteInside
  <2>2. named[(16 + 1) - 1] = u[1] /\ named[(16 + 2) - 1] = u[2]
    BY <2>1
  <2> QED
    BY <2>2
<1> DEFINE extra == CASE protocol = sma_extended_emeter_protocol_id -> <<0, 3>>
                      [] protocol = sma_inverter_protocol_id -> <<(l \div 4) % 256, 0>>
                      [] OTHER -> <<>>
<1>13. PICK x \in Seq(Byte) : /\ x = extra /\ Len(x) <= 2
                              /\ protocol = sma_emeter_protocol_id => Len(x) = 0
                              /\ protocol = sma_inverter_protocol_id => Len(x) = 2 /\ x[1] = (l \div 4) % 256
  <2>1. PICK d \in Nat : d = l \div 4
    OBVIOUS
  <2>2. PICK r \in Byte : r = d % 256
    BY DEF Byte
  <2>3. <<0, 3>> \in Seq(Byte) /\ <<r, 0>> \in Seq(Byte) /\ <<>> \in Seq(Byte)
        /\ Len(<<0, 3>>) = 2 /\ Len(<<r, 0>>) = 2 /\ Len(<<>>) = 0 /\ <<r, 0>>[1] = r
    BY DEF Byte
  <2>8. PICK y \in Seq(Byte) : y = <<r, 0>> /\ Len(y) = 2 /\ y[1] = r
    BY <2>3
  <2>9. PICK z \in Seq(Byte) : z = <<0, 3>> /\ Len(z) = 2
    BY <2>3
  <2>10. PICK w \in Seq(Byte) : w = <<>> /\ Len(w) = 0
    BY <2>3
  <2>4. extra = CASE protocol = sma_extended_emeter_protocol_id -> <<0, 3>>
                  [] protocol = sma_inverter_protocol_id -> <<r, 0>>
                  [] OTHER -> <<>>
    BY <2>1, <2>2
  <2> HIDE DEF extra
  <2>5. CASE protocol = sma_extended_emeter_protocol_id
    <3>1. protocol # sma_emeter_protocol_id /\ protocol # sma_inverter_protocol_id
      BY <2>5 DEF sma_extended_emeter_protocol_id, sma_emeter_protocol_id, sma_inverter_protocol_id
    <3>2. z = extra
      BY <2>4, <2>5, <2>9, <3>1
    <3>3. z \in Seq(Byte) /\ Len(z) <= 2
      BY <2>9
    <3> QED
      BY <3>1, <3>2, <3>3, Zenon
  <2>6. CASE protocol = sma_inverter_protocol_id
    <3>1. protocol # sma_emeter_protocol_id /\ protocol # sma_extended_emeter_protocol_id
      BY <2>6 DEF sma_extended_emeter_protocol_id, sma_emeter_protocol_id, sma_inverter_protocol_id
    <3>2. y = extra
      BY <2>4, <2>6, <2>8, <3>1
    <3>3. y \in Seq(Byte) /\ Len(y) <= 2 /\ Len(y) = 2 /\ y[1] = (l \div 4) % 256
      BY <2>1, <2>2, <2>8
    <3> QED
      BY <3>1, <3>2, <3>3, Zenon
  <2>7. CASE protocol # sma_extended_emeter_protocol_id /\ protocol # sma_inverter_protocol_id
    <3>1. w = extra
      BY <2>4, <2>7, <2>10
    <3>2. w \in Seq(Byte) /\ Len(w) <= 2 /\ Len(w) = 0
      BY <2>10
    <3> QED
      BY <2>7, <3>1, <3>2, Zenon
  <2> QED
    BY <2>5, <2>6, <2>7
<1> HIDE DEF extra
<1>14. PICK body : body = WriteBytes(named, 18, x)
  OBVIOUS
<1>15. body \in Area(n)
  <2>1. 18 \in Nat /\ x \in Seq(Byte)
    OBVIOUS
  <2> QED
    BY <1>10, <1>14, <2>1, WriteTyped
<1>16. \A o \in 0..(n - 1) : o < 18 \/ o >= 18 + Len(x) => body[o] = named[o]
  <2>1. ASSUME NEW o \in 0..(n - 1), o < 18 \/ o >= 18 + Len(x) PROVE body[o] = named[o]
    <3>1. 18 \in Nat /\ x \in Seq(Byte)
      OBVIOUS
    <3> QED
      BY <1>10, <1>14, <2>1, <3>1, WriteOutside
  <2> QED
    BY <2>1
<1>17. protocol = sma_inverter_protocol_id => body[18] = (l \div 4) % 256
  <2> SUFFICES ASSUME protocol = sma_inverter_protocol_id PROVE body[18] = (l \div 4) % 256
    OBVIOUS
  <2>1. 18 \in Nat /\ 1 \in 1..Len(x) /\ 18 + 1 <= n /\ x \in Seq(Byte) /\ (18 + 1) - 1 = 18
    <3>1. Len(x) = 2
      BY <1>13
    <3> QED
      BY <3>1
  <2>2. body[(18 + 1) - 1] = x[1]
    BY <1>10, <1>14, <2>1, WriteInside
  <2> QED
    BY <1>13, <2>1, <2>2
<1>18. PICK e \in Seq(Byte) : e = TagBytes(0, <<>>) /\ Len(e) = 4 /\ SeqTag(e, 0, 0, 0)
  BY EndTagIs
<1>19. h = WriteBytes(body, 16 + l, e)
  <2>1. front = WriteBytes(b, 0, sma_signature \o TagBytes(sma_tag_group_id, Group1)
                                      \o Uint16(l) \o Uint16(sma_tag_data2))
    BY <1>1, <1>2 DEF HeadBytes
  <2>2. Packet(b, 20 + l).udp = b /\ Packet(b, 20 + l).size = 20 + l
    BY PacketIs
  <2>3. h = LET d == Data2(Packet(front, 20 + l))
                nm == WriteBytes(front, d + 4, Uint16(protocol))
                bd == WriteBytes(nm, d + 6, extra)
            IN  WriteBytes(bd, d + TAG_HEADER_LENGTH + l, TagBytes(sma_tag_endofdata, <<>>))
    BY <2>1, <2>2 DEF setDefaultHeader, setBigEndian, extra
  <2>4. 12 + 4 = 16 /\ 12 + 6 = 18 /\ 12 + TAG_HEADER_LENGTH + l = 16 + l
    BY DEF TAG_HEADER_LENGTH
  <2>5. h = WriteBytes(WriteBytes(WriteBytes(front, 16, u), 18, x), 16 + l, e)
    BY <1>7, <1>8, <1>13, <1>18, <2>3, <2>4 DEF sma_tag_endofdata
  <2> QED
    BY <1>9, <1>14, <2>5
<1>20. h \in Area(n)
  <2>1. 16 + l \in Nat /\ e \in Seq(Byte)
    OBVIOUS
  <2> QED
    BY <1>15, <1>19, <2>1, WriteTyped
<1>21. \A o \in 0..(15 + l) : h[o] = body[o]
  <2>1. ASSUME NEW o \in 0..(15 + l) PROVE h[o] = body[o]
    <3>1. 16 + l \in Nat /\ e \in Seq(Byte) /\ o \in 0..(n - 1) /\ o < 16 + l
      OBVIOUS
    <3> QED
      BY <1>15, <1>19, <3>1, WriteOutside
  <2> QED
    BY <2>1
<1>22. Tag(h, 16 + l, 0, 0)
  <2>1. ASSUME NEW i \in 1..4 PROVE h[((16 + l) + i) - 1] = e[i]
    <3>1. PICK at \in Nat : at = 16 + l
      OBVIOUS
    <3>5. Len(e) = 4
      BY <1>18
    <3>2. i \in 1..Len(e) /\ at + i <= n
      BY <3>1, <3>5
    <3>3. e \in Seq(Byte) /\ h = WriteBytes(body, at, e)
      BY <1>19, <3>1
    <3>4. h[(at + i) - 1] = e[i]
      BY <1>15, <3>2, <3>3, WriteInside
    <3> QED
      BY <3>1, <3>4
  <2>2. h[((16 + l) + 1) - 1] = e[1] /\ h[((16 + l) + 2) - 1] = e[2] /\ h[((16 + l) + 3) - 1] = e[3]
        /\ h[((16 + l) + 4) - 1] = e[4]
    BY <2>1
  <2>3. h[16 + l] = e[1] /\ h[(16 + l) + 1] = e[2] /\ h[(16 + l) + 2] = e[3] /\ h[(16 + l) + 3] = e[4]
    BY <2>2
  <2> QED
    BY <1>18, <2>3 DEF SeqTag, Tag
<1>23. \A o \in 0..15 : h[o] = front[o]
  BY <1>11, <1>16, <1>21
<1>24. Tagged(h, Data2Shape(l))
  <2>1. Tag(h, 4, 672, 4)
    <3>1. 4 \in Nat /\ \A o \in 4..(4 + 3) : h[o] = front[o]
      BY <1>23
    <3> QED
      BY <1>6, <3>1, TagStays
  <2>2. Tag(h, 12, 16, l)
    <3>1. 12 \in Nat /\ \A o \in 12..(12 + 3) : h[o] = front[o]
      BY <1>23
    <3> QED
      BY <1>6, <3>1, TagStays
  <2> QED
    BY <1>22, <2>1, <2>2, ThreeTags
<1>25. Signed(h)
  <2>1. h[0] = front[0] /\ h[1] = front[1] /\ h[2] = front[2] /\ h[3] = front[3]
    BY <1>23
  <2> QED
    BY <1>5, <2>1 DEF Signed
<1>26. h[16] * 256 + h[17] = protocol
  <2>1. h[16] = body[16] /\ h[17] = body[17]
    BY <1>21
  <2>2. body[16] = named[16] /\ body[17] = named[17]
    <3>1. 16 \in 0..(n - 1) /\ 17 \in 0..(n - 1) /\ 16 < 18 /\ 17 < 18
      OBVIOUS
    <3> QED
      BY <1>16, <3>1
  <2> QED
    BY <1>8, <1>12, <2>1, <2>2
<1>27. \A o \in 20..(15 + l) : h[o] = b[o]
  <2>1. \A o \in 20..(15 + l) : o \in 0..(n - 1) /\ o >= 18 /\ o >= 18 + Len(x) /\ o \in 16..(n - 1) /\ o \in 0..(15 + l)
    BY <1>13
  <2> QED
    BY <1>4, <1>11, <1>16, <1>21, <2>1
<1>28. protocol = sma_emeter_protocol_id => \A o \in 18..(15 + l) : h[o] = b[o]
  <2> SUFFICES ASSUME protocol = sma_emeter_protocol_id PROVE \A o \in 18..(15 + l) : h[o] = b[o]
    OBVIOUS
  <2>1. \A o \in 18..(15 + l) : o \in 0..(n - 1) /\ o >= 18 /\ o >= 18 + Len(x) /\ o \in 16..(n - 1) /\ o \in 0..(15 + l)
    BY <1>13
  <2> QED
    BY <1>4, <1>11, <1>16, <1>21, <2>1
<1>29. protocol = sma_inverter_protocol_id => h[18] = (l \div 4) % 256
  BY <1>17, <1>21
<1> QED
  BY <1>20, <1>24, <1>25, <1>26, <1>27, <1>28, <1>29 DEF Headed

-----------------------------------------------------------------------------
(* Fields                                                                  *)

(* A read returns bytes that are there.                                    *)
LEMMA ReadBack ==
  ASSUME NEW r, NEW at \in Nat, NEW w \in Nat, NEW v \in [1..w -> Byte],
         \A i \in 1..w : r[(at + i) - 1] = v[i]
  PROVE  ReadBytes(r, at, w) = v
  BY DEF ReadBytes

(* Reversed twice is unchanged: writing and reading little endian cancel   *)
(* out.                                                                    *)
LEMMA ReverseTwice ==
  ASSUME NEW w \in Nat, NEW v \in [1..w -> Byte], NEW u, NEW r, u = Reverse(v), r = Reverse(u)
  PROVE  u \in [1..w -> Byte] /\ u \in Seq(Byte) /\ Len(u) = w /\ r = v
<1>1. v \in Seq(Byte) /\ Len(v) = w
  OBVIOUS
<1>2. u \in [1..w -> Byte] /\ \A i \in 1..w : u[i] = v[(w - i) + 1]
  BY <1>1 DEF Reverse
<1>3. u \in Seq(Byte) /\ Len(u) = w
  BY <1>2
<1>4. r = [i \in 1..w |-> u[(w - i) + 1]]
  BY <1>3 DEF Reverse
<1>5. \A i \in 1..w : (w - i) + 1 \in 1..w /\ (w - ((w - i) + 1)) + 1 = i
  OBVIOUS
<1>6. \A i \in 1..w : u[(w - i) + 1] = v[i]
  BY <1>2, <1>5
<1> QED
  BY <1>2, <1>3, <1>4, <1>6

(* Fields that do not overlap are set side by side: each holds its bytes,  *)
(* and nothing else changes. The field f is at off[f] and width[f] wide.   *)
Apart(D, off, width) ==
    \A f, g \in D : f = g \/ off[f] + width[f] <= off[g] \/ off[g] + width[g] <= off[f]

In(o, off, width) == off <= o /\ o < off + width

(* Covers is to lie in the range of the field.                             *)
LEMMA CoversIs ==
  ASSUME NEW x \in Nat, NEW w \in Nat, NEW field, field[1] = x, field[2] = w, NEW o \in Int
  PROVE  Covers(field, o) <=> In(o, x, w)
<1>1. Covers(field, o) <=> o \in x..(x + w - 1)
  BY Zenon DEF Covers
<1> QED
  BY <1>1 DEF In

SetBytes(n, r, b, at, D, off, width, bytes) ==
    /\ \A f \in D : at + off[f] + width[f] <= n /\ Len(bytes[f]) = width[f]
    /\ r = [o \in 0..(n - 1) |-> r[o]]
    /\ \A o \in 0..(n - 1) :
           \/ \E f \in D : /\ In(o - at, off[f], width[f])
                           /\ r[o] = WriteBytes(b, at + off[f], bytes[f])[o]
           \/ (\A f \in D : ~In(o - at, off[f], width[f])) /\ r[o] = b[o]

SideBySide(n, r, b, at, D, off, width, bytes) ==
    /\ r \in Area(n)
    /\ \A f \in D : \A i \in 1..width[f] : r[((at + off[f]) + i) - 1] = bytes[f][i]
    /\ \A o \in 0..(n - 1) : (\A f \in D : ~In(o - at, off[f], width[f])) => r[o] = b[o]

(* Setters of fields that lie apart can be called in any order: every      *)
(* field has its bytes, and the others are left alone.                     *)
LEMMA FieldsSet ==
  ASSUME NEW n \in Nat, NEW b \in Area(n), NEW at \in Nat, NEW D, NEW off \in [D -> Nat],
         NEW width \in [D -> Nat], NEW bytes \in [D -> Seq(Byte)], NEW r,
         Apart(D, off, width), SetBytes(n, r, b, at, D, off, width, bytes)
  PROVE  SideBySide(n, r, b, at, D, off, width, bytes)
<1>1. ASSUME NEW o \in 0..(n - 1), NEW f \in D, In(o - at, off[f], width[f]),
             r[o] = WriteBytes(b, at + off[f], bytes[f])[o],
             NEW i \in Int, i = ((o - at) - off[f]) + 1
      PROVE  i \in 1..width[f] /\ r[o] = bytes[f][i] /\ r[o] \in Byte
  <2>1. PICK x \in Nat, w \in Nat, s \in Seq(Byte) :
              x = off[f] /\ w = width[f] /\ s = bytes[f] /\ Len(s) = w /\ at + x + w <= n
    BY DEF SetBytes
  <2>2. x <= o - at /\ o - at < x + w
    BY <1>1, <2>1 DEF In
  <2>3. i \in 1..w /\ i = ((o - at) - x) + 1
    <3>1. i = ((o - at) - x) + 1 /\ i \in Int
      BY <1>1, <2>1
    <3>2. PICK k \in Int : k = o - at
      OBVIOUS
    <3>3. i = (k - x) + 1 /\ x <= k /\ k < x + w
      BY <2>2, <3>1, <3>2
    <3>4. 1 <= i /\ i <= w
      BY <3>3
    <3> QED
      BY <3>1, <3>4
  <2>4. PICK a \in Nat : a = at + x
    OBVIOUS
  <2>5. i \in 1..Len(s) /\ a + i <= n /\ (a + i) - 1 = o
    <3>1. i \in 1..w /\ Len(s) = w /\ at + x + w <= n
      BY <2>1, <2>3
    <3>2. i = ((o - at) - x) + 1 /\ o \in Int
      BY <2>3
    <3>3. i = (o - a) + 1
      BY <2>4, <3>2
    <3>4. a + w <= n
      BY <2>4, <3>1
    <3> QED
      BY <3>1, <3>2, <3>3, <3>4
  <2>6. s \in Seq(Byte)
    OBVIOUS
  <2>7. WriteBytes(b, a, s)[(a + i) - 1] = s[i]
    BY <2>5, <2>6, WriteInside
  <2>8. r[o] = s[i]
    BY <1>1, <2>1, <2>4, <2>5, <2>7
  <2> QED
    BY <2>1, <2>3, <2>5, <2>6, <2>8
<1>2. ASSUME NEW o \in 0..(n - 1)
      PROVE  r[o] \in Byte
  <2>1. CASE \E f \in D : /\ In(o - at, off[f], width[f])
                          /\ r[o] = WriteBytes(b, at + off[f], bytes[f])[o]
    <3>1. PICK f \in D : /\ In(o - at, off[f], width[f])
                         /\ r[o] = WriteBytes(b, at + off[f], bytes[f])[o]
      BY <2>1
    <3>2. PICK i \in Int : i = ((o - at) - off[f]) + 1
      OBVIOUS
    <3> QED
      BY <1>1, <3>1, <3>2
  <2>2. CASE r[o] = b[o]
    BY <2>2 DEF Area
  <2> QED
    BY <2>1, <2>2 DEF SetBytes
<1>3. r \in Area(n)
  BY <1>2 DEF Area, SetBytes
<1>4. ASSUME NEW f \in D, NEW i \in 1..width[f]
      PROVE  r[((at + off[f]) + i) - 1] = bytes[f][i]
  <2>1. PICK x \in Nat, w \in Nat : x = off[f] /\ w = width[f] /\ at + x + w <= n
    BY DEF SetBytes
  <2>2. i \in Int /\ 1 <= i /\ i <= w
    BY <2>1
  <2>3. PICK o \in Int : o = ((at + x) + i) - 1
    BY <2>2
  <2>9. o \in 0..(n - 1)
    BY <2>1, <2>2, <2>3
  <2>4. x <= o - at /\ o - at < x + w /\ i \in Int /\ i = ((o - at) - x) + 1
    BY <2>2, <2>3
  <2>5. In(o - at, off[f], width[f])
    BY <2>1, <2>4 DEF In
  <2>6. PICK g \in D : /\ In(o - at, off[g], width[g])
                       /\ r[o] = WriteBytes(b, at + off[g], bytes[g])[o]
    BY <2>5, <2>9 DEF SetBytes
  <2>7. g = f
    <3>1. PICK y \in Nat, v \in Nat : y = off[g] /\ v = width[g]
      OBVIOUS
    <3>2. PICK k \in Int : k = o - at
      OBVIOUS
    <3>3. y <= k /\ k < y + v
      BY <2>6, <3>1, <3>2 DEF In
    <3>4. x <= k /\ k < x + w
      BY <2>4, <3>2
    <3>5. f = g \/ x + w <= y \/ y + v <= x
      BY <2>1, <3>1 DEF Apart
    <3> QED
      BY <3>3, <3>4, <3>5
  <2>8. r[o] = bytes[f][i]
    <3>1. i = ((o - at) - off[f]) + 1
      BY <2>1, <2>4
    <3> QED
      BY <1>1, <2>4, <2>5, <2>6, <2>7, <2>9, <3>1
  <2> QED
    BY <2>1, <2>3, <2>8
<1> QED
  BY <1>3, <1>4 DEF SetBytes, SideBySide

InverterFields == {"DstSusyID", "DstSerialNumber", "DstControl", "SrcSusyID", "SrcSerialNumber",
                   "SrcControl", "ErrorCode", "FragmentCounter", "PacketID", "CommandID",
                   "FirstRegisterID", "LastRegisterID"}

(* The fields of the inverter header lie apart, within 34 bytes.           *)
LEMMA InverterPlaces ==
  /\ \A f \in InverterFields : /\ InverterField(f)[1] \in Nat /\ InverterField(f)[2] \in {2, 4}
                               /\ InverterField(f)[1] + InverterField(f)[2] <= 34
  /\ Apart(InverterFields, [f \in InverterFields |-> InverterField(f)[1]],
                            [f \in InverterFields |-> InverterField(f)[2]])
<1>1. /\ InverterField("DstSusyID") = <<0, 2>> /\ InverterField("DstSerialNumber") = <<2, 4>>
      /\ InverterField("DstControl") = <<6, 2>> /\ InverterField("SrcSusyID") = <<8, 2>>
      /\ InverterField("SrcSerialNumber") = <<10, 4>> /\ InverterField("SrcControl") = <<14, 2>>
      /\ InverterField("ErrorCode") = <<16, 2>> /\ InverterField("FragmentCounter") = <<18, 2>>
      /\ InverterField("PacketID") = <<20, 2>> /\ InverterField("CommandID") = <<22, 4>>
      /\ InverterField("FirstRegisterID") = <<26, 4>> /\ InverterField("LastRegisterID") = <<30, 4>>
  BY DEF InverterField
<1> DEFINE P == [f \in InverterFields |-> InverterField(f)]
<1>2. \A f \in InverterFields :
         P[f] \in {<<0, 2>>, <<2, 4>>, <<6, 2>>, <<8, 2>>, <<10, 4>>, <<14, 2>>, <<16, 2>>, <<18, 2>>,
                   <<20, 2>>, <<22, 4>>, <<26, 4>>, <<30, 4>>}
  BY <1>1 DEF InverterFields
<1>3. \A f \in InverterFields : P[f] = InverterField(f)
  OBVIOUS
<1>4. \A f, g \in InverterFields : P[f][1] = P[g][1] => f = g
  BY <1>1 DEF InverterFields
<1> HIDE DEF P
<1>5. \A f \in InverterFields : /\ P[f][1] \in Nat /\ P[f][2] \in {2, 4} /\ P[f][1] + P[f][2] <= 34
  BY <1>2
<1>6. ASSUME NEW f \in InverterFields, NEW g \in InverterFields, P[f][1] < P[g][1]
      PROVE  P[f][1] + P[f][2] <= P[g][1]
  BY <1>2, <1>6
<1>7. \A f, g \in InverterFields : f = g \/ P[f][1] + P[f][2] <= P[g][1] \/ P[g][1] + P[g][2] <= P[f][1]
  BY <1>4, <1>5, <1>6
<1>8. Apart(InverterFields, [f \in InverterFields |-> InverterField(f)[1]],
                            [f \in InverterFields |-> InverterField(f)[2]])
  BY <1>3, <1>7 DEF Apart
<1> QED
  BY <1>3, <1>5, <1>8

(* Each field that setFields wrote is read back, and what lies outside is  *)
(* left alone.                                                             *)
LEMMA InverterFieldsSet ==
  ASSUME NEW n \in Nat, NEW b \in Area(n), NEW at \in Nat, at + 34 <= n, NEW values,
         DOMAIN values \subseteq InverterFields,
         \A f \in DOMAIN values : values[f] \in [1..InverterField(f)[2] -> Byte],
         NEW r, r = setFields(b, at, values)
  PROVE  /\ r \in Area(n)
         /\ \A f \in DOMAIN values :
                getLittleEndian(r, at + InverterField(f)[1], InverterField(f)[2]) = values[f]
         /\ \A o \in 0..(n - 1) : (\A f \in DOMAIN values : ~Covers(InverterField(f), o - at)) => r[o] = b[o]
         /\ \A o \in 0..(n - 1) : (o < at \/ o >= at + 34) => r[o] = b[o]
<1> DEFINE D == DOMAIN values
           off == [f \in D |-> InverterField(f)[1]]
           width == [f \in D |-> InverterField(f)[2]]
           bytes == [f \in D |-> Reverse(values[f])]
<1>1. \A f \in D : /\ InverterField(f)[1] \in Nat /\ InverterField(f)[2] \in Nat
                   /\ InverterField(f)[1] + InverterField(f)[2] <= 34
  BY InverterPlaces
<1>2. \A f \in D : off[f] = InverterField(f)[1] /\ width[f] = InverterField(f)[2]
                   /\ bytes[f] = Reverse(values[f]) /\ values[f] \in [1..width[f] -> Byte]
  OBVIOUS
<1>3. off \in [D -> Nat] /\ width \in [D -> Nat] /\ DOMAIN bytes = D /\ bytes = [f \in D |-> bytes[f]]
  BY <1>1
<1>4. Apart(D, off, width)
  BY InverterPlaces DEF Apart
<1>5. r = [o \in DOMAIN b |->
              IF \E f \in D : Covers(InverterField(f), o - at)
              THEN setField(b, at, CHOOSE f \in D : Covers(InverterField(f), o - at),
                            values[CHOOSE f \in D : Covers(InverterField(f), o - at)])[o]
              ELSE b[o]]
  BY DEF setFields
<1>6. DOMAIN b = 0..(n - 1)
  BY DEF Area
<1>7. r = [o \in 0..(n - 1) |-> r[o]]
  BY <1>5, <1>6
<1> HIDE DEF off, width, bytes
<1>8. ASSUME NEW o \in Int, NEW f \in D
      PROVE  Covers(InverterField(f), o) <=> In(o, off[f], width[f])
  BY <1>1, <1>2, CoversIs
<1>9. ASSUME NEW o \in 0..(n - 1)
      PROVE  \/ \E f \in D : /\ In(o - at, off[f], width[f])
                             /\ r[o] = WriteBytes(b, at + off[f], bytes[f])[o]
             \/ (\A f \in D : ~In(o - at, off[f], width[f])) /\ r[o] = b[o]
  <2>0. o - at \in Int
    OBVIOUS
  <2>1. CASE \E f \in D : Covers(InverterField(f), o - at)
    <3>1. PICK f \in D : f = CHOOSE g \in D : Covers(InverterField(g), o - at)
      BY <2>1
    <3>2. Covers(InverterField(f), o - at)
      BY <2>1, <3>1
    <3>3. r[o] = setField(b, at, f, values[f])[o]
      BY <1>5, <1>6, <2>1, <3>1
    <3>4. r[o] = WriteBytes(b, at + off[f], bytes[f])[o]
      BY <1>2, <3>3 DEF setField, setLittleEndian
    <3>5. In(o - at, off[f], width[f])
      BY <1>8, <2>0, <3>2
    <3> QED
      BY <3>4, <3>5
  <2>2. CASE ~\E f \in D : Covers(InverterField(f), o - at)
    <3>1. r[o] = b[o]
      BY <1>5, <1>6, <2>2
    <3>2. \A f \in D : ~In(o - at, off[f], width[f])
      BY <1>8, <2>0, <2>2
    <3> QED
      BY <3>1, <3>2
  <2> QED
    BY <2>1, <2>2
<1> HIDE DEF D
<1>10. ASSUME NEW f \in D PROVE bytes[f] \in Seq(Byte) /\ Len(bytes[f]) = width[f]
  <2>1. PICK w \in Nat : w = width[f]
    BY <1>3
  <2>2. values[f] \in [1..w -> Byte] /\ bytes[f] = Reverse(values[f])
    BY <1>2, <2>1
  <2> QED
    BY <2>1, <2>2, ReverseTwice
<1>11. bytes \in [D -> Seq(Byte)]
  BY <1>3, <1>10
<1>12. \A f \in D : at + off[f] + width[f] <= n /\ Len(bytes[f]) = width[f]
  BY <1>1, <1>2, <1>10
<1>17. SetBytes(n, r, b, at, D, off, width, bytes)
  BY <1>7, <1>9, <1>12 DEF SetBytes
<1>13. /\ r \in Area(n)
       /\ \A f \in D : \A i \in 1..width[f] : r[((at + off[f]) + i) - 1] = bytes[f][i]
       /\ \A o \in 0..(n - 1) : (\A f \in D : ~In(o - at, off[f], width[f])) => r[o] = b[o]
  <2>1. SideBySide(n, r, b, at, D, off, width, bytes)
    BY <1>3, <1>4, <1>11, <1>17, FieldsSet
  <2> QED
    BY <2>1 DEF SideBySide
<1>14. ASSUME NEW f \in D
       PROVE  getLittleEndian(r, at + InverterField(f)[1], InverterField(f)[2]) = values[f]
  <2>1. PICK w \in Nat, a \in Nat : w = width[f] /\ a = at + off[f]
    BY <1>3
  <2>2. PICK v \in [1..w -> Byte] : v = values[f]
    BY <1>2, <2>1
  <2>3. PICK u : u = Reverse(v)
    OBVIOUS
  <2>4. u \in [1..w -> Byte] /\ Reverse(u) = v
    BY <2>3, ReverseTwice
  <2>5. bytes[f] = u
    BY <1>2, <2>2, <2>3
  <2>6. \A i \in 1..w : r[(a + i) - 1] = u[i]
    BY <1>13, <2>1, <2>5
  <2>7. ReadBytes(r, a, w) = u
    <3>1. u \in [1..w -> Byte]
      BY <2>4
    <3> QED
      BY <2>6, <3>1 DEF ReadBytes
  <2>8. getLittleEndian(r, a, w) = v
    BY <2>4, <2>7 DEF getLittleEndian
  <2> QED
    BY <1>2, <2>1, <2>2, <2>8
<1>15. \A o \in 0..(n - 1) : (\A f \in D : ~Covers(InverterField(f), o - at)) => r[o] = b[o]
  <2>1. \A o \in 0..(n - 1) : o - at \in Int
    OBVIOUS
  <2> QED
    BY <1>8, <1>13, <2>1
<1>16. \A o \in 0..(n - 1) : (o < at \/ o >= at + 34) => r[o] = b[o]
  <2>1. ASSUME NEW o \in 0..(n - 1), o < at \/ o >= at + 34, NEW f \in D
        PROVE  ~In(o - at, off[f], width[f])
    BY <1>1, <1>2, <2>1 DEF In
  <2> QED
    BY <1>13, <2>1
<1> QED
  BY <1>13, <1>14, <1>15, <1>16 DEF D

(* Induction over a set.                                                   *)
LEMMA AllNumbers ==
  ASSUME NEW S, S \subseteq Nat, 0 \in S, \A k \in S : k + 1 \in S
  PROVE  Nat \subseteq S
  BY Numbers!Induction

Appended(n, s, c) == \A i \in 1..n : c[i] = IF i = 1 THEN s[i] ELSE c[i - 1] \o s[i]

(* Pieces of the same length, one after the other.                         *)
PiecesAt(w, s, n, length) == \A i \in 1..n : \A j \in 1..length : w[((i - 1) * length) + j] = s[i][j]

(* Places in pieces of the same length.                                    *)
LEMMA PieceInside ==
  ASSUME NEW length \in Nat, NEW n \in Nat, NEW i \in 1..n, NEW j \in 1..length
  PROVE  ((i - 1) * length) + j \in 1..(n * length)
<1>1. (i - 1) * length \in Nat
  <2>1. i - 1 \in Nat
    OBVIOUS
  <2> QED
    BY <2>1
<1>2. ((i - 1) * length) + length = i * length
  OBVIOUS
<1>3. i * length <= n * length
  <2>1. PICK d \in Nat : n = i + d
    <3>1. n - i \in Nat /\ n = i + (n - i)
      OBVIOUS
    <3> QED
      BY <3>1
  <2>2. n * length = (i * length) + (d * length)
    BY <2>1
  <2>3. d * length \in Nat /\ i * length \in Nat
    BY <2>1
  <2> QED
    BY <2>2, <2>3
<1>4. PICK x \in Nat, y \in Nat, z \in Nat : x = (i - 1) * length /\ y = i * length /\ z = n * length
  BY <1>1
<1>5. x + length = y /\ y <= z
  BY <1>2, <1>3, <1>4
<1>6. x + j \in 1..z
  BY <1>5
<1> QED
  BY <1>4, <1>6

Together(c, s, k, length) == c \in Seq(Byte) /\ Len(c) = k * length /\ PiecesAt(c, s, k, length)

(* One more piece behind pieces of the same length.                        *)
LEMMA OnePieceMore ==
  ASSUME NEW m \in Nat, NEW length \in Nat, NEW s, NEW u, Together(u, s, m, length),
         NEW v \in Seq(Byte), Len(v) = length, s[m + 1] = v, NEW w, w = u \o v
  PROVE  Together(w, s, m + 1, length)
<1>0. u \in Seq(Byte) /\ Len(u) = m * length /\ PiecesAt(u, s, m, length)
  BY DEF Together
<1>1. /\ w \in Seq(Byte) /\ Len(w) = Len(u) + Len(v)
      /\ \A i \in 1..Len(u) : w[i] = u[i]
      /\ \A i \in 1..Len(v) : w[Len(u) + i] = v[i]
  BY <1>0, Joined, ZenonT(60)
<1>2. (m + 1) * length = (m * length) + length
  OBVIOUS
<1>3. ASSUME NEW i \in 1..(m + 1), NEW j \in 1..length
      PROVE  w[((i - 1) * length) + j] = s[i][j]
  <2>1. CASE i = m + 1
    <3>1. (i - 1) * length = Len(u)
      BY <1>0, <2>1
    <3> QED
      BY <1>1, <2>1, <3>1
  <2>2. CASE i # m + 1
    <3>1. i \in 1..m
      BY <2>2
    <3>2. ((i - 1) * length) + j \in 1..Len(u)
      BY <1>0, <3>1, PieceInside
    <3>3. u[((i - 1) * length) + j] = s[i][j]
      BY <1>0, <3>1 DEF PiecesAt
    <3> QED
      BY <1>1, <3>2, <3>3
  <2> QED
    BY <2>1, <2>2
<1> QED
  BY <1>0, <1>1, <1>2, <1>3 DEF PiecesAt, Together

Pieces(s, n, length) == \A i \in 1..n : s[i] \in Seq(Byte) /\ Len(s[i]) = length

(* What appends one piece each time has all pieces.                        *)
LEMMA AppendedPieces ==
  ASSUME NEW n \in Nat, NEW length \in Nat, NEW s, Pieces(s, n, length), NEW c, Appended(n, s, c)
  PROVE  \A k \in Nat : k + 1 <= n => Together(c[k + 1], s, k + 1, length)
<1> DEFINE S == {k \in Nat : k + 1 <= n => Together(c[k + 1], s, k + 1, length)}
<1>1. 0 \in S
  <2> SUFFICES ASSUME 1 <= n PROVE Together(c[1], s, 1, length)
    OBVIOUS
  <2>1. 1 \in 1..n
    OBVIOUS
  <2>2. c[1] = s[1] /\ s[1] \in Seq(Byte) /\ Len(s[1]) = length
    BY <2>1 DEF Appended, Pieces
  <2>3. ASSUME NEW i \in 1..1, NEW j \in 1..length PROVE c[1][((i - 1) * length) + j] = s[i][j]
    <3>1. i = 1 /\ ((i - 1) * length) + j = j
      OBVIOUS
    <3> QED
      BY <2>2, <3>1
  <2>4. 1 * length = length
    OBVIOUS
  <2> QED
    BY <2>2, <2>3, <2>4 DEF Together, PiecesAt
<1>2. \A k \in S : k + 1 \in S
  <2> SUFFICES ASSUME NEW k \in S, (k + 1) + 1 <= n
               PROVE  Together(c[(k + 1) + 1], s, (k + 1) + 1, length)
    OBVIOUS
  <2>1. PICK m \in Nat : m = k + 1 /\ m + 1 \in 1..n /\ m + 1 # 1 /\ (m + 1) - 1 = m /\ m <= n
    OBVIOUS
  <2>2. Together(c[m], s, m, length)
    BY <2>1
  <2>3. c[m + 1] = c[m] \o s[m + 1]
    BY <2>1 DEF Appended
  <2>4. s[m + 1] \in Seq(Byte) /\ Len(s[m + 1]) = length
    BY <2>1 DEF Pieces
  <2>5. PICK u, v, w : u = c[m] /\ v = s[m + 1] /\ w = c[m + 1]
    OBVIOUS
  <2>6. Together(u, s, m, length) /\ v \in Seq(Byte) /\ Len(v) = length /\ w = u \o v /\ s[m + 1] = v
    BY <2>2, <2>3, <2>4, <2>5
  <2>7. Together(w, s, m + 1, length)
    BY <2>6, OnePieceMore
  <2> QED
    BY <2>1, <2>5, <2>7
<1>3. S \subseteq Nat
  OBVIOUS
<1>4. Nat \subseteq S
  <2> HIDE DEF S
  <2> QED
    BY <1>1, <1>2, <1>3, AllNumbers, Zenon
<1> QED
  BY <1>4

(* The pieces one after the other.                                         *)
LEMMA FlattenPieces ==
  ASSUME NEW n \in Nat, NEW s \in [1..n -> Seq(Byte)], NEW length \in Nat, Pieces(s, n, length)
  PROVE  Together(FlattenSeq(s), s, n, length)
<1> DEFINE After(k, u) == IF k = 1 THEN s[k] ELSE u \o s[k]
           g == [ku \in (1..n) \X Seq(Byte) |-> After(ku[1], ku[2])]
           Good(f) == f = [i \in 1..n |-> IF i = 1 THEN s[i] ELSE f[i - 1] \o s[i]]
           c == CHOOSE f : Good(f)
<1>1. Len(s) = n /\ s \in Seq(Seq(Byte))
  OBVIOUS
<1>2. \A k \in 1..n, u \in Seq(Byte) : After(k, u) \in Seq(Byte)
  BY Joined
<1>3. g \in [(1..n) \X Seq(Byte) -> Seq(Byte)] /\ \A k \in 1..n, u \in Seq(Byte) : g[<<k, u>>] = After(k, u)
  <2> HIDE DEF After
  <2> QED
    BY <1>2
<1>4. PICK f \in [0..n -> Seq(Byte)] : Numbers!Recursion(f, n, <<>>, g)
  <2>1. <<>> \in Seq(Byte)
    OBVIOUS
  <2> HIDE DEF g
  <2> QED
    BY <1>3, <2>1, OneBit, Numbers!RecursionExists, Zenon
<1>5. \A k \in 1..n : f[k] = After(k, f[k - 1])
  <2>1. \A k \in 1..n : f[k] = g[<<k, f[k - 1]>>]
    BY <1>4 DEF Numbers!Recursion
  <2>2. \A k \in 1..n : k - 1 \in 0..n /\ f[k - 1] \in Seq(Byte)
    OBVIOUS
  <2> HIDE DEF g, After
  <2> QED
    BY <1>3, <2>1, <2>2
<1> DEFINE h == [i \in 1..n |-> f[i]]
<1>6. Good(h)
  <2>1. ASSUME NEW i \in 1..n PROVE h[i] = IF i = 1 THEN s[i] ELSE h[i - 1] \o s[i]
    <3>1. h[i] = f[i] /\ (i # 1 => i - 1 \in 1..n /\ h[i - 1] = f[i - 1])
      OBVIOUS
    <3> HIDE DEF h
    <3> QED
      BY <1>5, <3>1
  <2>2. h = [i \in 1..n |-> h[i]]
    OBVIOUS
  <2> HIDE DEF h
  <2> QED
    BY <2>1, <2>2
<1>7. Good(c)
  <2> HIDE DEF h, Good
  <2> QED
    BY <1>6
<1> HIDE DEF c, g, h
<1>8. \A i \in 1..n : c[i] = IF i = 1 THEN s[i] ELSE c[i - 1] \o s[i]
  <2>1. c = [i \in 1..n |-> IF i = 1 THEN s[i] ELSE c[i - 1] \o s[i]]
    BY <1>7
  <2> QED
    BY <2>1
<1>9. \A k \in Nat : k + 1 <= n => Together(c[k + 1], s, k + 1, length)
  BY <1>8, AppendedPieces DEF Appended
<1>10. CASE n = 0
  <2>1. s \in Seq(Byte)
    BY <1>10
  <2>2. FlattenSeq(s) = s
    BY <1>1, <1>10 DEF FlattenSeq
  <2>3. Len(s) = 0 /\ 0 * length = 0
    BY <1>10
  <2> QED
    BY <1>10, <2>1, <2>2, <2>3 DEF Together, PiecesAt
<1>11. CASE n # 0
  <2>1. FlattenSeq(s) = c[n]
    BY <1>1, <1>11 DEF FlattenSeq, c
  <2>2. PICK k \in Nat : k + 1 = n
    BY <1>11
  <2>3. Together(c[k + 1], s, k + 1, length)
    BY <1>9, <2>2
  <2> QED
    BY <2>1, <2>2, <2>3
<1> QED
  BY <1>10, <1>11

(* Any number has four bytes.                                              *)
LEMMA Uint32Typed ==
  ASSUME NEW n \in Int
  PROVE  Uint32(n) \in [1..4 -> Byte]
<1>1. ASSUME NEW k \in Int PROVE Uint16(k) \in Seq(Byte) /\ Len(Uint16(k)) = 2
  <2>1. (k \div 256) % 256 \in Byte /\ k % 256 \in Byte
    <3>1. PICK d \in Int : d = k \div 256
      OBVIOUS
    <3> QED
      BY <3>1 DEF Byte
  <2>2. PICK x \in Byte, y \in Byte : x = (k \div 256) % 256 /\ y = k % 256
    BY <2>1
  <2> QED
    BY <2>2 DEF Uint16
<1>2. PICK d \in Int, r \in Int : d = n \div (UINT16_MAX + 1) /\ r = n % (UINT16_MAX + 1)
  <2>1. PICK m \in Nat \ {0} : m = UINT16_MAX + 1
    BY DEF UINT16_MAX
  <2>2. n \div m \in Int /\ n % m \in Int
    BY <2>1
  <2> QED
    BY <2>1, <2>2
<1>3. PICK u \in Seq(Byte), v \in Seq(Byte) : u = Uint16(d) /\ Len(u) = 2 /\ v = Uint16(r) /\ Len(v) = 2
  BY <1>1
<1>4. PICK w : w = u \o v
  OBVIOUS
<1>5. w \in Seq(Byte) /\ Len(w) = 4
  BY <1>3, <1>4, TwoAndTwo
<1>6. Uint32(n) = w
  BY <1>2, <1>3, <1>4 DEF Uint32
<1>7. w \in [1..4 -> Byte]
  BY <1>5, LenProperties
<1> QED
  BY <1>6, <1>7

(* Four bytes are numbers.                                                 *)
LEMMA FourTyped ==
  ASSUME NEW v \in [1..4 -> Byte]
  PROVE  Len(v) = 4 /\ v[1] \in Int /\ v[2] \in Int /\ v[3] \in Int /\ v[4] \in Int
  BY DEF Byte

(* Four bytes and the number that they stand for.                          *)
LEMMA NumberOfFour ==
  ASSUME NEW v \in [1..4 -> Byte]
  PROVE  ToNat(v) = ((v[1] * 256 + v[2]) * 256 + v[3]) * 256 + v[4]
<1> DEFINE Good(f) == f = [i \in 0..Len(v) |-> IF i = 0 THEN 0 ELSE f[i - 1] * 256 + v[i]]
           c == CHOOSE f : Good(f)
           w1 == v[1]
           w2 == w1 * 256 + v[2]
           w3 == w2 * 256 + v[3]
           w4 == w3 * 256 + v[4]
           w == [i \in 0..4 |-> IF i = 0 THEN 0 ELSE IF i = 1 THEN w1 ELSE IF i = 2 THEN w2
                                ELSE IF i = 3 THEN w3 ELSE w4]
<1>1. Len(v) = 4 /\ v[1] \in Int /\ v[2] \in Int /\ v[3] \in Int /\ v[4] \in Int
  BY FourTyped
<1>2. /\ w1 \in Int /\ w2 \in Int /\ w3 \in Int /\ w4 \in Int
      /\ w1 = v[1] /\ w2 = w1 * 256 + v[2] /\ w3 = w2 * 256 + v[3] /\ w4 = w3 * 256 + v[4]
  <2> HIDE DEF c
  <2> QED
    BY <1>1
<1> HIDE DEF w1, w2, w3, w4
<1>3. w[0] = 0 /\ w[1] = w1 /\ w[2] = w2 /\ w[3] = w3 /\ w[4] = w4
  OBVIOUS
<1>4. ASSUME NEW i \in 0..4 PROVE w[i] = IF i = 0 THEN 0 ELSE w[i - 1] * 256 + v[i]
  <2>1. i = 0 \/ i = 1 \/ i = 2 \/ i = 3 \/ i = 4
    OBVIOUS
  <2>2. 0 * 256 + v[1] = w1
    BY <1>1, <1>2
  <2> HIDE DEF w
  <2> QED
    BY <1>2, <1>3, <2>1, <2>2
<1>5. w = [i \in 0..Len(v) |-> IF i = 0 THEN 0 ELSE w[i - 1] * 256 + v[i]]
  <2>1. w = [i \in 0..4 |-> w[i]]
    OBVIOUS
  <2> HIDE DEF w
  <2> QED
    BY <1>1, <1>4, <2>1
<1>6. Good(c)
  <2>1. Good(w)
    BY <1>5
  <2> HIDE DEF w
  <2> QED
    BY <2>1, ZenonT(60)
<1>7. c[0] = 0 /\ c[1] = c[0] * 256 + v[1] /\ c[2] = c[1] * 256 + v[2]
      /\ c[3] = c[2] * 256 + v[3] /\ c[4] = c[3] * 256 + v[4]
  <2> HIDE DEF c
  <2> QED
    BY <1>1, <1>6
<1>8. c[4] = ((v[1] * 256 + v[2]) * 256 + v[3]) * 256 + v[4]
  <2> HIDE DEF c
  <2> QED
    BY <1>1, <1>7
<1> QED
  BY <1>1, <1>8 DEF ToNat

(* Two bytes are numbers.                                                  *)
LEMMA TwoTyped ==
  ASSUME NEW u \in Seq(Byte), Len(u) = 2
  PROVE  u[1] \in Int /\ u[2] \in Int
<1>1. 1 \in 1..Len(u) /\ 2 \in 1..Len(u)
  OBVIOUS
<1>2. u[1] \in Byte
  BY <1>1
<1>3. u[2] \in Byte
  BY <1>1
<1>4. \A x \in Byte : x \in Int
  BY DEF Byte
<1> QED
  BY <1>2, <1>3, <1>4, Zenon

(* Two words of two bytes make a number of four.                           *)
LEMMA TwoWords ==
  ASSUME NEW a \in Int, NEW b \in Int, NEW c \in Int, NEW d \in Int
  PROVE  ((a * 256 + b) * 256 + c) * 256 + d = (a * 256 + b) * 65536 + (c * 256 + d)
  OBVIOUS

(* The four bytes of a number that fits into them, and back.               *)
LEMMA Uint32Of ==
  ASSUME NEW n \in Nat, n \div (UINT16_MAX + 1) <= UINT16_MAX
  PROVE  ToNat(Uint32(n)) = n
<1>0. UINT16_MAX + 1 \in Nat \ {0}
  BY DEF UINT16_MAX
<1>1. PICK m \in Nat \ {0} : m = UINT16_MAX + 1
  BY <1>0
<1>2. PICK d \in Nat, r \in Nat : d = n \div m /\ r = n % m /\ n = d * m + r /\ d <= UINT16_MAX /\ r <= UINT16_MAX
  <2>1. n \div m \in Int /\ n % m \in 0..(m - 1) /\ n = (n \div m) * m + (n % m)
    OBVIOUS
  <2>2. n \div m >= 0
    BY <2>1
  <2>3. n % m <= UINT16_MAX /\ n \div m <= UINT16_MAX
    <3>1. UINT16_MAX \in Nat
      BY DEF UINT16_MAX
    <3>2. n \div m <= UINT16_MAX
      BY <1>1, Zenon
    <3>3. n % m \in 0..(m - 1)
      BY <2>1
    <3> QED
      BY <1>1, <3>1, <3>2, <3>3
  <2> QED
    BY <2>1, <2>2, <2>3
<1>3. PICK u \in Seq(Byte), v \in Seq(Byte) :
         /\ u = Uint16(d) /\ Len(u) = 2 /\ u[1] * 256 + u[2] = d
         /\ v = Uint16(r) /\ Len(v) = 2 /\ v[1] * 256 + v[2] = r
  BY <1>2, Uint16Of
<1>4. PICK w : w = u \o v
  OBVIOUS
<1>5. /\ w \in Seq(Byte) /\ Len(w) = 4
      /\ w[1] = u[1] /\ w[2] = u[2] /\ w[3] = v[1] /\ w[4] = v[2]
  BY <1>3, <1>4, TwoAndTwo
<1>6. Uint32(n) = w
  <2>1. d = n \div (UINT16_MAX + 1) /\ r = n % (UINT16_MAX + 1)
    BY <1>1, <1>2, Zenon
  <2> QED
    BY <1>3, <1>4, <2>1, Zenon DEF Uint32
<1>7. w \in [1..4 -> Byte]
  BY <1>5, LenProperties
<1>8. ToNat(w) = ((w[1] * 256 + w[2]) * 256 + w[3]) * 256 + w[4]
  BY <1>7, NumberOfFour
<1>9. PICK a \in Int, b \in Int, e \in Int, f \in Int : a = u[1] /\ b = u[2] /\ e = v[1] /\ f = v[2]
  <2>1. u[1] \in Int /\ u[2] \in Int /\ v[1] \in Int /\ v[2] \in Int
    BY <1>3, TwoTyped, Zenon
  <2> QED
    BY <2>1
<1>10. ToNat(w) = ((a * 256 + b) * 256 + e) * 256 + f
  BY <1>5, <1>8, <1>9
<1>11. ToNat(w) = (a * 256 + b) * 65536 + (e * 256 + f)
  BY <1>10, TwoWords
<1>12. ToNat(w) = d * m + r
  <2>1. m = 65536
    BY <1>1 DEF UINT16_MAX
  <2> QED
    BY <1>3, <1>9, <1>11, <2>1
<1> QED
  BY <1>2, <1>6, <1>12

-----------------------------------------------------------------------------
(* The payload of a data2 packet                                           *)

PayloadAt(protocol) ==
    IF protocol \in {sma_extended_emeter_protocol_id, sma_inverter_protocol_id} THEN 20 ELSE 18

(* Where the payload of a packet with a data2 tag is, in a packet of its   *)
(* size or a longer one.                                                   *)
LEMMA Data2PayloadIs ==
  ASSUME NEW n \in Nat, NEW b \in Area(n), NEW l \in Nat, l >= 4, 20 + l <= n, NEW m \in (20 + l)..n,
         NEW protocol, Headed(b, l, protocol)
  PROVE  /\ Data2(Packet(b, m)) = 12 /\ getTagLength(Packet(b, m), 12) = l
         /\ getProtocolID(Packet(b, m)) = protocol
         /\ Payload(Packet(b, m)).udp = b /\ Payload(Packet(b, m)).at = PayloadAt(protocol)
         /\ Payload(Packet(b, m)).size = (16 + l) - PayloadAt(protocol)
<1> DEFINE p == Packet(b, m)
<1>1. Data2(p) = 12
  <2>1. Tagged(b, Data2Shape(l))
    BY DEF Headed
  <2> QED
    BY <2>1, FindInData2 DEF Data2, sma_tag_data2
<1>2. getTagLength(p, 12) = l /\ getTotalLength(p, 12) = 4 + l
  <2>1. Tag(b, 12, 16, l)
    BY ThreeTags DEF Headed
  <2>2. 12 \in Nat /\ 12 + 4 <= n
    OBVIOUS
  <2>3. getTagLength(p, 12) = b[12] * 256 + b[12 + 1] /\ getTotalLength(p, 12) = 4 + getTagLength(p, 12)
    BY <2>2, TagNumbers
  <2> HIDE DEF p
  <2> QED
    BY <2>1, <2>3 DEF Tag
<1>3. getProtocolID(p) = protocol
  <2>1. getProtocolID(p) = ToNat(ReadBytes(b, 12 + 4, 2))
    BY <1>1, PacketIs DEF getProtocolID, getBigEndian
  <2>2. PICK v : v = ReadBytes(b, 16, 2)
    OBVIOUS
  <2>3. v \in [1..2 -> Byte]
    <3>1. 16 \in Nat /\ 2 \in Nat /\ 16 + 2 <= n
      OBVIOUS
    <3> QED
      BY <2>2, <3>1, ReadTyped
  <2>4. v[1] = b[16] /\ v[2] = b[17]
    BY <2>2 DEF ReadBytes
  <2>5. ToNat(v) = v[1] * 256 + v[2]
    BY <2>3, NumberOfTwo
  <2>6. getProtocolID(p) = ToNat(v)
    BY <2>1, <2>2
  <2> HIDE DEF p
  <2> QED
    BY <2>4, <2>5, <2>6 DEF Headed
<1>4. getPayloadOffset(p) = PayloadAt(protocol) - 12
  <2> HIDE DEF p
  <2> QED
    BY <1>3 DEF getPayloadOffset, PayloadAt
<1>5. p.udp = b
  BY PacketIs
<1> HIDE DEF p
<1>6. PayloadAt(protocol) \in Nat
  BY DEF PayloadAt
<1>7. Payload(p).udp = b /\ Payload(p).at = 12 + getPayloadOffset(p)
      /\ Payload(p).size = (4 + l) - getPayloadOffset(p)
  <2>0. getPayloadOffset(p) \in {6, 8}
    BY <1>4 DEF PayloadAt
  <2>1. PICK x \in Nat : x = (4 + l) - getPayloadOffset(p)
    BY <2>0
  <2>2. UnsignedLong(x) = x
    BY NotNegative
  <2> QED
    BY <1>1, <1>2, <1>5, <2>1, <2>2 DEF Payload
<1>8. Payload(p).at = PayloadAt(protocol) /\ Payload(p).size = (16 + l) - PayloadAt(protocol)
  BY <1>4, <1>6, <1>7
<1> QED
  BY <1>1, <1>2, <1>3, <1>7, <1>8 DEF p

(* What is not written over stays.                                         *)
LEMMA HeadedStays ==
  ASSUME NEW b, NEW c, NEW l \in Nat, NEW protocol, Headed(b, l, protocol),
         \A o \in 0..17 : c[o] = b[o], \A o \in (16 + l)..(19 + l) : c[o] = b[o]
  PROVE  Headed(c, l, protocol)
<1>1. c[0] = b[0] /\ c[1] = b[1] /\ c[2] = b[2] /\ c[3] = b[3] /\ c[16] = b[16] /\ c[17] = b[17]
  OBVIOUS
<1>2. Tag(b, 4, 672, 4) /\ Tag(b, 12, 16, l) /\ Tag(b, 16 + l, 0, 0)
  BY ThreeTags DEF Headed
<1>3. Tag(c, 4, 672, 4)
  <2>1. 4 \in Nat /\ \A o \in 4..(4 + 3) : c[o] = b[o]
    OBVIOUS
  <2> QED
    BY <1>2, <2>1, TagStays
<1>4. Tag(c, 12, 16, l)
  <2>1. 12 \in Nat /\ \A o \in 12..(12 + 3) : c[o] = b[o]
    OBVIOUS
  <2> QED
    BY <1>2, <2>1, TagStays
<1>5. Tag(c, 16 + l, 0, 0)
  <2>1. PICK at \in Nat : at = 16 + l
    OBVIOUS
  <2>2. \A o \in at..(at + 3) : c[o] = b[o]
    BY <2>1
  <2> QED
    BY <1>2, <2>1, <2>2, TagStays
<1>6. Tagged(c, Data2Shape(l))
  BY <1>3, <1>4, <1>5, ThreeTags
<1> QED
  BY <1>1, <1>6 DEF Headed, Signed

SameBytes(b, c, at, w) == \A o \in at..((at + w) - 1) : c[o] = b[o]

(* Equal bytes are read equally.                                           *)
LEMMA ReadStays ==
  ASSUME NEW b, NEW c, NEW at \in Nat, NEW w \in Nat, SameBytes(b, c, at, w)
  PROVE  ReadBytes(c, at, w) = ReadBytes(b, at, w) /\ getLittleEndian(c, at, w) = getLittleEndian(b, at, w)
<1>1. \A i \in 1..w : (at + i) - 1 \in at..((at + w) - 1)
  OBVIOUS
<1>2. \A i \in 1..w : c[(at + i) - 1] = b[(at + i) - 1]
  BY <1>1 DEF SameBytes
<1>3. ReadBytes(c, at, w) = ReadBytes(b, at, w)
  BY <1>2 DEF ReadBytes
<1> QED
  BY <1>3 DEF getLittleEndian

-----------------------------------------------------------------------------
(* Inverter packets                                                        *)

(* The buffer holds the longest discovery packet and its size is a number  *)
(* of two bytes.                                                           *)
LEMMA BufferIs == BufferSize \in Nat /\ 78 <= BufferSize /\ BufferSize <= UINT16_MAX
  BY PacketsAssumption

(* A cleared buffer.                                                       *)
LEMMA NoBytesTyped == NoBytes \in Area(BufferSize) /\ \A o \in 0..(BufferSize - 1) : NoBytes[o] = 0
  BY DEF NoBytes, Area, Byte

(* The area b holds an inverter packet with l bytes, and these fields.     *)
Carries(b, at, fields) ==
    \A f \in DOMAIN fields :
        getLittleEndian(b, at + InverterField(f)[1], InverterField(f)[2]) = fields[f]

InverterPacket(b, l, fields) ==
    /\ b \in Area(BufferSize) /\ Headed(b, l, sma_inverter_protocol_id) /\ b[18] = (l \div 4) % 256
    /\ Carries(b, 20, fields)

InverterFieldValues(fields) ==
    /\ DOMAIN fields = InverterFields
    /\ \A f \in InverterFields : fields[f] \in [1..InverterField(f)[2] -> Byte]

(* The packet that the inverter requests start from.                       *)
LEMMA InverterHeaderIs ==
  ASSUME NEW l \in Nat, l >= 4, 20 + l <= BufferSize, NEW length, length = 20 + l
  PROVE  /\ InverterHeader(length) \in Area(BufferSize)
         /\ Headed(InverterHeader(length), l, sma_inverter_protocol_id)
         /\ InverterHeader(length)[18] = (l \div 4) % 256
         /\ \A o \in 20..(15 + l) : InverterHeader(length)[o] = 0
         /\ InverterAt(length) = 20
<1>1. BufferSize \in Nat /\ l <= UINT16_MAX
  BY BufferIs DEF UINT16_MAX
<1>2. sma_inverter_protocol_id \in Protocols
  BY DEF Protocols
<1>3. PICK h : h = setDefaultHeader(Packet(NoBytes, 20 + l), Group1, l, sma_inverter_protocol_id)
  OBVIOUS
<1>4. NoBytes \in Area(BufferSize) /\ \A o \in 0..(BufferSize - 1) : NoBytes[o] = 0
  BY NoBytesTyped
<1>5. /\ h \in Area(BufferSize) /\ Headed(h, l, sma_inverter_protocol_id)
      /\ \A o \in 20..(15 + l) : h[o] = NoBytes[o]
      /\ h[18] = (l \div 4) % 256
  BY <1>1, <1>2, <1>3, <1>4, HeaderIs
<1>6. PICK s \in Seq(Byte) : s = <<160>> /\ Len(s) = 1
  <2>1. <<160>> \in Seq(Byte)
    BY DEF Byte
  <2> QED
    BY <2>1
<1>7. PICK b : b = WriteBytes(h, 19, s)
  OBVIOUS
<1>8. b \in Area(BufferSize) /\ \A o \in 0..(BufferSize - 1) : o # 19 => b[o] = h[o]
  <2>1. 19 \in Nat /\ s \in Seq(Byte)
    OBVIOUS
  <2>2. b \in Area(BufferSize)
    BY <1>1, <1>5, <1>7, <2>1, WriteTyped
  <2>3. ASSUME NEW o \in 0..(BufferSize - 1), o # 19 PROVE b[o] = h[o]
    <3>1. o < 19 \/ o >= 19 + Len(s)
      BY <1>1, <1>6, <2>3
    <3> QED
      BY <1>1, <1>5, <1>7, <2>1, <3>1, WriteOutside
  <2> QED
    BY <2>2, <2>3
<1>9. Headed(b, l, sma_inverter_protocol_id)
  <2>1. \A o \in 0..17 : o \in 0..(BufferSize - 1) /\ o # 19
    BY <1>1
  <2>2. \A o \in (16 + l)..(19 + l) : o \in 0..(BufferSize - 1) /\ o # 19
    BY <1>1
  <2>3. (\A o \in 0..17 : b[o] = h[o]) /\ (\A o \in (16 + l)..(19 + l) : b[o] = h[o])
    BY <1>8, <2>1, <2>2
  <2> QED
    BY <1>5, <2>3, HeadedStays
<1>10. \A o \in 20..(15 + l) : b[o] = 0
  <2>1. \A o \in 20..(15 + l) : o \in 0..(BufferSize - 1) /\ o # 19
    BY <1>1
  <2> QED
    BY <1>4, <1>5, <1>8, <2>1
<1>11. b[18] = (l \div 4) % 256
  <2>1. 18 \in 0..(BufferSize - 1)
    BY <1>1
  <2> QED
    BY <1>5, <1>8, <2>1
<1>12. InverterHeader(length) = b
  <2>1. length - 20 = l
    OBVIOUS
  <2>2. 20 + l \in (20 + l)..BufferSize
    BY <1>1
  <2>3. Data2(Packet(h, 20 + l)) = 12
    BY <1>1, <1>5, <2>2, Data2PayloadIs
  <2> QED
    BY <1>3, <1>6, <1>7, <2>1, <2>3 DEF InverterHeader
<1>13. InverterAt(length) = 20
  <2>1. 20 + l \in (20 + l)..BufferSize
    BY <1>1
  <2>2. Payload(Packet(b, 20 + l)).at = PayloadAt(sma_inverter_protocol_id)
    BY <1>1, <1>8, <1>9, <2>1, Data2PayloadIs
  <2> QED
    BY <1>12, <2>2 DEF InverterAt, PayloadAt
<1> QED
  BY <1>8, <1>9, <1>10, <1>11, <1>12, <1>13

(* Zeros.                                                                  *)
LEMMA ZerosTyped ==
  ASSUME NEW k \in Nat
  PROVE  /\ Zeros(k) \in [1..k -> Byte] /\ Zeros(k) \in Seq(Byte) /\ Len(Zeros(k)) = k
         /\ \A i \in 1..k : Zeros(k)[i] = 0
  BY DEF Zeros, Byte

(* Four zero bytes are zero in either byte order.                          *)
LEMMA ZeroBytes ==
  ASSUME NEW b, NEW at \in Nat
  PROVE  getLittleEndian(b, at, 4) = Zeros(4) <=>
            b[at] = 0 /\ b[at + 1] = 0 /\ b[at + 2] = 0 /\ b[at + 3] = 0
<1>1. PICK v : v = ReadBytes(b, at, 4)
  OBVIOUS
<1>2. /\ v = [i \in 1..4 |-> v[i]]
      /\ v[1] = b[at] /\ v[2] = b[at + 1] /\ v[3] = b[at + 2] /\ v[4] = b[at + 3]
  BY <1>1 DEF ReadBytes
<1>3. Len(v) = 4
  BY <1>2
<1>4. PICK u : u = Reverse(v)
  OBVIOUS
<1>5. /\ u = [i \in 1..4 |-> u[i]]
      /\ u[1] = v[4] /\ u[2] = v[3] /\ u[3] = v[2] /\ u[4] = v[1]
  BY <1>3, <1>4 DEF Reverse
<1>6. u = Zeros(4) <=> u[1] = 0 /\ u[2] = 0 /\ u[3] = 0 /\ u[4] = 0
  <2>1. \A i \in 1..4 : i = 1 \/ i = 2 \/ i = 3 \/ i = 4
    OBVIOUS
  <2> QED
    BY <1>5, <2>1 DEF Zeros
<1> QED
  BY <1>1, <1>2, <1>4, <1>5, <1>6 DEF getLittleEndian

(* The fields of an inverter packet are set in its header. The last one    *)
(* lies where the end-of-data tag of a packet without data does.           *)
LEMMA InverterSet ==
  ASSUME NEW l \in Nat, l >= 34, 20 + l <= BufferSize, NEW length, length = 20 + l,
         NEW fields, InverterFieldValues(fields), l >= 38 \/ fields["LastRegisterID"] = Zeros(4),
         NEW b, b = setFields(InverterHeader(length), InverterAt(length), fields)
  PROVE  InverterPacket(b, l, fields)
<1>1. BufferSize \in Nat
  BY BufferIs
<1>2. PICK h : h = InverterHeader(length)
  OBVIOUS
<1>3. /\ h \in Area(BufferSize) /\ Headed(h, l, sma_inverter_protocol_id)
      /\ h[18] = (l \div 4) % 256 /\ InverterAt(length) = 20
  BY <1>2, InverterHeaderIs
<1>4. /\ DOMAIN fields \subseteq InverterFields
      /\ \A f \in DOMAIN fields : fields[f] \in [1..InverterField(f)[2] -> Byte]
  BY DEF InverterFieldValues
<1>5. 20 \in Nat /\ 20 + 34 <= BufferSize
  BY <1>1
<1>6. b = setFields(h, 20, fields)
  BY <1>2, <1>3
<1>7. /\ b \in Area(BufferSize)
      /\ \A f \in DOMAIN fields :
             getLittleEndian(b, 20 + InverterField(f)[1], InverterField(f)[2]) = fields[f]
      /\ \A o \in 0..(BufferSize - 1) : (o < 20 \/ o >= 20 + 34) => b[o] = h[o]
  <2> HIDE DEF Area, InverterFields, InverterField
  <2> QED
    BY <1>1, <1>3, <1>4, <1>5, <1>6, InverterFieldsSet
<1>8. Carries(b, 20, fields)
  BY <1>7 DEF Carries
<1>9. b[18] = (l \div 4) % 256
  <2>1. 18 \in 0..(BufferSize - 1)
    BY <1>1
  <2> QED
    BY <1>3, <1>7, <2>1
<1>10. \A o \in 0..17 : b[o] = h[o]
  <2>1. \A o \in 0..17 : o \in 0..(BufferSize - 1) /\ o < 20
    BY <1>1
  <2> QED
    BY <1>7, <2>1
<1>11. \A o \in (16 + l)..(19 + l) : b[o] = h[o]
  <2>1. CASE l >= 38
    <3>1. \A o \in (16 + l)..(19 + l) : o \in 0..(BufferSize - 1) /\ o >= 20 + 34
      BY <1>1, <2>1
    <3> QED
      BY <1>7, <3>1
  <2>2. CASE l < 38
    <3>1. ASSUME NEW o \in (16 + l)..(19 + l)
          PROVE  o >= 54 \/ o = 50 \/ o = 51 \/ o = 52 \/ o = 53
      OBVIOUS
    <3>2. "LastRegisterID" \in DOMAIN fields /\ InverterField("LastRegisterID")[1] = 30
          /\ InverterField("LastRegisterID")[2] = 4
      BY DEF InverterFieldValues, InverterFields, InverterField
    <3>3. fields["LastRegisterID"] = Zeros(4)
      BY <2>2
    <3>4. getLittleEndian(b, 20 + 30, 4) = Zeros(4)
      BY <3>2, <3>3, <1>7
    <3>5. b[50] = 0 /\ b[51] = 0 /\ b[52] = 0 /\ b[53] = 0
      <4>1. 20 + 30 = 50 /\ 50 \in Nat
        OBVIOUS
      <4>2. getLittleEndian(b, 50, 4) = Zeros(4)
        BY <3>4
      <4>3. b[50] = 0 /\ b[50 + 1] = 0 /\ b[50 + 2] = 0 /\ b[50 + 3] = 0
        BY <4>2, ZeroBytes
      <4> QED
        BY <4>3
    <3>6. ASSUME NEW o \in (16 + l)..(19 + l), o < 54 PROVE h[o] = 0
      <4>1. Tag(h, 16 + l, 0, 0)
        BY <1>3, ThreeTags DEF Headed
      <4>2. PICK at \in Nat : at = 16 + l
        OBVIOUS
      <4>3. h[at] \in Byte /\ h[at + 1] \in Byte /\ h[at + 2] \in Byte /\ h[at + 3] \in Byte
        BY <1>1, <1>3, <4>2 DEF Area
      <4>4. h[at] * 256 + h[at + 1] = 0 /\ h[at + 2] * 256 + h[at + 3] = 0
        BY SMTT(30), <4>1, <4>2 DEF Tag
      <4>5. PICK w \in 0..255, x \in 0..255, y \in 0..255, z \in 0..255 :
               w = h[at] /\ x = h[at + 1] /\ y = h[at + 2] /\ z = h[at + 3]
        BY ZenonT(60), <4>3 DEF Byte
      <4>6. w = 0 /\ x = 0 /\ y = 0 /\ z = 0
        <5>1. w * 256 + x = 0 /\ y * 256 + z = 0
          BY <4>4, <4>5
        <5> QED
          BY <5>1
      <4>7. o = at \/ o = at + 1 \/ o = at + 2 \/ o = at + 3
        BY <4>2
      <4> QED
        BY <4>5, <4>6, <4>7
    <3>7. ASSUME NEW o \in (16 + l)..(19 + l) PROVE b[o] = h[o]
      <4>1. CASE o < 54
        BY <3>1, <3>5, <3>6, <4>1
      <4>2. CASE o >= 54
        <5>1. o \in 0..(BufferSize - 1) /\ o >= 20 + 34
          BY <1>1, <4>2
        <5> QED
          BY <1>7, <5>1
      <4> QED
        BY <4>1, <4>2
    <3> QED
      BY <3>7
  <2> QED
    BY <2>1, <2>2
<1>12. Headed(b, l, sma_inverter_protocol_id)
  BY <1>3, <1>10, <1>11, HeadedStays
<1> QED
  BY <1>7, <1>8, <1>9, <1>12 DEF InverterPacket

(* Data follows the fields.                                                *)
LEMMA InverterData ==
  ASSUME NEW l \in Nat, l >= 34, 20 + l <= BufferSize, NEW length, length = 20 + l,
         NEW fields, DOMAIN fields \subseteq InverterFields, NEW b, InverterPacket(b, l, fields),
         NEW s \in Seq(Byte), 54 + Len(s) <= 16 + l,
         NEW c, c = setDataUint8Array(b, InverterAt(length), 0, s)
  PROVE  /\ InverterPacket(c, l, fields)
         /\ \A i \in 1..Len(s) : c[(54 + i) - 1] = s[i]
<1>1. BufferSize \in Nat
  BY BufferIs
<1>2. InverterAt(length) = 20
  BY InverterHeaderIs
<1>3. c = WriteBytes(b, 54, s)
  BY <1>2 DEF setDataUint8Array, sma_data_offset
<1>4. 54 \in Nat /\ b \in Area(BufferSize)
  BY DEF InverterPacket
<1>5. c \in Area(BufferSize)
  BY <1>1, <1>3, <1>4, WriteTyped
<1>6. ASSUME NEW o \in 0..(BufferSize - 1), o < 54 \/ o >= 54 + Len(s)
      PROVE  c[o] = b[o]
  BY <1>1, <1>3, <1>4, <1>6, WriteOutside
<1>7. Headed(c, l, sma_inverter_protocol_id)
  <2>1. \A o \in 0..17 : o \in 0..(BufferSize - 1) /\ o < 54
    BY <1>1
  <2>2. \A o \in (16 + l)..(19 + l) : o \in 0..(BufferSize - 1) /\ o >= 54 + Len(s)
    BY <1>1
  <2>3. (\A o \in 0..17 : c[o] = b[o]) /\ (\A o \in (16 + l)..(19 + l) : c[o] = b[o])
    BY <1>6, <2>1, <2>2
  <2> QED
    BY <2>3, HeadedStays DEF InverterPacket
<1>8. c[18] = (l \div 4) % 256
  <2>1. 18 \in 0..(BufferSize - 1)
    BY <1>1
  <2> QED
    BY <1>6, <2>1 DEF InverterPacket
<1>9. Carries(c, 20, fields)
  <2>1. ASSUME NEW f \in DOMAIN fields
        PROVE  getLittleEndian(c, 20 + InverterField(f)[1], InverterField(f)[2])
                  = getLittleEndian(b, 20 + InverterField(f)[1], InverterField(f)[2])
    <3>1. PICK at \in Nat, w \in Nat : at = 20 + InverterField(f)[1] /\ w = InverterField(f)[2] /\ at + w <= 54
      BY InverterPlaces
    <3>2. \A o \in at..((at + w) - 1) : o \in 0..(BufferSize - 1) /\ o < 54
      <4>1. 54 <= BufferSize
        BY <1>1
      <4>2. at + w <= 54
        BY <3>1
      <4> QED
        BY <1>1, <4>1, <4>2
    <3>3. SameBytes(b, c, at, w)
      BY <1>6, <3>2 DEF SameBytes
    <3>4. getLittleEndian(c, at, w) = getLittleEndian(b, at, w)
      BY <3>3, ReadStays
    <3> QED
      BY <3>1, <3>4
  <2> QED
    BY <2>1 DEF Carries, InverterPacket
<1>10. \A i \in 1..Len(s) : c[(54 + i) - 1] = s[i]
  <2>1. ASSUME NEW i \in 1..Len(s) PROVE c[(54 + i) - 1] = s[i]
    <3>1. 54 + i <= BufferSize /\ 54 \in Nat
      BY <1>1
    <3> QED
      BY <1>1, <1>3, <1>4, <3>1, WriteInside
  <2> QED
    BY <2>1
<1> QED
  BY <1>5, <1>7, <1>8, <1>9, <1>10 DEF InverterPacket

(* A function on 1..k is a sequence.                                       *)
LEMMA BytesOf ==
  ASSUME NEW k \in Nat, NEW v \in [1..k -> Byte]
  PROVE  v \in Seq(Byte) /\ Len(v) = k
  OBVIOUS

(* The first k tags of a shape in a sequence of bytes.                     *)
HasTags(s, shape, k) ==
    \A i \in 1..k : SeqTag(s, shape[i].at, shape[i].id, shape[i].length)

(* Tags in a sequence are tags of the memory that it is written to.        *)
LEMMA WrittenTags ==
  ASSUME NEW n \in Nat, NEW b \in Area(n), NEW s \in Seq(Byte), Len(s) <= n,
         NEW tags \in Seq(TagRecords), HasTags(s, tags, Len(tags))
  PROVE  Tagged(WriteBytes(b, 0, s), tags)
<1>1. ASSUME NEW i \in DOMAIN tags
      PROVE  Tag(WriteBytes(b, 0, s), tags[i].at, tags[i].id, tags[i].length)
  <2>1. i \in 1..Len(tags) /\ tags[i] \in TagRecords
    OBVIOUS
  <2>2. tags[i].at \in Nat
    BY <2>1 DEF TagRecords
  <2>3. SeqTag(s, tags[i].at, tags[i].id, tags[i].length)
    BY <2>1 DEF HasTags
  <2> QED
    BY <2>2, <2>3, WrittenTag
<1> QED
  BY <1>1 DEF Tagged

(* The signature at the beginning of a packet that is written.             *)
SignedBytes(s) == s[1] = 83 /\ s[2] = 77 /\ s[3] = 65 /\ s[4] = 0

(* The signature has four bytes.                                           *)
LEMMA SignatureIs == /\ sma_signature \in Seq(Byte) /\ Len(sma_signature) = 4
                     /\ SignedBytes(sma_signature)
<1>1. <<83, 77, 65, 0>> \in Seq(Byte)
  BY DEF Byte
<1> QED
  BY <1>1 DEF sma_signature, SignedBytes

(* What follows leaves the signature alone.                                *)
LEMMA SignedStays ==
  ASSUME NEW s \in Seq(Byte), Len(s) >= 4, SignedBytes(s), NEW r, \A i \in 1..Len(s) : r[i] = s[i]
  PROVE  SignedBytes(r)
<1>1. 1 \in 1..Len(s) /\ 2 \in 1..Len(s) /\ 3 \in 1..Len(s) /\ 4 \in 1..Len(s)
  OBVIOUS
<1> QED
  BY <1>1 DEF SignedBytes

(* The signature is in the memory that it was written to.                  *)
LEMMA WrittenSignature ==
  ASSUME NEW n \in Nat, NEW b \in Area(n), NEW s \in Seq(Byte), Len(s) <= n, Len(s) >= 4, SignedBytes(s)
  PROVE  Signed(WriteBytes(b, 0, s))
<1>1. \A i \in 1..Len(s) : WriteBytes(b, 0, s)[(0 + i) - 1] = s[i]
  <2>1. 0 \in Nat /\ \A i \in 1..Len(s) : 0 + i <= n
    OBVIOUS
  <2> QED
    BY <2>1, WriteInside
<1>2. 1 \in 1..Len(s) /\ 2 \in 1..Len(s) /\ 3 \in 1..Len(s) /\ 4 \in 1..Len(s)
      /\ (0 + 1) - 1 = 0 /\ (0 + 2) - 1 = 1 /\ (0 + 3) - 1 = 2 /\ (0 + 4) - 1 = 3
  OBVIOUS
<1>3. PICK w : w = WriteBytes(b, 0, s)
  OBVIOUS
<1>4. w[0] = s[1] /\ w[1] = s[2] /\ w[2] = s[3] /\ w[3] = s[4]
  BY <1>1, <1>2, <1>3
<1> QED
  BY <1>3, <1>4 DEF Signed, SignedBytes

(* The ids and lengths of the tags fit into two bytes.                     *)
LEMMA SmallNumbers ==
  /\ 672 <= UINT16_MAX /\ 128 <= UINT16_MAX /\ 112 <= UINT16_MAX /\ 48 <= UINT16_MAX
  /\ 32 <= UINT16_MAX /\ 16 <= UINT16_MAX /\ 0 <= UINT16_MAX
  /\ \A k \in 0..38 : k <= UINT16_MAX
  BY DEF UINT16_MAX

(* The bytes of a packet as far as they are put together.                  *)
PutTogether(s, k, shape, j) ==
    /\ s \in Seq(Byte) /\ Len(s) = k /\ k \in Nat /\ k >= 4 /\ SignedBytes(s)
    /\ shape \in Seq(TagRecords) /\ j \in Nat /\ j <= Len(shape) /\ HasTags(s, shape, j)

NextTagOf(s, k, shape, j, tag, payload) ==
    /\ PutTogether(s, k, shape, j) /\ j < Len(shape) /\ shape[j + 1] = tag
    /\ tag.at = k /\ tag.id \in Nat /\ tag.id <= UINT16_MAX
    /\ payload \in Seq(Byte) /\ Len(payload) = tag.length /\ Len(payload) <= UINT16_MAX

Begins(r, s, k) == \A i \in 1..k : r[i] = s[i]
Holds(r, at, payload) == \A i \in 1..Len(payload) : r[at + i] = payload[i]

(* The next tag of the shape, put behind the ones before it.               *)
LEMMA TagPutOn ==
  ASSUME NEW s, NEW k, NEW shape, NEW j, NEW tag, NEW payload, NextTagOf(s, k, shape, j, tag, payload),
         NEW r, r = s \o TagBytes(tag.id, payload)
  PROVE  /\ PutTogether(r, k + 4 + Len(payload), shape, j + 1)
         /\ Begins(r, s, k) /\ Holds(r, k + 4, payload)
<1>1. /\ s \in Seq(Byte) /\ Len(s) = k /\ k \in Nat /\ k >= 4 /\ SignedBytes(s)
      /\ shape \in Seq(TagRecords) /\ j \in Nat /\ j + 1 <= Len(shape) /\ HasTags(s, shape, j)
  BY DEF NextTagOf, PutTogether
<1>2. /\ shape[j + 1] = tag /\ tag.at = k /\ tag.id \in Nat /\ tag.id <= UINT16_MAX
      /\ payload \in Seq(Byte) /\ Len(payload) = tag.length /\ Len(payload) <= UINT16_MAX
  BY DEF NextTagOf
<1>3. /\ r \in Seq(Byte) /\ Len(r) = Len(s) + 4 + Len(payload)
      /\ SeqTag(r, Len(s), tag.id, Len(payload))
      /\ \A i \in 1..Len(s) : r[i] = s[i]
      /\ \A i \in 1..Len(payload) : r[Len(s) + 4 + i] = payload[i]
  BY ZenonT(60), <1>1, <1>2, JoinTag
<1>4. ASSUME NEW i \in 1..(j + 1) PROVE SeqTag(r, shape[i].at, shape[i].id, shape[i].length)
  <2>1. CASE i = j + 1
    <3>1. shape[i].at = Len(s) /\ shape[i].id = tag.id /\ shape[i].length = Len(payload)
      BY <1>1, <1>2, <2>1
    <3> QED
      BY <1>3, <3>1
  <2>2. CASE i # j + 1
    <3>1. i \in 1..j /\ i \in 1..Len(shape)
      BY <1>1, <2>2
    <3>2. shape[i] \in TagRecords
      BY <1>1, <3>1
    <3>3. shape[i].at \in Nat
      BY <3>2 DEF TagRecords
    <3>4. SeqTag(s, shape[i].at, shape[i].id, shape[i].length)
      BY <1>1, <3>1 DEF HasTags
    <3>5. Len(s) <= Len(r)
      BY <1>1, <1>2, <1>3
    <3> QED
      BY <1>1, <1>3, <3>3, <3>4, <3>5, KeptTag
  <2> QED
    BY <2>1, <2>2
<1>5. HasTags(r, shape, j + 1)
  BY <1>4 DEF HasTags
<1>6. SignedBytes(r)
  BY <1>1, <1>3, SignedStays
<1>7. Len(r) = k + 4 + Len(payload) /\ k + 4 + Len(payload) \in Nat /\ k + 4 + Len(payload) >= 4
  BY <1>1, <1>2, <1>3
<1>8. PICK m \in Nat : m = k + 4 + Len(payload) /\ m >= 4 /\ Len(r) = m
  BY <1>7
<1>9. PICK n \in Nat : n = j + 1 /\ n <= Len(shape)
  BY <1>1
<1>10. PutTogether(r, m, shape, n)
  <2>1. HasTags(r, shape, n)
    BY <1>5, <1>9
  <2>2. r \in Seq(Byte) /\ shape \in Seq(TagRecords)
    BY <1>1, <1>3
  <2> QED
    BY <1>6, <1>8, <1>9, <2>1, <2>2 DEF PutTogether
<1>11. Begins(r, s, k)
  BY <1>1, <1>3 DEF Begins
<1>12. Holds(r, k + 4, payload)
  <2>1. \A i \in 1..Len(payload) : r[Len(s) + 4 + i] = payload[i]
    BY <1>3
  <2>2. Len(s) = k
    BY <1>1
  <2> QED
    BY <2>1, <2>2 DEF Holds
<1> QED
  BY <1>8, <1>9, <1>10, <1>11, <1>12

(* Four bytes.                                                             *)
LEMMA FourBytesAre ==
  /\ Group1 \in Seq(Byte) /\ Len(Group1) = 4 /\ AnyGroup \in Seq(Byte) /\ Len(AnyGroup) = 4
  /\ \A ip \in FourBytes : ip \in Seq(Byte) /\ Len(ip) = 4
<1>1. <<0, 0, 0, 1>> \in Seq(Byte) /\ <<255, 255, 255, 255>> \in Seq(Byte)
  BY DEF Byte
<1>2. ASSUME NEW ip \in FourBytes PROVE ip \in Seq(Byte) /\ Len(ip) = 4
  <2>1. PICK k \in Nat : k = 4
    OBVIOUS
  <2> QED
    BY <2>1, BytesOf DEF FourBytes
<1> QED
  BY <1>1, <1>2 DEF Group1, AnyGroup

(* The empty payload.                                                      *)
LEMMA NoPayload == <<>> \in Seq(Byte) /\ Len(<<>>) = 0
  OBVIOUS

(* The signature, and the first tag with its group.                        *)
LEMMA SignaturePut ==
  ASSUME NEW shape \in Seq(TagRecords)
  PROVE  PutTogether(sma_signature, 4, shape, 0)
  BY SignatureIs DEF PutTogether, HasTags

(* The constant discovery request has its shape.                           *)
LEMMA MulticastRequestIs == PutTogether(multicast_request, 20, RequestShape, 3)
<1>1. PICK s0 : s0 = sma_signature
  OBVIOUS
<1>2. PICK g \in Seq(Byte) : g = AnyGroup /\ Len(g) = 4 /\ Len(g) <= UINT16_MAX
  <2>1. 4 \in 0..38
    OBVIOUS
  <2>2. 4 <= UINT16_MAX
    BY <2>1, SmallNumbers
  <2> QED
    BY <2>2, FourBytesAre
<1>3. PICK e \in Seq(Byte) : e = <<>> /\ Len(e) = 0 /\ Len(e) <= UINT16_MAX
  BY NoPayload, SmallNumbers
<1>4. PICK t : t = RequestShape
  OBVIOUS
<1>5. t \in Seq(TagRecords) /\ Len(t) = 3
  BY <1>4 DEF RequestShape, TagRecords
<1>6. /\ t[1].at = 4 /\ t[1].id = 672 /\ t[1].length = 4
      /\ t[2].at = 12 /\ t[2].id = 32 /\ t[2].length = 0
      /\ t[3].at = 16 /\ t[3].id = 0 /\ t[3].length = 0
  BY <1>4 DEF RequestShape
<1>7. PICK s1, s2, s3 : s1 = s0 \o TagBytes(672, g) /\ s2 = s1 \o TagBytes(32, e) /\ s3 = s2 \o TagBytes(0, e)
  BY ZenonT(60)
<1>8. PutTogether(s0, 4, t, 0)
  BY <1>1, <1>5, SignaturePut
<1>9. PutTogether(s1, 12, t, 1)
  <2>1. NextTagOf(s0, 4, t, 0, t[1], g)
    BY <1>2, <1>5, <1>6, <1>8, SmallNumbers DEF NextTagOf
  <2>2. s1 = s0 \o TagBytes(t[1].id, g)
    BY <1>6, <1>7
  <2>3. PutTogether(s1, 4 + 4 + Len(g), t, 0 + 1)
    BY <2>1, <2>2, TagPutOn
  <2> QED
    BY <1>2, <2>3
<1>10. PutTogether(s2, 16, t, 2)
  <2>1. NextTagOf(s1, 12, t, 1, t[2], e)
    BY <1>3, <1>5, <1>6, <1>9, SmallNumbers DEF NextTagOf
  <2>2. s2 = s1 \o TagBytes(t[2].id, e)
    BY <1>6, <1>7
  <2>3. PutTogether(s2, 12 + 4 + Len(e), t, 1 + 1)
    BY <2>1, <2>2, TagPutOn
  <2> QED
    BY <1>3, <2>3
<1>11. PutTogether(s3, 20, t, 3)
  <2>1. NextTagOf(s2, 16, t, 2, t[3], e)
    BY <1>3, <1>5, <1>6, <1>10, SmallNumbers DEF NextTagOf
  <2>2. s3 = s2 \o TagBytes(t[3].id, e)
    BY <1>6, <1>7
  <2>3. PutTogether(s3, 16 + 4 + Len(e), t, 2 + 1)
    BY <2>1, <2>2, TagPutOn
  <2> QED
    BY <1>3, <2>3
<1>12. s3 = multicast_request
  BY <1>1, <1>2, <1>3, <1>7
     DEF multicast_request, GroupTag, EndTag, sma_tag_group_id, sma_tag_discovery, sma_tag_endofdata
<1> QED
  BY <1>4, <1>11, <1>12

(* Lengths that fit into two bytes.                                        *)
LEMMA FewBytes == 1 <= UINT16_MAX /\ 2 <= UINT16_MAX /\ 4 <= UINT16_MAX
  BY DEF UINT16_MAX

(* The discovery response has its shape, and the ip address at its place.  *)
LEMMA DefaultResponseIs ==
  ASSUME NEW ip \in FourBytes
  PROVE  /\ PutTogether(defaultResponse(Group1, ip), 57, ResponseShape, 8)
         /\ \A i \in 1..4 : defaultResponse(Group1, ip)[38 + i] = ip[i]
<1>1. PICK s0 : s0 = sma_signature
  OBVIOUS
<1>2. PICK g \in Seq(Byte) : g = Group1 /\ Len(g) = 4 /\ Len(g) <= UINT16_MAX
  BY FourBytesAre, FewBytes
<1>3. PICK a \in Seq(Byte), c \in Seq(Byte), d \in Seq(Byte), f \in Seq(Byte) :
         /\ a = <<0, 1>> /\ Len(a) = 2 /\ Len(a) <= UINT16_MAX
         /\ c = <<0, 1, 0, 3>> /\ Len(c) = 4 /\ Len(c) <= UINT16_MAX
         /\ d = <<239, 12>> /\ Len(d) = 2 /\ Len(d) <= UINT16_MAX
         /\ f = <<0>> /\ Len(f) = 1 /\ Len(f) <= UINT16_MAX
  <2>1. /\ <<0, 1>> \in Seq(Byte) /\ <<0, 1, 0, 3>> \in Seq(Byte) /\ <<239, 12>> \in Seq(Byte)
        /\ <<0>> \in Seq(Byte)
    BY DEF Byte
  <2> QED
    BY <2>1, FewBytes
<1>4. PICK e \in Seq(Byte) : e = <<>> /\ Len(e) = 0 /\ Len(e) <= UINT16_MAX
  BY NoPayload, SmallNumbers
<1>5. ip \in Seq(Byte) /\ Len(ip) = 4 /\ Len(ip) <= UINT16_MAX
  BY FourBytesAre, FewBytes
<1>6. PICK t : t = ResponseShape
  OBVIOUS
<1>7. t \in Seq(TagRecords) /\ Len(t) = 8
  BY <1>6 DEF ResponseShape, TagRecords
<1>8. /\ t[1].at = 4 /\ t[1].id = 672 /\ t[1].length = 4
      /\ t[2].at = 12 /\ t[2].id = 0 /\ t[2].length = 2
      /\ t[3].at = 18 /\ t[3].id = 16 /\ t[3].length = 4
      /\ t[4].at = 26 /\ t[4].id = 32 /\ t[4].length = 4
      /\ t[5].at = 34 /\ t[5].id = 48 /\ t[5].length = 4
      /\ t[6].at = 42 /\ t[6].id = 112 /\ t[6].length = 2
      /\ t[7].at = 48 /\ t[7].id = 128 /\ t[7].length = 1
      /\ t[8].at = 53 /\ t[8].id = 0 /\ t[8].length = 0
  BY <1>6 DEF ResponseShape
<1>9. PICK s1 : s1 = s0 \o TagBytes(672, g)
  OBVIOUS
<1>10. PICK s2 : s2 = s1 \o TagBytes(0, a)
  OBVIOUS
<1>11. PICK s3 : s3 = s2 \o TagBytes(16, c)
  OBVIOUS
<1>12. PICK s4 : s4 = s3 \o TagBytes(32, g)
  OBVIOUS
<1>13. PICK s5 : s5 = s4 \o TagBytes(48, ip)
  OBVIOUS
<1>14. PICK s6 : s6 = s5 \o TagBytes(112, d)
  OBVIOUS
<1>15. PICK s7 : s7 = s6 \o TagBytes(128, f)
  OBVIOUS
<1>16. PICK s8 : s8 = s7 \o TagBytes(0, e)
  OBVIOUS
<1>17. PutTogether(s0, 4, t, 0)
  BY <1>1, <1>7, SignaturePut
<1>18. PutTogether(s1, 12, t, 1)
  <2>1. NextTagOf(s0, 4, t, 0, t[1], g)
    BY <1>2, <1>7, <1>8, <1>17, SmallNumbers DEF NextTagOf
  <2>2. s1 = s0 \o TagBytes(t[1].id, g)
    BY <1>8, <1>9
  <2>3. PutTogether(s1, 4 + 4 + Len(g), t, 0 + 1)
    BY <2>1, <2>2, TagPutOn
  <2> QED
    BY <1>2, <2>3
<1>19. PutTogether(s2, 18, t, 2)
  <2>1. NextTagOf(s1, 12, t, 1, t[2], a)
    BY <1>3, <1>7, <1>8, <1>18, SmallNumbers DEF NextTagOf
  <2>2. s2 = s1 \o TagBytes(t[2].id, a)
    BY <1>8, <1>10
  <2>3. PutTogether(s2, 12 + 4 + Len(a), t, 1 + 1)
    BY <2>1, <2>2, TagPutOn
  <2> QED
    BY <1>3, <2>3
<1>20. PutTogether(s3, 26, t, 3)
  <2>1. NextTagOf(s2, 18, t, 2, t[3], c)
    BY <1>3, <1>7, <1>8, <1>19, SmallNumbers DEF NextTagOf
  <2>2. s3 = s2 \o TagBytes(t[3].id, c)
    BY <1>8, <1>11
  <2>3. PutTogether(s3, 18 + 4 + Len(c), t, 2 + 1)
    BY <2>1, <2>2, TagPutOn
  <2> QED
    BY <1>3, <2>3
<1>21. PutTogether(s4, 34, t, 4)
  <2>1. NextTagOf(s3, 26, t, 3, t[4], g)
    BY <1>2, <1>7, <1>8, <1>20, SmallNumbers DEF NextTagOf
  <2>2. s4 = s3 \o TagBytes(t[4].id, g)
    BY <1>8, <1>12
  <2>3. PutTogether(s4, 26 + 4 + Len(g), t, 3 + 1)
    BY <2>1, <2>2, TagPutOn
  <2> QED
    BY <1>2, <2>3
<1>22. /\ PutTogether(s5, 42, t, 5)
       /\ Holds(s5, 34 + 4, ip)
  <2>1. NextTagOf(s4, 34, t, 4, t[5], ip)
    BY <1>5, <1>7, <1>8, <1>21, SmallNumbers DEF NextTagOf
  <2>2. s5 = s4 \o TagBytes(t[5].id, ip)
    BY <1>8, <1>13
  <2>3. PutTogether(s5, 34 + 4 + Len(ip), t, 4 + 1)
    BY <2>1, <2>2, TagPutOn
  <2>4. Holds(s5, 34 + 4, ip)
    BY <2>1, <2>2, TagPutOn
  <2> QED
    BY <1>5, <2>3, <2>4
<1>23. /\ PutTogether(s6, 48, t, 6)
       /\ Begins(s6, s5, 42)
  <2>1. NextTagOf(s5, 42, t, 5, t[6], d)
    BY <1>3, <1>7, <1>8, <1>22, SmallNumbers DEF NextTagOf
  <2>2. s6 = s5 \o TagBytes(t[6].id, d)
    BY <1>8, <1>14
  <2>3. PutTogether(s6, 42 + 4 + Len(d), t, 5 + 1)
    BY <2>1, <2>2, TagPutOn
  <2>4. Begins(s6, s5, 42)
    BY <2>1, <2>2, TagPutOn
  <2> QED
    BY <1>3, <2>3, <2>4
<1>24. /\ PutTogether(s7, 53, t, 7)
       /\ Begins(s7, s6, 48)
  <2>1. NextTagOf(s6, 48, t, 6, t[7], f)
    BY <1>3, <1>7, <1>8, <1>23, SmallNumbers DEF NextTagOf
  <2>2. s7 = s6 \o TagBytes(t[7].id, f)
    BY <1>8, <1>15
  <2>3. PutTogether(s7, 48 + 4 + Len(f), t, 6 + 1)
    BY <2>1, <2>2, TagPutOn
  <2>4. Begins(s7, s6, 48)
    BY <2>1, <2>2, TagPutOn
  <2> QED
    BY <1>3, <2>3, <2>4
<1>25. /\ PutTogether(s8, 57, t, 8)
       /\ Begins(s8, s7, 53)
  <2>1. NextTagOf(s7, 53, t, 7, t[8], e)
    BY <1>4, <1>7, <1>8, <1>24, SmallNumbers DEF NextTagOf
  <2>2. s8 = s7 \o TagBytes(t[8].id, e)
    BY <1>8, <1>16
  <2>3. PutTogether(s8, 53 + 4 + Len(e), t, 7 + 1)
    BY <2>1, <2>2, TagPutOn
  <2>4. Begins(s8, s7, 53)
    BY <2>1, <2>2, TagPutOn
  <2> QED
    BY <1>4, <2>3, <2>4
<1>26. s8 = defaultResponse(Group1, ip)
  BY <1>1, <1>2, <1>3, <1>4, <1>9, <1>10, <1>11, <1>12, <1>13, <1>14, <1>15, <1>16
     DEF defaultResponse, GroupTag, EndTag, sma_tag_group_id, sma_tag_data2, sma_tag_discovery,
         sma_tag_ip_address, sma_tag_endofdata
<1>27. \A i \in 1..4 : s8[38 + i] = ip[i]
  <2>1. ASSUME NEW i \in 1..4 PROVE s8[38 + i] = ip[i]
    <3>1. i \in 1..Len(ip) /\ 34 + 4 + i = 38 + i /\ 38 + i \in 1..42 /\ 38 + i \in 1..48 /\ 38 + i \in 1..53
      BY <1>5
    <3>2. s5[38 + i] = ip[i]
      BY <1>22, <3>1 DEF Holds
    <3>3. s6[38 + i] = s5[38 + i] /\ s7[38 + i] = s6[38 + i] /\ s8[38 + i] = s7[38 + i]
      BY <1>23, <1>24, <1>25, <3>1 DEF Begins
    <3> QED
      BY <3>2, <3>3
  <2> QED
    BY <2>1
<1> QED
  BY <1>6, <1>25, <1>26, <1>27

(* Memory areas with the packets of device discovery.                      *)
DiscoveryRequest(n, b) == b \in Area(n) /\ Signed(b) /\ Tagged(b, RequestShape)

DiscoveryResponse(n, b, ip) ==
    /\ b \in Area(n) /\ Signed(b) /\ Tagged(b, ResponseShape)
    /\ ip \in FourBytes /\ \A i \in 1..4 : b[37 + i] = ip[i]

(* setMulticastRequestPacket writes a discovery request.                   *)
LEMMA RequestWritten ==
  ASSUME NEW n \in Nat, n >= 20, NEW b \in Area(n)
  PROVE  DiscoveryRequest(n, setMulticastRequestPacket(b)) /\ Len(multicast_request) = 20
<1>1. PICK s : s = multicast_request
  OBVIOUS
<1>2. /\ s \in Seq(Byte) /\ Len(s) = 20 /\ SignedBytes(s)
      /\ RequestShape \in Seq(TagRecords) /\ HasTags(s, RequestShape, 3)
  BY <1>1, MulticastRequestIs DEF PutTogether
<1>3. Len(RequestShape) = 3
  BY DEF RequestShape
<1>4. Len(s) <= n /\ Len(s) >= 4 /\ 0 \in Nat
  BY <1>2
<1>5. WriteBytes(b, 0, s) \in Area(n)
  BY <1>2, <1>4, WriteTyped
<1>6. Signed(WriteBytes(b, 0, s))
  BY <1>2, <1>4, WrittenSignature
<1>7. Tagged(WriteBytes(b, 0, s), RequestShape)
  BY <1>2, <1>3, <1>4, WrittenTags
<1> QED
  BY <1>1, <1>2, <1>5, <1>6, <1>7 DEF DiscoveryRequest, setMulticastRequestPacket

(* setDefaultResponsePacket writes a discovery response with the ip        *)
(* address.                                                                *)
LEMMA ResponseWritten ==
  ASSUME NEW n \in Nat, n >= 57, NEW b \in Area(n), NEW ip \in FourBytes
  PROVE  DiscoveryResponse(n, setDefaultResponsePacket(b, Group1, ip), ip)
<1>1. PICK s : s = defaultResponse(Group1, ip)
  OBVIOUS
<1>2. /\ s \in Seq(Byte) /\ Len(s) = 57 /\ SignedBytes(s)
      /\ ResponseShape \in Seq(TagRecords) /\ HasTags(s, ResponseShape, 8)
      /\ \A i \in 1..4 : s[38 + i] = ip[i]
  BY <1>1, DefaultResponseIs DEF PutTogether
<1>3. Len(ResponseShape) = 8
  BY DEF ResponseShape
<1>4. Len(s) <= n /\ Len(s) >= 4 /\ 0 \in Nat
  BY <1>2
<1>5. PICK w : w = WriteBytes(b, 0, s)
  OBVIOUS
<1>6. w \in Area(n)
  BY <1>2, <1>4, <1>5, WriteTyped
<1>7. Signed(w)
  BY <1>2, <1>4, <1>5, WrittenSignature
<1>8. Tagged(w, ResponseShape)
  <2>1. Tagged(WriteBytes(b, 0, s), ResponseShape)
    <3>1. HasTags(s, ResponseShape, Len(ResponseShape))
      BY <1>2, <1>3
    <3>2. s \in Seq(Byte) /\ Len(s) <= n /\ ResponseShape \in Seq(TagRecords)
      BY <1>2, <1>4
    <3> QED
      BY <3>1, <3>2, WrittenTags
  <2> QED
    BY <1>5, <2>1
<1>9. \A i \in 1..4 : w[37 + i] = ip[i]
  <2>1. ASSUME NEW i \in 1..4 PROVE w[37 + i] = ip[i]
    <3>1. PICK j \in 1..Len(s) : j = 38 + i /\ 0 + j <= n /\ (0 + j) - 1 = 37 + i
      BY <1>2, <1>4
    <3>2. w[(0 + j) - 1] = s[j]
      BY <1>2, <1>4, <1>5, <3>1, WriteInside
    <3> QED
      BY <1>2, <3>1, <3>2
  <2> QED
    BY <2>1
<1> QED
  BY <1>1, <1>5, <1>6, <1>7, <1>8, <1>9 DEF DiscoveryResponse, setDefaultResponsePacket

(* The tag that ends a packet of a known shape.                            *)
LEMMA ShapedEnd ==
  ASSUME NEW n \in Nat, NEW b \in Area(n), NEW s \in 0..n, NEW m \in s..n, NEW tags,
         Shape(tags, s), Tagged(b, tags)
  PROVE  findEodTagPacket(Packet(b, m)) = s - 4
<1> DEFINE p == Packet(b, m)
           w == TagPackets(p)
           k == Len(tags)
           found == {i \in DOMAIN w : EndOfData(p, w[i])}
<1>1. /\ Chain(tags, s) /\ EndsData(tags[k]) /\ tags[k].at + 4 = s
      /\ tags \in Seq(TagRecords) /\ k \in Nat /\ k >= 1
      /\ \A i \in 1..(k - 1) : ~EndsData(tags[i])
  BY DEF Shape, Chain
<1>2. \A i \in 1..k : i <= Len(w) /\ w[i] = tags[i].at
  BY <1>1, ShapedWalk, SMTT(30)
<1>3. \A i \in 1..k : EndOfData(p, tags[i].at) <=> EndsData(tags[i])
  BY <1>1, ShapedTag
<1>4. w \in Seq(Fitting(p))
  <2>1. m \in 0..n
    OBVIOUS
  <2> QED
    BY <2>1, TagsFacts DEF Path
<1> HIDE DEF p, w, k
<1>5. DOMAIN w = 1..Len(w) /\ Len(w) \in Nat
  BY <1>4
<1>6. k \in found /\ found \in SUBSET Nat
  BY <1>1, <1>2, <1>3, <1>5
<1>7. \A i \in found : k <= i
  <2>1. ASSUME NEW i \in found, i < k PROVE FALSE
    <3>1. i \in 1..(k - 1) /\ i \in 1..k
      BY <1>1, <1>5, <2>1
    <3>2. EndOfData(p, w[i])
      OBVIOUS
    <3>3. EndsData(tags[i])
      BY <1>2, <1>3, <3>1, <3>2
    <3> QED
      BY <1>1, <3>1, <3>3
  <2> QED
    BY <1>1, <1>6, <2>1
<1>8. findEodTagPacket(p) = FirstStop(w, found)
  BY DEF findEodTagPacket, w
<1> HIDE DEF found
<1>9. PICK j \in found : FirstStop(w, found) = w[j] /\ \A i \in found : j <= i
  BY <1>6, FirstStopIs
<1>10. j = k
  BY <1>1, <1>6, <1>7, <1>9
<1>11. w[k] = tags[k].at /\ tags[k] \in TagRecords
  BY <1>1, <1>2 DEF k
<1>12. tags[k].at \in Nat
  BY <1>11 DEF TagRecords
<1> QED
  BY <1>1, <1>8, <1>9, <1>10, <1>11, <1>12 DEF p

(* The discovery response has 57 bytes.                                    *)
LEMMA ResponseLength == getDefaultResponsePacketLength = 57
<1>1. PICK z : z = [o \in 0..127 |-> 0]
  OBVIOUS
<1>2. PICK n \in Nat : n = 128
  OBVIOUS
<1>3. z \in Area(n)
  BY <1>1, <1>2 DEF Area, Byte
<1>4. PICK ip \in FourBytes : ip = Zeros(4)
  BY ZerosTyped DEF FourBytes
<1>5. PICK b : b = setDefaultResponsePacket(z, Group1, ip)
  OBVIOUS
<1>6. DiscoveryResponse(n, b, ip)
  BY <1>2, <1>3, <1>5, ResponseWritten
<1>7. b \in Area(n) /\ Tagged(b, ResponseShape)
  BY <1>6 DEF DiscoveryResponse
<1>8. findEodTagPacket(Packet(b, n)) = 57 - 4
  <2>1. 57 \in 0..n /\ n \in 57..n
    BY <1>2
  <2> QED
    BY <1>7, <2>1, Shapes, ShapedEnd
<1> QED
  BY <1>1, <1>2, <1>4, <1>5, <1>8 DEF getDefaultResponsePacketLength, TAG_HEADER_LENGTH

(* What a receive buffer holds before.                                     *)
LEMMA LeftoversTyped == Leftovers \subseteq Area(BufferSize)
<1>1. [o \in 0..(BufferSize - 1) |-> 255] \in Area(BufferSize)
  BY DEF Area, Byte
<1>2. [o \in 0..(BufferSize - 1) |-> IF o % 4 = 3 THEN sma_tag_ip_address ELSE 0] \in Area(BufferSize)
  BY DEF Area, Byte, sma_tag_ip_address
<1>3. ASSUME NEW ip \in Ips PROVE WriteBytes(NoBytes, 0, defaultResponse(Group1, ip)) \in Area(BufferSize)
  <2>1. ip \in FourBytes
    BY PacketsAssumption
  <2>2. BufferSize \in Nat /\ BufferSize >= 57 /\ NoBytes \in Area(BufferSize)
    BY BufferIs, NoBytesTyped
  <2> QED
    BY <2>1, <2>2, ResponseWritten DEF DiscoveryResponse, setDefaultResponsePacket
<1> QED
  BY <1>1, <1>2, <1>3 DEF Leftovers

(* Bytes put behind bytes.                                                 *)
LEMMA JoinedOn ==
  ASSUME NEW s \in Seq(Byte), NEW t \in Seq(Byte), NEW r, r = s \o t
  PROVE  r \in Seq(Byte) /\ Len(r) = Len(s) + Len(t) /\ Begins(r, s, Len(s)) /\ Holds(r, Len(s), t)
  BY Joined DEF Begins, Holds

(* What the request for any device tells.                                  *)
UnicastPayload ==
    <<96, 101, 9, 160>> \o [i \in 1..6 |-> 255] \o <<0, 0>> \o <<125, 0, 82, 190, 40, 58>>
        \o Zeros(6) \o <<1, 128>> \o <<0, 2, 0, 0>> \o Zeros(8)

Beginning(r) == r[1] = 96 /\ r[2] = 101 /\ r[3] = 9 /\ r[5] = 255 /\ r[6] = 255

(* What follows leaves the beginning of the payload alone.                 *)
LEMMA BeginningStays ==
  ASSUME NEW s, NEW r, NEW k \in Nat, k >= 6, Begins(r, s, k), Beginning(s)
  PROVE  Beginning(r)
  BY DEF Begins, Beginning

(* The payload of the unicast discovery request.                           *)
LEMMA UnicastPayloadIs ==
  /\ UnicastPayload \in Seq(Byte) /\ Len(UnicastPayload) = 38 /\ Beginning(UnicastPayload)
  /\ UnicastPayload[27] = 0 /\ UnicastPayload[28] = 2 /\ UnicastPayload[29] = 0 /\ UnicastPayload[30] = 0
  /\ \A i \in 1..8 : UnicastPayload[30 + i] = 0
<1>1. /\ <<96, 101, 9, 160>> \in Seq(Byte) /\ <<0, 0>> \in Seq(Byte) /\ <<125, 0, 82, 190, 40, 58>> \in Seq(Byte)
      /\ <<1, 128>> \in Seq(Byte) /\ <<0, 2, 0, 0>> \in Seq(Byte)
  BY DEF Byte
<1>2. PICK a \in Seq(Byte) : a = <<96, 101, 9, 160>> /\ Len(a) = 4 /\ a[1] = 96 /\ a[2] = 101 /\ a[3] = 9
  BY <1>1
<1>3. PICK b \in Seq(Byte) : b = [i \in 1..6 |-> 255] /\ Len(b) = 6 /\ b[1] = 255 /\ b[2] = 255
  <2>1. PICK k \in Nat : k = 6
    OBVIOUS
  <2>2. [i \in 1..k |-> 255] \in [1..k -> Byte]
    BY DEF Byte
  <2>3. PICK v : v = [i \in 1..6 |-> 255]
    OBVIOUS
  <2>4. v \in Seq(Byte) /\ Len(v) = 6
    BY <2>1, <2>2, <2>3, BytesOf
  <2>5. v[1] = 255 /\ v[2] = 255
    BY <2>3
  <2> QED
    BY <2>3, <2>4, <2>5
<1>4. PICK c \in Seq(Byte), d \in Seq(Byte), f \in Seq(Byte), g \in Seq(Byte) :
         /\ c = <<0, 0>> /\ Len(c) = 2 /\ d = <<125, 0, 82, 190, 40, 58>> /\ Len(d) = 6
         /\ f = <<1, 128>> /\ Len(f) = 2
         /\ g = <<0, 2, 0, 0>> /\ Len(g) = 4 /\ g[1] = 0 /\ g[2] = 2 /\ g[3] = 0 /\ g[4] = 0
  BY <1>1
<1>5. PICK e \in Seq(Byte), h \in Seq(Byte) :
         e = Zeros(6) /\ Len(e) = 6 /\ h = Zeros(8) /\ Len(h) = 8 /\ \A i \in 1..8 : h[i] = 0
  <2>1. 6 \in Nat /\ 8 \in Nat
    OBVIOUS
  <2>2. Zeros(6) \in Seq(Byte) /\ Len(Zeros(6)) = 6
    BY <2>1, ZerosTyped
  <2>3. Zeros(8) \in Seq(Byte) /\ Len(Zeros(8)) = 8 /\ \A i \in 1..8 : Zeros(8)[i] = 0
    BY <2>1, ZerosTyped
  <2> QED
    BY <2>2, <2>3
<1>6. PICK r2, r3, r4, r5, r6, r7, r8 :
         /\ r2 = a \o b /\ r3 = r2 \o c /\ r4 = r3 \o d /\ r5 = r4 \o e /\ r6 = r5 \o f
         /\ r7 = r6 \o g /\ r8 = r7 \o h
  OBVIOUS
<1>7. r2 \in Seq(Byte) /\ Len(r2) = 10 /\ Beginning(r2)
  <2>1. r2 \in Seq(Byte) /\ Len(r2) = Len(a) + Len(b) /\ Begins(r2, a, Len(a)) /\ Holds(r2, Len(a), b)
    BY <1>6, JoinedOn
  <2>2. r2[1] = a[1] /\ r2[2] = a[2] /\ r2[3] = a[3]
    BY <1>2, <2>1 DEF Begins
  <2>3. r2[4 + 1] = b[1] /\ r2[4 + 2] = b[2]
    BY <1>2, <1>3, <2>1 DEF Holds
  <2> QED
    BY <1>2, <1>3, <2>1, <2>2, <2>3 DEF Beginning

<1>8. /\ r3 \in Seq(Byte) /\ Len(r3) = 12 /\ Beginning(r3)
  <2>0. r3 = r2 \o c /\ r2 \in Seq(Byte) /\ c \in Seq(Byte)
    BY <1>6, <1>7
  <2>1. r3 \in Seq(Byte) /\ Len(r3) = Len(r2) + Len(c) /\ Begins(r3, r2, Len(r2)) /\ Holds(r3, Len(r2), c)
    BY <2>0, JoinedOn
  <2>2. Beginning(r3)
    BY <1>7, <2>1, BeginningStays
  <2> QED
    BY <1>4, <1>7, <2>1, <2>2
<1>9. /\ r4 \in Seq(Byte) /\ Len(r4) = 18 /\ Beginning(r4)
  <2>0. r4 = r3 \o d /\ r3 \in Seq(Byte) /\ d \in Seq(Byte)
    BY <1>6, <1>8
  <2>1. r4 \in Seq(Byte) /\ Len(r4) = Len(r3) + Len(d) /\ Begins(r4, r3, Len(r3)) /\ Holds(r4, Len(r3), d)
    BY <2>0, JoinedOn
  <2>2. Beginning(r4)
    BY <1>8, <2>1, BeginningStays
  <2> QED
    BY <1>4, <1>8, <2>1, <2>2
<1>10. /\ r5 \in Seq(Byte) /\ Len(r5) = 24 /\ Beginning(r5)
  <2>0. r5 = r4 \o e /\ r4 \in Seq(Byte) /\ e \in Seq(Byte)
    BY <1>6, <1>9
  <2>1. r5 \in Seq(Byte) /\ Len(r5) = Len(r4) + Len(e) /\ Begins(r5, r4, Len(r4)) /\ Holds(r5, Len(r4), e)
    BY <2>0, JoinedOn
  <2>2. Beginning(r5)
    BY <1>9, <2>1, BeginningStays
  <2> QED
    BY <1>5, <1>9, <2>1, <2>2
<1>11. /\ r6 \in Seq(Byte) /\ Len(r6) = 26 /\ Beginning(r6)
  <2>0. r6 = r5 \o f /\ r5 \in Seq(Byte) /\ f \in Seq(Byte)
    BY <1>6, <1>10
  <2>1. r6 \in Seq(Byte) /\ Len(r6) = Len(r5) + Len(f) /\ Begins(r6, r5, Len(r5)) /\ Holds(r6, Len(r5), f)
    BY <2>0, JoinedOn
  <2>2. Beginning(r6)
    BY <1>10, <2>1, BeginningStays
  <2> QED
    BY <1>4, <1>10, <2>1, <2>2
<1>12. /\ r7 \in Seq(Byte) /\ Len(r7) = 30 /\ Beginning(r7)
      /\ r7[27] = 0 /\ r7[28] = 2 /\ r7[29] = 0 /\ r7[30] = 0
  <2>0. r7 = r6 \o g /\ r6 \in Seq(Byte) /\ g \in Seq(Byte)
    BY <1>6, <1>11
  <2>1. r7 \in Seq(Byte) /\ Len(r7) = Len(r6) + Len(g) /\ Begins(r7, r6, Len(r6)) /\ Holds(r7, Len(r6), g)
    BY <2>0, JoinedOn
  <2>2. Beginning(r7)
    BY <1>11, <2>1, BeginningStays
  <2>3. r7[26 + 1] = g[1] /\ r7[26 + 2] = g[2] /\ r7[26 + 3] = g[3] /\ r7[26 + 4] = g[4]
    BY <1>4, <1>11, <2>1 DEF Holds
  <2> QED
    BY <1>4, <1>11, <2>1, <2>2, <2>3
<1>13. /\ r8 \in Seq(Byte) /\ Len(r8) = 38 /\ Beginning(r8)
      /\ r8[27] = 0 /\ r8[28] = 2 /\ r8[29] = 0 /\ r8[30] = 0 /\ \A i \in 1..8 : r8[30 + i] = 0
  <2>0. r8 = r7 \o h /\ r7 \in Seq(Byte) /\ h \in Seq(Byte)
    BY <1>6, <1>12
  <2>1. r8 \in Seq(Byte) /\ Len(r8) = Len(r7) + Len(h) /\ Begins(r8, r7, Len(r7)) /\ Holds(r8, Len(r7), h)
    BY <2>0, JoinedOn
  <2>2. Beginning(r8)
    BY <1>12, <2>1, BeginningStays
  <2>3. r8[27] = r7[27] /\ r8[28] = r7[28] /\ r8[29] = r7[29] /\ r8[30] = r7[30]
    BY <1>12, <2>1 DEF Begins
  <2>4. \A i \in 1..8 : r8[30 + i] = 0
    <3>1. \A i \in 1..8 : r8[30 + i] = h[i]
      BY <1>5, <1>12, <2>1 DEF Holds
    <3> QED
      BY <1>5, <3>1
  <2>5. r8[27] = 0 /\ r8[28] = 2 /\ r8[29] = 0 /\ r8[30] = 0
    BY <1>12, <2>3
  <2>6. Len(r8) = 38
    BY <1>5, <1>12, <2>1
  <2> QED
    BY <1>5, <1>12, <2>1, <2>2, <2>4, <2>5, <2>6
<1>14. r8 = UnicastPayload
  BY <1>2, <1>3, <1>4, <1>5, <1>6 DEF UnicastPayload
<1> QED
  BY <1>13, <1>14

(* The constant unicast discovery request is a packet of one data2 tag     *)
(* with that payload.                                                      *)
LEMMA UnicastRequestIs ==
  /\ PutTogether(unicast_request, 58, Data2Shape(38), 3)
  /\ \A i \in 1..38 : unicast_request[16 + i] = UnicastPayload[i]
<1>1. PICK s0 : s0 = sma_signature
  OBVIOUS
<1>2. PICK g \in Seq(Byte) : g = Group1 /\ Len(g) = 4 /\ Len(g) <= UINT16_MAX
  BY FourBytesAre, FewBytes
<1>3. PICK p \in Seq(Byte) : p = UnicastPayload /\ Len(p) = 38 /\ Len(p) <= UINT16_MAX
  <2>1. 38 \in 0..38
    OBVIOUS
  <2>2. 38 <= UINT16_MAX
    BY <2>1, SmallNumbers
  <2> QED
    BY <2>2, UnicastPayloadIs
<1>4. PICK e \in Seq(Byte) : e = <<>> /\ Len(e) = 0 /\ Len(e) <= UINT16_MAX
  BY NoPayload, SmallNumbers
<1>5. PICK t : t = Data2Shape(38)
  OBVIOUS
<1>6. t \in Seq(TagRecords) /\ Len(t) = 3
  BY <1>5 DEF Data2Shape, TagRecords
<1>7. /\ t[1].at = 4 /\ t[1].id = 672 /\ t[1].length = 4
      /\ t[2].at = 12 /\ t[2].id = 16 /\ t[2].length = 38
      /\ t[3].at = 54 /\ t[3].id = 0 /\ t[3].length = 0
  BY <1>5 DEF Data2Shape
<1>8. PICK s1, s2, s3 : s1 = s0 \o TagBytes(672, g) /\ s2 = s1 \o TagBytes(16, p) /\ s3 = s2 \o TagBytes(0, e)
  BY ZenonT(60)
<1>9. PutTogether(s0, 4, t, 0)
  BY <1>1, <1>6, SignaturePut

<1>10. PutTogether(s1, 12, t, 1)
  <2>1. NextTagOf(s0, 4, t, 0, t[1], g)
    BY <1>2, <1>6, <1>7, <1>9, SmallNumbers DEF NextTagOf
  <2>2. s1 = s0 \o TagBytes(t[1].id, g)
    BY <1>7, <1>8
  <2>3. PutTogether(s1, 4 + 4 + Len(g), t, 0 + 1)
    BY <2>1, <2>2, TagPutOn
  <2> QED
    BY <1>2, <2>3
<1>11. /\ PutTogether(s2, 54, t, 2) /\ Holds(s2, 16, p)
  <2>1. NextTagOf(s1, 12, t, 1, t[2], p)
    BY <1>3, <1>6, <1>7, <1>10, SmallNumbers DEF NextTagOf
  <2>2. s2 = s1 \o TagBytes(t[2].id, p)
    BY <1>7, <1>8
  <2>3. PutTogether(s2, 12 + 4 + Len(p), t, 1 + 1)
    BY <2>1, <2>2, TagPutOn
  <2>4. Holds(s2, 12 + 4, p)
    BY <2>1, <2>2, TagPutOn
  <2> QED
    BY <1>3, <2>3, <2>4
<1>12. /\ PutTogether(s3, 58, t, 3) /\ Begins(s3, s2, 54)
  <2>1. NextTagOf(s2, 54, t, 2, t[3], e)
    BY <1>4, <1>6, <1>7, <1>11, SmallNumbers DEF NextTagOf
  <2>2. s3 = s2 \o TagBytes(t[3].id, e)
    BY <1>7, <1>8
  <2>3. PutTogether(s3, 54 + 4 + Len(e), t, 2 + 1)
    BY <2>1, <2>2, TagPutOn
  <2>4. Begins(s3, s2, 54)
    BY <2>1, <2>2, TagPutOn
  <2> QED
    BY <1>4, <2>3, <2>4
<1>13. s3 = unicast_request
  BY <1>1, <1>2, <1>3, <1>4, <1>8
     DEF unicast_request, GroupTag, EndTag, UnicastPayload, sma_tag_group_id, sma_tag_data2, sma_tag_endofdata
<1>14. \A i \in 1..38 : s3[16 + i] = p[i]
  <2>1. \A i \in 1..38 : 16 + i \in 1..54 /\ i \in 1..Len(p)
    BY <1>3
  <2>2. \A i \in 1..38 : s3[16 + i] = s2[16 + i]
    BY <1>12, <2>1 DEF Begins
  <2>3. \A i \in 1..38 : s2[16 + i] = p[i]
    BY <1>11, <2>1 DEF Holds
  <2> QED
    BY <2>2, <2>3
<1> QED
  BY <1>3, <1>5, <1>12, <1>13, <1>14

(* Two bytes read little endian.                                           *)
LEMMA LittleTwo ==
  ASSUME NEW b, NEW at \in Nat
  PROVE  getLittleEndian(b, at, 2) = <<b[at + 1], b[at]>>
<1>1. PICK v : v = ReadBytes(b, at, 2)
  OBVIOUS
<1>2. v = [i \in 1..2 |-> v[i]] /\ v[1] = b[at] /\ v[2] = b[at + 1]
  BY <1>1 DEF ReadBytes
<1>3. Len(v) = 2
  BY <1>2
<1>4. PICK u : u = Reverse(v)
  OBVIOUS
<1>5. u = [i \in 1..2 |-> u[i]] /\ u[1] = v[2] /\ u[2] = v[1]
  BY <1>3, <1>4 DEF Reverse
<1>6. PICK w : w = <<b[at + 1], b[at]>>
  OBVIOUS
<1>7. w = [i \in 1..2 |-> w[i]] /\ w[1] = b[at + 1] /\ w[2] = b[at]
  BY <1>6
<1>8. \A i \in 1..2 : u[i] = w[i]
  <2>1. \A i \in 1..2 : i = 1 \/ i = 2
    OBVIOUS
  <2> QED
    BY <1>2, <1>5, <1>7, <2>1
<1>9. u = w
  BY <1>5, <1>7, <1>8
<1> QED
  BY <1>1, <1>4, <1>6, <1>9 DEF getLittleEndian

(* Four bytes read little endian.                                          *)
LEMMA LittleFour ==
  ASSUME NEW b, NEW at \in Nat
  PROVE  getLittleEndian(b, at, 4) = <<b[at + 3], b[at + 2], b[at + 1], b[at]>>
<1>1. PICK v : v = ReadBytes(b, at, 4)
  OBVIOUS
<1>2. v = [i \in 1..4 |-> v[i]] /\ v[1] = b[at] /\ v[2] = b[at + 1] /\ v[3] = b[at + 2] /\ v[4] = b[at + 3]
  BY <1>1 DEF ReadBytes
<1>3. Len(v) = 4
  BY <1>2
<1>4. PICK u : u = Reverse(v)
  OBVIOUS
<1>5. u = [i \in 1..4 |-> u[i]] /\ u[1] = v[4] /\ u[2] = v[3] /\ u[3] = v[2] /\ u[4] = v[1]
  BY <1>3, <1>4 DEF Reverse
<1>6. PICK w : w = <<b[at + 3], b[at + 2], b[at + 1], b[at]>>
  OBVIOUS
<1>7. w = [i \in 1..4 |-> w[i]] /\ w[1] = b[at + 3] /\ w[2] = b[at + 2] /\ w[3] = b[at + 1] /\ w[4] = b[at]
  BY <1>6
<1>8. \A i \in 1..4 : u[i] = w[i]
  <2>1. \A i \in 1..4 : i = 1 \/ i = 2 \/ i = 3 \/ i = 4
    OBVIOUS
  <2> QED
    BY <1>2, <1>5, <1>7, <2>1
<1>9. u = w
  BY <1>5, <1>7, <1>8
<1> QED
  BY <1>1, <1>4, <1>6, <1>9 DEF getLittleEndian

(* The template of a unicast request in a memory area.                     *)
LEMMA TemplateWritten ==
  ASSUME NEW b \in Area(BufferSize), NEW w, w = WriteBytes(b, 0, unicast_request)
  PROVE  /\ w \in Area(BufferSize) /\ Headed(w, 38, sma_inverter_protocol_id) /\ w[18] = 9
         /\ w[20] = 255 /\ w[21] = 255 /\ w[42] = 0 /\ w[43] = 2 /\ w[44] = 0 /\ w[45] = 0
         /\ \A o \in 46..53 : w[o] = 0
         /\ Len(unicast_request) = 58
<1>1. PICK s : s = unicast_request
  OBVIOUS
<1>2. /\ s \in Seq(Byte) /\ Len(s) = 58 /\ SignedBytes(s)
      /\ Data2Shape(38) \in Seq(TagRecords) /\ HasTags(s, Data2Shape(38), 3)
  BY <1>1, UnicastRequestIs DEF PutTogether
<1>3. Len(Data2Shape(38)) = 3
  BY DEF Data2Shape
<1>4. BufferSize \in Nat /\ Len(s) <= BufferSize /\ Len(s) >= 4 /\ 0 \in Nat
  BY <1>2, BufferIs
<1>5. w = WriteBytes(b, 0, s)
  BY <1>1
<1>6. w \in Area(BufferSize)
  BY <1>2, <1>4, <1>5, WriteTyped
<1>7. Signed(w)
  BY <1>2, <1>4, <1>5, WrittenSignature
<1>8. Tagged(w, Data2Shape(38))
  <2>1. HasTags(s, Data2Shape(38), Len(Data2Shape(38)))
    BY <1>2, <1>3
  <2>2. Tagged(WriteBytes(b, 0, s), Data2Shape(38))
    BY <1>2, <1>4, <2>1, WrittenTags
  <2> QED
    BY <1>5, <2>2
<1>9. \A i \in 1..38 : w[15 + i] = UnicastPayload[i]
  <2>1. ASSUME NEW i \in 1..38 PROVE w[15 + i] = UnicastPayload[i]
    <3>1. PICK at \in Nat : at = 0
      OBVIOUS
    <3>2. PICK j \in 1..Len(s) : j = 16 + i /\ at + j <= BufferSize /\ (at + j) - 1 = 15 + i
      BY <1>2, <1>4, <3>1
    <3>3. PICK v \in Seq(Byte), k \in Nat : v = s /\ k = BufferSize
      BY <1>2, <1>4
    <3>4. b \in Area(k) /\ j \in 1..Len(v) /\ at + j <= k
      BY <3>2, <3>3
    <3>5. WriteBytes(b, at, v)[(at + j) - 1] = v[j]
      BY <3>4, WriteInside
    <3>6. WriteBytes(b, at, s)[(at + j) - 1] = s[j]
      BY <3>3, <3>5
    <3>7. s[16 + i] = UnicastPayload[i]
      BY <1>1, UnicastRequestIs
    <3> QED
      BY <1>5, <3>1, <3>2, <3>6, <3>7
  <2> QED
    BY <2>1
<1>10. PICK p : p = UnicastPayload
  OBVIOUS
<1>11. /\ p[1] = 96 /\ p[2] = 101 /\ p[3] = 9 /\ p[5] = 255 /\ p[6] = 255
       /\ p[27] = 0 /\ p[28] = 2 /\ p[29] = 0 /\ p[30] = 0 /\ \A i \in 1..8 : p[30 + i] = 0
  BY <1>10, UnicastPayloadIs DEF Beginning
<1>12. /\ w[15 + 1] = p[1] /\ w[15 + 2] = p[2] /\ w[15 + 3] = p[3] /\ w[15 + 5] = p[5] /\ w[15 + 6] = p[6]
       /\ w[15 + 27] = p[27] /\ w[15 + 28] = p[28] /\ w[15 + 29] = p[29] /\ w[15 + 30] = p[30]
       /\ \A i \in 1..8 : w[15 + (30 + i)] = p[30 + i]
  <2>1. \A i \in 1..8 : 30 + i \in 1..38
    OBVIOUS
  <2> QED
    BY <1>9, <1>10, <2>1
<1>13. /\ w[16] = 96 /\ w[17] = 101 /\ w[18] = 9 /\ w[20] = 255 /\ w[21] = 255
       /\ w[42] = 0 /\ w[43] = 2 /\ w[44] = 0 /\ w[45] = 0
  BY <1>11, <1>12
<1>14. \A o \in 46..53 : w[o] = 0
  <2>1. ASSUME NEW o \in 46..53 PROVE w[o] = 0
    <3>1. PICK i \in 1..8 : 15 + (30 + i) = o
      <4>1. o - 45 \in 1..8 /\ 15 + (30 + (o - 45)) = o
        OBVIOUS
      <4> QED
        BY <4>1
    <3>2. w[15 + (30 + i)] = 0
      BY <1>11, <1>12
    <3> QED
      BY <3>1, <3>2
  <2> QED
    BY <2>1
<1>15. w[16] * 256 + w[17] = sma_inverter_protocol_id
  BY <1>13 DEF sma_inverter_protocol_id
<1>16. Headed(w, 38, sma_inverter_protocol_id)
  BY <1>7, <1>8, <1>15 DEF Headed
<1> QED
  BY <1>1, <1>2, <1>6, <1>13, <1>14, <1>16

(* getUnicastRequest puts the local device and the packet id into the      *)
(* constant request, and leaves command and registers alone.               *)
LEMMA UnicastRequestSet ==
  ASSUME NEW b \in Area(BufferSize), NEW local \in [susyID : [1..2 -> Byte], serialNumber : FourBytes],
         NEW id \in [1..2 -> Byte], NEW r, r = getUnicastRequest(b, local, id),
         NEW fields,
         fields = [SrcSusyID |-> local.susyID, SrcSerialNumber |-> local.serialNumber, PacketID |-> id,
                   DstSusyID |-> <<255, 255>>, CommandID |-> <<0, 0, 2, 0>>]
  PROVE  /\ InverterPacket(r, 38, fields) /\ Len(unicast_request) = 58
         /\ getLittleEndian(r, 46, 4) = Zeros(4) /\ getLittleEndian(r, 50, 4) = Zeros(4)
<1>1. PICK w : w = WriteBytes(b, 0, unicast_request)
  OBVIOUS
<1>2. /\ w \in Area(BufferSize) /\ Headed(w, 38, sma_inverter_protocol_id) /\ w[18] = 9
      /\ w[20] = 255 /\ w[21] = 255 /\ w[42] = 0 /\ w[43] = 2 /\ w[44] = 0 /\ w[45] = 0
      /\ \A o \in 46..53 : w[o] = 0
      /\ Len(unicast_request) = 58
  BY <1>1, TemplateWritten
<1>3. BufferSize \in Nat /\ 78 <= BufferSize
  BY BufferIs
<1>4. Payload(Packet(w, Len(unicast_request))).at = 20
  <2>1. 38 \in Nat /\ 38 >= 4 /\ 20 + 38 <= BufferSize /\ 58 \in (20 + 38)..BufferSize
    BY <1>3
  <2>2. Payload(Packet(w, 58)).at = PayloadAt(sma_inverter_protocol_id)
    BY <1>2, <1>3, <2>1, Data2PayloadIs
  <2> QED
    BY <1>2, <2>2 DEF PayloadAt
<1>5. PICK values : values = [SrcSusyID |-> local.susyID, SrcSerialNumber |-> local.serialNumber, PacketID |-> id]
  OBVIOUS
<1>6. /\ DOMAIN values = {"SrcSusyID", "SrcSerialNumber", "PacketID"}
      /\ values["SrcSusyID"] = local.susyID /\ values["SrcSerialNumber"] = local.serialNumber
      /\ values["PacketID"] = id
  BY <1>5
<1>7. r = setFields(w, 20, values)
  BY <1>1, <1>4, <1>5 DEF getUnicastRequest
<1>8. /\ InverterField("SrcSusyID") = <<8, 2>> /\ InverterField("SrcSerialNumber") = <<10, 4>>
      /\ InverterField("PacketID") = <<20, 2>> /\ InverterField("DstSusyID") = <<0, 2>>
      /\ InverterField("CommandID") = <<22, 4>>
  BY DEF InverterField
<1>9. /\ DOMAIN values \subseteq InverterFields
      /\ \A f \in DOMAIN values : values[f] \in [1..InverterField(f)[2] -> Byte]
  <2>1. DOMAIN values \subseteq InverterFields
    BY <1>6 DEF InverterFields
  <2>2. /\ values["SrcSusyID"] \in [1..2 -> Byte] /\ values["SrcSerialNumber"] \in [1..4 -> Byte]
        /\ values["PacketID"] \in [1..2 -> Byte]
    BY <1>6 DEF FourBytes
  <2>3. /\ InverterField("SrcSusyID")[2] = 2 /\ InverterField("SrcSerialNumber")[2] = 4
        /\ InverterField("PacketID")[2] = 2
    BY <1>8
  <2> QED
    BY <1>6, <2>1, <2>2, <2>3
<1>10. 20 \in Nat /\ 20 + 34 <= BufferSize
  BY <1>3
<1>11. /\ r \in Area(BufferSize)
       /\ \A f \in DOMAIN values :
              getLittleEndian(r, 20 + InverterField(f)[1], InverterField(f)[2]) = values[f]
       /\ \A o \in 0..(BufferSize - 1) : (\A f \in DOMAIN values : ~Covers(InverterField(f), o - 20)) => r[o] = w[o]
  <2>1. PICK n \in Nat, at \in Nat : n = BufferSize /\ at = 20 /\ at + 34 <= n
    BY <1>3, <1>10
  <2>2. /\ w \in Area(n) /\ r = setFields(w, at, values) /\ DOMAIN values \subseteq InverterFields
        /\ \A f \in DOMAIN values : values[f] \in [1..InverterField(f)[2] -> Byte]
    BY <1>2, <1>7, <1>9, <2>1
  <2>3. /\ r \in Area(n)
        /\ \A f \in DOMAIN values :
              getLittleEndian(r, at + InverterField(f)[1], InverterField(f)[2]) = values[f]
        /\ \A o \in 0..(n - 1) : (\A f \in DOMAIN values : ~Covers(InverterField(f), o - at)) => r[o] = w[o]
    BY <2>1, <2>2, InverterFieldsSet
  <2> QED
    BY <2>1, <2>3
<1>12. ASSUME NEW o \in 0..(BufferSize - 1), o < 28 \/ o >= 42
       PROVE  r[o] = w[o]
  <2>1. ~(o - 20 \in 8..((8 + 2) - 1)) /\ ~(o - 20 \in 10..((10 + 4) - 1)) /\ ~(o - 20 \in 20..((20 + 2) - 1))
    BY <1>12
  <2>2. \A f \in DOMAIN values : ~Covers(InverterField(f), o - 20)
    BY <1>6, <1>8, <2>1 DEF Covers
  <2> QED
    BY <1>11, <2>2
<1>13. r[18] = 9 /\ r[20] = 255 /\ r[21] = 255 /\ r[42] = 0 /\ r[43] = 2 /\ r[44] = 0 /\ r[45] = 0
  <2>1. /\ 18 \in 0..(BufferSize - 1) /\ 20 \in 0..(BufferSize - 1) /\ 21 \in 0..(BufferSize - 1)
        /\ 42 \in 0..(BufferSize - 1) /\ 43 \in 0..(BufferSize - 1) /\ 44 \in 0..(BufferSize - 1)
        /\ 45 \in 0..(BufferSize - 1)
    BY <1>3
  <2> QED
    BY <1>2, <1>12, <2>1
<1>14. \A o \in 46..53 : r[o] = 0
  <2>1. \A o \in 46..53 : o \in 0..(BufferSize - 1) /\ o >= 42
    BY <1>3
  <2> QED
    BY <1>2, <1>12, <2>1
<1>15. Headed(r, 38, sma_inverter_protocol_id)
  <2>1. \A o \in 0..17 : o \in 0..(BufferSize - 1) /\ o < 28
    BY <1>3
  <2>2. \A o \in (16 + 38)..(19 + 38) : o \in 0..(BufferSize - 1) /\ o >= 42
    BY <1>3
  <2>3. (\A o \in 0..17 : r[o] = w[o]) /\ (\A o \in (16 + 38)..(19 + 38) : r[o] = w[o])
    BY <1>12, <2>1, <2>2
  <2> QED
    BY <1>2, <2>3, HeadedStays
<1>16. Carries(r, 20, fields)
  <2>1. DOMAIN fields = {"SrcSusyID", "SrcSerialNumber", "PacketID", "DstSusyID", "CommandID"}
    OBVIOUS
  <2>2. getLittleEndian(r, 20 + 8, 2) = fields["SrcSusyID"]
    BY <1>6, <1>8, <1>11
  <2>3. getLittleEndian(r, 20 + 10, 4) = fields["SrcSerialNumber"]
    BY <1>6, <1>8, <1>11
  <2>4. getLittleEndian(r, 20 + 20, 2) = fields["PacketID"]
    BY <1>6, <1>8, <1>11
  <2>5. getLittleEndian(r, 20 + 0, 2) = fields["DstSusyID"]
    <3>1. getLittleEndian(r, 20, 2) = <<r[20 + 1], r[20]>>
      BY LittleTwo
    <3> QED
      BY <1>13, <3>1
  <2>6. getLittleEndian(r, 20 + 22, 4) = fields["CommandID"]
    <3>1. getLittleEndian(r, 42, 4) = <<r[42 + 3], r[42 + 2], r[42 + 1], r[42]>>
      BY LittleFour
    <3> QED
      BY <1>13, <3>1
  <2> QED
    BY <1>8, <2>1, <2>2, <2>3, <2>4, <2>5, <2>6 DEF Carries
<1>17. getLittleEndian(r, 46, 4) = Zeros(4) /\ getLittleEndian(r, 50, 4) = Zeros(4)
  <2>1. r[46] = 0 /\ r[46 + 1] = 0 /\ r[46 + 2] = 0 /\ r[46 + 3] = 0
    BY <1>14
  <2>2. r[50] = 0 /\ r[50 + 1] = 0 /\ r[50 + 2] = 0 /\ r[50 + 3] = 0
    BY <1>14
  <2> QED
    BY <2>1, <2>2, ZeroBytes
<1>18. r[18] = (38 \div 4) % 256
  BY <1>13
<1> QED
  BY <1>2, <1>11, <1>15, <1>16, <1>17, <1>18 DEF InverterPacket

EmeterFields == {"SusyID", "SerialNumber", "Time"}

(* The fields of the emeter header lie apart, within 10 bytes.             *)
LEMMA EmeterPlaces ==
  /\ \A f \in EmeterFields : /\ EmeterField(f)[1] \in Nat /\ EmeterField(f)[2] \in {2, 4}
                          /\ EmeterField(f)[1] + EmeterField(f)[2] <= 10
  /\ Apart(EmeterFields, [f \in EmeterFields |-> EmeterField(f)[1]], [f \in EmeterFields |-> EmeterField(f)[2]])
<1>1. /\ EmeterField("SusyID") = <<0, 2>>
      /\ EmeterField("SerialNumber") = <<2, 4>>
      /\ EmeterField("Time") = <<6, 4>>
  BY DEF EmeterField
<1> DEFINE P == [f \in EmeterFields |-> EmeterField(f)]
<1>2. \A f \in EmeterFields : P[f] \in {<<0, 2>>, <<2, 4>>, <<6, 4>>}
  BY <1>1 DEF EmeterFields
<1>3. \A f \in EmeterFields : P[f] = EmeterField(f)
  OBVIOUS
<1>4. \A f, g \in EmeterFields : P[f][1] = P[g][1] => f = g
  BY <1>1 DEF EmeterFields
<1> HIDE DEF P
<1>5. \A f \in EmeterFields : /\ P[f][1] \in Nat /\ P[f][2] \in {2, 4} /\ P[f][1] + P[f][2] <= 10
  BY <1>2
<1>6. ASSUME NEW f \in EmeterFields, NEW g \in EmeterFields, P[f][1] < P[g][1]
      PROVE  P[f][1] + P[f][2] <= P[g][1]
  BY <1>2, <1>6
<1>7. \A f, g \in EmeterFields : f = g \/ P[f][1] + P[f][2] <= P[g][1] \/ P[g][1] + P[g][2] <= P[f][1]
  BY <1>4, <1>5, <1>6
<1>8. Apart(EmeterFields, [f \in EmeterFields |-> EmeterField(f)[1]], [f \in EmeterFields |-> EmeterField(f)[2]])
  BY <1>3, <1>7 DEF Apart
<1> QED
  BY <1>3, <1>5, <1>8

(* Each field of the emeter header is read back as it was set.             *)
LEMMA EmeterFieldsSet ==
  ASSUME NEW n \in Nat, NEW b \in Area(n), NEW at \in Nat, at + 10 <= n, NEW values,
         DOMAIN values = EmeterFields,
         \A f \in DOMAIN values : values[f] \in [1..EmeterField(f)[2] -> Byte],
         NEW r, r = setEmeterFields(b, at, values)
  PROVE  /\ r \in Area(n)
         /\ \A f \in DOMAIN values : getBigEndian(r, at + EmeterField(f)[1], EmeterField(f)[2]) = values[f]
         /\ \A o \in 0..(n - 1) : (o < at \/ o >= at + 10) => r[o] = b[o]
<1> DEFINE D == DOMAIN values
           off == [f \in D |-> EmeterField(f)[1]]
           width == [f \in D |-> EmeterField(f)[2]]
           bytes == [f \in D |-> values[f]]
<1>1. \A f \in D : /\ EmeterField(f)[1] \in Nat /\ EmeterField(f)[2] \in Nat
                   /\ EmeterField(f)[1] + EmeterField(f)[2] <= 10
  BY EmeterPlaces
<1>2. \A f \in D : off[f] = EmeterField(f)[1] /\ width[f] = EmeterField(f)[2]
                   /\ bytes[f] = (values[f])
                   /\ values[f] \in [1..width[f] -> Byte]
  OBVIOUS
<1>3. off \in [D -> Nat] /\ width \in [D -> Nat] /\ DOMAIN bytes = D /\ bytes = [f \in D |-> bytes[f]]
  BY <1>1
<1>4. Apart(D, off, width)
  BY EmeterPlaces DEF Apart
<1>5. r = [o \in DOMAIN b |->
              IF \E f \in D : Covers(EmeterField(f), o - at)
              THEN setEmeterField(b, at, CHOOSE f \in D : Covers(EmeterField(f), o - at),
                            values[CHOOSE f \in D : Covers(EmeterField(f), o - at)])[o]
              ELSE b[o]]
  BY DEF setEmeterFields
<1>6. DOMAIN b = 0..(n - 1)
  BY DEF Area
<1>7. r = [o \in 0..(n - 1) |-> r[o]]
  BY <1>5, <1>6
<1> HIDE DEF off, width, bytes
<1>8. ASSUME NEW o \in Int, NEW f \in D
      PROVE  Covers(EmeterField(f), o) <=> In(o, off[f], width[f])
  BY <1>1, <1>2, CoversIs
<1>9. ASSUME NEW o \in 0..(n - 1)
      PROVE  \/ \E f \in D : /\ In(o - at, off[f], width[f])
                             /\ r[o] = WriteBytes(b, at + off[f], bytes[f])[o]
             \/ (\A f \in D : ~In(o - at, off[f], width[f])) /\ r[o] = b[o]
  <2>0. o - at \in Int
    OBVIOUS
  <2>1. CASE \E f \in D : Covers(EmeterField(f), o - at)
    <3>1. PICK f \in D : f = CHOOSE g \in D : Covers(EmeterField(g), o - at)
      BY <2>1
    <3>2. Covers(EmeterField(f), o - at)
      BY <2>1, <3>1
    <3>3. r[o] = setEmeterField(b, at, f, values[f])[o]
      BY <1>5, <1>6, <2>1, <3>1
    <3>4. r[o] = WriteBytes(b, at + off[f], bytes[f])[o]
      BY <1>2, <3>3 DEF setEmeterField, setBigEndian
    <3>5. In(o - at, off[f], width[f])
      BY <1>8, <2>0, <3>2
    <3> QED
      BY <3>4, <3>5
  <2>2. CASE ~\E f \in D : Covers(EmeterField(f), o - at)
    <3>1. r[o] = b[o]
      BY <1>5, <1>6, <2>2
    <3>2. \A f \in D : ~In(o - at, off[f], width[f])
      BY <1>8, <2>0, <2>2
    <3> QED
      BY <3>1, <3>2
  <2> QED
    BY <2>1, <2>2
<1> HIDE DEF D
<1>10. ASSUME NEW f \in D PROVE bytes[f] \in Seq(Byte) /\ Len(bytes[f]) = width[f]
  <2>1. PICK w \in Nat : w = width[f]
    BY <1>3
  <2>2. PICK v \in [1..w -> Byte] : v = values[f] /\ bytes[f] = v
    BY <1>2, <2>1
  <2>3. v \in Seq(Byte) /\ Len(v) = w
    BY BytesOf
  <2> QED
    BY <2>1, <2>2, <2>3
<1>11. bytes \in [D -> Seq(Byte)]
  BY <1>3, <1>10
<1>12. \A f \in D : at + off[f] + width[f] <= n /\ Len(bytes[f]) = width[f]
  BY <1>1, <1>2, <1>10
<1>17. SetBytes(n, r, b, at, D, off, width, bytes)
  BY <1>7, <1>9, <1>12 DEF SetBytes
<1>13. /\ r \in Area(n)
       /\ \A f \in D : \A i \in 1..width[f] : r[((at + off[f]) + i) - 1] = bytes[f][i]
       /\ \A o \in 0..(n - 1) : (\A f \in D : ~In(o - at, off[f], width[f])) => r[o] = b[o]
  <2>1. SideBySide(n, r, b, at, D, off, width, bytes)
    BY <1>3, <1>4, <1>11, <1>17, FieldsSet
  <2> QED
    BY <2>1 DEF SideBySide
<1>14. ASSUME NEW f \in D
       PROVE  getBigEndian(r, at + EmeterField(f)[1], EmeterField(f)[2]) = values[f]
  <2>1. PICK w \in Nat, a \in Nat : w = width[f] /\ a = at + off[f]
    BY <1>3
  <2>2. PICK v \in [1..w -> Byte] : v = values[f] /\ bytes[f] = v
    BY <1>2, <2>1
  <2>3. \A i \in 1..w : r[(a + i) - 1] = v[i]
    BY <1>13, <2>1, <2>2
  <2>4. getBigEndian(r, a, w) = v
    BY <2>3 DEF ReadBytes, getBigEndian
  <2> QED
    BY <1>2, <2>1, <2>2, <2>4
<1>16. \A o \in 0..(n - 1) : (o < at \/ o >= at + 10) => r[o] = b[o]
  <2>1. ASSUME NEW o \in 0..(n - 1), o < at \/ o >= at + 10, NEW f \in D
        PROVE  ~In(o - at, off[f], width[f])
    BY <1>1, <1>2, <2>1 DEF In
  <2> QED
    BY <1>13, <2>1
<1> QED
  BY <1>13, <1>14, <1>16 DEF D

EncryptionFields == {"PacketType", "SrcSusyID", "SrcSerialNumber", "DstSusyID", "DstSerialNumber"}

(* The fields of the encryption header lie apart, within 13 bytes.         *)
LEMMA EncryptionPlaces ==
  /\ \A f \in EncryptionFields : /\ EncryptionField(f)[1] \in Nat /\ EncryptionField(f)[2] \in {1, 2, 4}
                          /\ EncryptionField(f)[1] + EncryptionField(f)[2] <= 13
  /\ Apart(EncryptionFields, [f \in EncryptionFields |-> EncryptionField(f)[1]], [f \in EncryptionFields |-> EncryptionField(f)[2]])
<1>1. /\ EncryptionField("PacketType") = <<0, 1>>
      /\ EncryptionField("SrcSusyID") = <<1, 2>>
      /\ EncryptionField("SrcSerialNumber") = <<3, 4>>
      /\ EncryptionField("DstSusyID") = <<7, 2>>
      /\ EncryptionField("DstSerialNumber") = <<9, 4>>
  BY DEF EncryptionField
<1> DEFINE P == [f \in EncryptionFields |-> EncryptionField(f)]
<1>2. \A f \in EncryptionFields : P[f] \in {<<0, 1>>, <<1, 2>>, <<3, 4>>, <<7, 2>>, <<9, 4>>}
  BY <1>1 DEF EncryptionFields
<1>3. \A f \in EncryptionFields : P[f] = EncryptionField(f)
  OBVIOUS
<1>4. \A f, g \in EncryptionFields : P[f][1] = P[g][1] => f = g
  BY <1>1 DEF EncryptionFields
<1> HIDE DEF P
<1>5. \A f \in EncryptionFields : /\ P[f][1] \in Nat /\ P[f][2] \in {1, 2, 4} /\ P[f][1] + P[f][2] <= 13
  BY <1>2
<1>6. ASSUME NEW f \in EncryptionFields, NEW g \in EncryptionFields, P[f][1] < P[g][1]
      PROVE  P[f][1] + P[f][2] <= P[g][1]
  BY <1>2, <1>6
<1>7. \A f, g \in EncryptionFields : f = g \/ P[f][1] + P[f][2] <= P[g][1] \/ P[g][1] + P[g][2] <= P[f][1]
  BY <1>4, <1>5, <1>6
<1>8. Apart(EncryptionFields, [f \in EncryptionFields |-> EncryptionField(f)[1]], [f \in EncryptionFields |-> EncryptionField(f)[2]])
  BY <1>3, <1>7 DEF Apart
<1> QED
  BY <1>3, <1>5, <1>8

(* Each field of the encryption header is read back as it was set, but for *)
(* SrcSerialNumber, which is read in the other byte order.                 *)
LEMMA EncryptionFieldsSet ==
  ASSUME NEW n \in Nat, NEW b \in Area(n), NEW at \in Nat, at + 13 <= n, NEW values,
         DOMAIN values = EncryptionFields,
         \A f \in DOMAIN values : values[f] \in [1..EncryptionField(f)[2] -> Byte],
         NEW r, r = setEncryptionFields(b, at, values)
  PROVE  /\ r \in Area(n)
         /\ \A f \in DOMAIN values : f # "SrcSerialNumber" =>
                getBigEndian(r, at + EncryptionField(f)[1], EncryptionField(f)[2]) = values[f]
         /\ \A o \in 0..(n - 1) : (o < at \/ o >= at + 13) => r[o] = b[o]
<1> DEFINE D == DOMAIN values
           off == [f \in D |-> EncryptionField(f)[1]]
           width == [f \in D |-> EncryptionField(f)[2]]
           bytes == [f \in D |-> IF f = "SrcSerialNumber" THEN Reverse(values[f]) ELSE values[f]]
<1>1. \A f \in D : /\ EncryptionField(f)[1] \in Nat /\ EncryptionField(f)[2] \in Nat
                   /\ EncryptionField(f)[1] + EncryptionField(f)[2] <= 13
  BY EncryptionPlaces
<1>2. \A f \in D : off[f] = EncryptionField(f)[1] /\ width[f] = EncryptionField(f)[2]
                   /\ bytes[f] = (IF f = "SrcSerialNumber" THEN Reverse(values[f]) ELSE values[f])
                   /\ values[f] \in [1..width[f] -> Byte]
  OBVIOUS
<1>3. off \in [D -> Nat] /\ width \in [D -> Nat] /\ DOMAIN bytes = D /\ bytes = [f \in D |-> bytes[f]]
  BY <1>1
<1>4. Apart(D, off, width)
  BY EncryptionPlaces DEF Apart
<1>5. r = [o \in DOMAIN b |->
              IF \E f \in D : Covers(EncryptionField(f), o - at)
              THEN setEncryptionField(b, at, CHOOSE f \in D : Covers(EncryptionField(f), o - at),
                            values[CHOOSE f \in D : Covers(EncryptionField(f), o - at)])[o]
              ELSE b[o]]
  BY DEF setEncryptionFields
<1>6. DOMAIN b = 0..(n - 1)
  BY DEF Area
<1>7. r = [o \in 0..(n - 1) |-> r[o]]
  BY <1>5, <1>6
<1> HIDE DEF off, width, bytes
<1>8. ASSUME NEW o \in Int, NEW f \in D
      PROVE  Covers(EncryptionField(f), o) <=> In(o, off[f], width[f])
  BY <1>1, <1>2, CoversIs
<1>9. ASSUME NEW o \in 0..(n - 1)
      PROVE  \/ \E f \in D : /\ In(o - at, off[f], width[f])
                             /\ r[o] = WriteBytes(b, at + off[f], bytes[f])[o]
             \/ (\A f \in D : ~In(o - at, off[f], width[f])) /\ r[o] = b[o]
  <2>0. o - at \in Int
    OBVIOUS
  <2>1. CASE \E f \in D : Covers(EncryptionField(f), o - at)
    <3>1. PICK f \in D : f = CHOOSE g \in D : Covers(EncryptionField(g), o - at)
      BY <2>1
    <3>2. Covers(EncryptionField(f), o - at)
      BY <2>1, <3>1
    <3>3. r[o] = setEncryptionField(b, at, f, values[f])[o]
      BY <1>5, <1>6, <2>1, <3>1
    <3>4. r[o] = WriteBytes(b, at + off[f], bytes[f])[o]
      BY <1>2, <3>3 DEF setEncryptionField, setBigEndian, setLittleEndian
    <3>5. In(o - at, off[f], width[f])
      BY <1>8, <2>0, <3>2
    <3> QED
      BY <3>4, <3>5
  <2>2. CASE ~\E f \in D : Covers(EncryptionField(f), o - at)
    <3>1. r[o] = b[o]
      BY <1>5, <1>6, <2>2
    <3>2. \A f \in D : ~In(o - at, off[f], width[f])
      BY <1>8, <2>0, <2>2
    <3> QED
      BY <3>1, <3>2
  <2> QED
    BY <2>1, <2>2
<1> HIDE DEF D
<1>10. ASSUME NEW f \in D PROVE bytes[f] \in Seq(Byte) /\ Len(bytes[f]) = width[f]
  <2>1. PICK w \in Nat : w = width[f]
    BY <1>3
  <2>2. PICK v \in [1..w -> Byte] : v = values[f] /\ (bytes[f] = v \/ bytes[f] = Reverse(v))
    BY <1>2, <2>1
  <2>3. v \in Seq(Byte) /\ Len(v) = w
    BY BytesOf
  <2>4. Reverse(v) \in Seq(Byte) /\ Len(Reverse(v)) = w
    BY <2>3, ReverseOf
  <2> QED
    BY <2>1, <2>2, <2>3, <2>4
<1>11. bytes \in [D -> Seq(Byte)]
  BY <1>3, <1>10
<1>12. \A f \in D : at + off[f] + width[f] <= n /\ Len(bytes[f]) = width[f]
  BY <1>1, <1>2, <1>10
<1>17. SetBytes(n, r, b, at, D, off, width, bytes)
  BY <1>7, <1>9, <1>12 DEF SetBytes
<1>13. /\ r \in Area(n)
       /\ \A f \in D : \A i \in 1..width[f] : r[((at + off[f]) + i) - 1] = bytes[f][i]
       /\ \A o \in 0..(n - 1) : (\A f \in D : ~In(o - at, off[f], width[f])) => r[o] = b[o]
  <2>1. SideBySide(n, r, b, at, D, off, width, bytes)
    BY <1>3, <1>4, <1>11, <1>17, FieldsSet
  <2> QED
    BY <2>1 DEF SideBySide
<1>14. ASSUME NEW f \in D, f # "SrcSerialNumber"
       PROVE  getBigEndian(r, at + EncryptionField(f)[1], EncryptionField(f)[2]) = values[f]
  <2>1. PICK w \in Nat, a \in Nat : w = width[f] /\ a = at + off[f]
    BY <1>3
  <2>2. PICK v \in [1..w -> Byte] : v = values[f] /\ bytes[f] = v
    BY <1>14, <1>2, <2>1
  <2>3. \A i \in 1..w : r[(a + i) - 1] = v[i]
    BY <1>13, <2>1, <2>2
  <2>4. getBigEndian(r, a, w) = v
    BY <2>3 DEF ReadBytes, getBigEndian
  <2> QED
    BY <1>2, <2>1, <2>2, <2>4
<1>16. \A o \in 0..(n - 1) : (o < at \/ o >= at + 13) => r[o] = b[o]
  <2>1. ASSUME NEW o \in 0..(n - 1), o < at \/ o >= at + 13, NEW f \in D
        PROVE  ~In(o - at, off[f], width[f])
    BY <1>1, <1>2, <2>1 DEF In
  <2> QED
    BY <1>13, <2>1
<1> QED
  BY <1>13, <1>14, <1>16 DEF D

-----------------------------------------------------------------------------
(* Encryption packets                                                      *)

EncryptionPacket(b, fields, seed) ==
    /\ b \in Area(BufferSize) /\ Headed(b, 31, sma_encryption_protocol_id)
    /\ \A f \in DOMAIN fields : f # "SrcSerialNumber" =>
           getBigEndian(b, 18 + EncryptionField(f)[1], EncryptionField(f)[2]) = fields[f]
    /\ \A i \in 1..16 : b[30 + i] = IF i <= Len(seed) THEN seed[i] ELSE 0

HeadSame(b, c, l) ==
    (\A o \in 0..17 : c[o] = b[o]) /\ (\A o \in (16 + l)..(19 + l) : c[o] = b[o])

(* A header stays while its bytes do.                                      *)
LEMMA HeadedSame ==
  ASSUME NEW b, NEW c, NEW l \in Nat, NEW protocol, Headed(b, l, protocol), HeadSame(b, c, l)
  PROVE  Headed(c, l, protocol)
  BY HeadedStays DEF HeadSame

(* Equal bytes are read equally, big endian too.                           *)
LEMMA ReadBigStays ==
  ASSUME NEW b, NEW c, NEW at \in Nat, NEW w \in Nat, SameBytes(b, c, at, w)
  PROVE  getBigEndian(c, at, w) = getBigEndian(b, at, w)
  BY ReadStays DEF getBigEndian

(* The header of a packet takes 20 bytes, the end of data included.        *)
LEMMA TotalLength == \A l \in Nat : getDefaultHeaderTotalLength(l) = 20 + l
  BY DEF getDefaultHeaderTotalLength, TAG_HEADER_LENGTH

EncryptionFieldValues(fields) ==
    /\ DOMAIN fields = EncryptionFields
    /\ \A f \in DOMAIN fields : fields[f] \in [1..EncryptionField(f)[2] -> Byte]

(* What the sender of an encryption packet leaves in memory.               *)
LEMMA EncryptionSet ==
  ASSUME NEW fields, EncryptionFieldValues(fields),
         NEW seed \in Seq(Byte), NEW length, length = 51,
         NEW head, head = setDefaultHeader(Packet(NoBytes, length), Group1, 31, sma_encryption_protocol_id),
         NEW b, b = setString16(setEncryptionFields(head, Payload(Packet(head, length)).at, fields),
                                Payload(Packet(head, length)).at, 0, seed)
  PROVE  EncryptionPacket(b, fields, seed)
<1>1. BufferSize \in Nat /\ 78 <= BufferSize
  BY BufferIs
<1>2. head \in Area(BufferSize) /\ Headed(head, 31, sma_encryption_protocol_id)
  <2>1. 31 \in Nat /\ 31 >= 4 /\ 20 + 31 <= BufferSize /\ sma_encryption_protocol_id \in Protocols
    BY <1>1 DEF Protocols
  <2>2. 31 <= UINT16_MAX
    <3>1. 31 \in 0..38
      OBVIOUS
    <3> QED
      BY <3>1, SmallNumbers
  <2>3. head = setDefaultHeader(Packet(NoBytes, 20 + 31), Group1, 31, sma_encryption_protocol_id)
    OBVIOUS
  <2> QED
    BY <1>1, <2>1, <2>2, <2>3, NoBytesTyped, HeaderIs
<1>3. Payload(Packet(head, length)).at = 18
  <2>1. 31 \in Nat /\ 31 >= 4 /\ 20 + 31 <= BufferSize /\ 51 \in (20 + 31)..BufferSize
    BY <1>1
  <2>2. Payload(Packet(head, 51)).at = PayloadAt(sma_encryption_protocol_id)
    BY <1>1, <1>2, <2>1, Data2PayloadIs
  <2>3. sma_encryption_protocol_id # sma_extended_emeter_protocol_id
        /\ sma_encryption_protocol_id # sma_inverter_protocol_id
    BY DEF sma_encryption_protocol_id, sma_extended_emeter_protocol_id, sma_inverter_protocol_id
  <2> QED
    BY <2>2, <2>3 DEF PayloadAt
<1>4. PICK r : r = setEncryptionFields(head, 18, fields)
  OBVIOUS
<1>5. /\ r \in Area(BufferSize)
      /\ \A f \in DOMAIN fields : f # "SrcSerialNumber" =>
             getBigEndian(r, 18 + EncryptionField(f)[1], EncryptionField(f)[2]) = fields[f]
      /\ \A o \in 0..(BufferSize - 1) : (o < 18 \/ o >= 18 + 13) => r[o] = head[o]
  <2>1. 18 \in Nat /\ 18 + 13 <= BufferSize
    BY <1>1
  <2> QED
    BY <1>1, <1>2, <1>4, <2>1, EncryptionFieldsSet DEF EncryptionFieldValues
<1>6. PICK s \in Seq(Byte) : s = [i \in 1..16 |-> IF i <= Len(seed) THEN seed[i] ELSE 0] /\ Len(s) = 16
  <2>1. PICK k \in Nat : k = 16
    OBVIOUS
  <2>2. ASSUME NEW i \in 1..16 PROVE (IF i <= Len(seed) THEN seed[i] ELSE 0) \in Byte
    <3>1. CASE i <= Len(seed)
      <4>1. i \in 1..Len(seed)
        BY <3>1
      <4> QED
        BY <3>1, <4>1
    <3>2. CASE ~(i <= Len(seed))
      BY <3>2 DEF Byte
    <3> QED
      BY <3>1, <3>2
  <2>3. PICK v : v = [i \in 1..16 |-> IF i <= Len(seed) THEN seed[i] ELSE 0]
    OBVIOUS
  <2>4. v \in [1..k -> Byte]
    BY <2>1, <2>2, <2>3
  <2>5. v \in Seq(Byte) /\ Len(v) = k
    BY <2>4, BytesOf
  <2> QED
    BY <2>1, <2>3, <2>5
<1>7. \A i \in 1..16 : s[i] = IF i <= Len(seed) THEN seed[i] ELSE 0
  BY <1>6
<1>8. b = WriteBytes(r, 31, s)
  BY <1>3, <1>4, <1>6 DEF setString16, sma_encryption_data_offset
<1>9. b \in Area(BufferSize)
  <2>1. 31 \in Nat
    OBVIOUS
  <2> QED
    BY <1>1, <1>5, <1>8, <2>1, WriteTyped
<1>10. ASSUME NEW o \in 0..(BufferSize - 1), o < 31 \/ o >= 31 + 16
       PROVE  b[o] = r[o]
  <2>1. 31 \in Nat /\ (o < 31 \/ o >= 31 + Len(s))
    BY <1>6, <1>10
  <2> QED
    BY <1>1, <1>5, <1>8, <2>1, WriteOutside
<1>11. Headed(b, 31, sma_encryption_protocol_id)
  <2>1. \A o \in 0..17 : o \in 0..(BufferSize - 1) /\ o < 18 /\ o < 31
    BY <1>1
  <2>2. \A o \in (16 + 31)..(19 + 31) : o \in 0..(BufferSize - 1) /\ o >= 18 + 13 /\ o >= 31 + 16
    BY <1>1
  <2>3. PICK l \in Nat : l = 31
    OBVIOUS
  <2>4. HeadSame(head, b, l)
    BY SMTT(30), <1>5, <1>10, <2>1, <2>2, <2>3 DEF HeadSame
  <2>5. Headed(head, l, sma_encryption_protocol_id)
    BY <1>2, <2>3
  <2>6. Headed(b, l, sma_encryption_protocol_id)
    BY <2>4, <2>5, HeadedSame
  <2> QED
    BY <2>3, <2>6
<1>12. ASSUME NEW f \in DOMAIN fields, f # "SrcSerialNumber"
       PROVE  getBigEndian(b, 18 + EncryptionField(f)[1], EncryptionField(f)[2]) = fields[f]
  <2>1. PICK at \in Nat, w \in Nat : at = 18 + EncryptionField(f)[1] /\ w = EncryptionField(f)[2] /\ at + w <= 31
    BY SMTT(30), EncryptionPlaces DEF EncryptionFieldValues
  <2>2. \A o \in at..((at + w) - 1) : o \in 0..(BufferSize - 1) /\ o < 31
    BY <1>1, <2>1
  <2>3. SameBytes(r, b, at, w)
    BY <1>10, <2>2 DEF SameBytes
  <2>4. getBigEndian(b, at, w) = getBigEndian(r, at, w)
    BY <2>3, ReadBigStays
  <2> QED
    BY <1>5, <1>12, <2>1, <2>4
<1>13. \A i \in 1..16 : b[30 + i] = IF i <= Len(seed) THEN seed[i] ELSE 0
  <2>1. ASSUME NEW i \in 1..16 PROVE b[30 + i] = s[i]
    <3>1. 31 \in Nat /\ i \in 1..Len(s) /\ 31 + i <= BufferSize /\ (31 + i) - 1 = 30 + i
      BY SMTT(30), <1>1, <1>6
    <3>2. b[(31 + i) - 1] = s[i]
      BY SMTT(30), <1>1, <1>5, <1>8, <3>1, WriteInside
    <3> QED
      BY <3>1, <3>2
  <2>2. ASSUME NEW i \in 1..16 PROVE b[30 + i] = IF i <= Len(seed) THEN seed[i] ELSE 0
    <3>1. b[30 + i] = s[i]
      BY <2>1
    <3>2. s[i] = IF i <= Len(seed) THEN seed[i] ELSE 0
      BY <1>7
    <3> QED
      BY <3>1, <3>2
  <2> QED
    BY <2>2
<1> QED
  BY <1>9, <1>11, <1>12, <1>13 DEF EncryptionPacket

-----------------------------------------------------------------------------
(* Emeter packets                                                          *)

MeterProtocols == {sma_emeter_protocol_id, sma_extended_emeter_protocol_id}

MeterPacket(b, l, protocol, fields) ==
    /\ b \in Area(BufferSize) /\ Headed(b, l, protocol)
    /\ \A f \in DOMAIN fields :
           getBigEndian(b, PayloadAt(protocol) + EmeterField(f)[1], EmeterField(f)[2]) = fields[f]

EmeterFieldValues(fields) ==
    /\ DOMAIN fields = EmeterFields
    /\ \A f \in DOMAIN fields : fields[f] \in [1..EmeterField(f)[2] -> Byte]

(* The payloads of both meter protocols lie behind each protocol's header. *)
LEMMA MeterAt ==
  /\ PayloadAt(sma_emeter_protocol_id) = 18 /\ PayloadAt(sma_extended_emeter_protocol_id) = 20
  /\ sma_emeter_protocol_id # sma_extended_emeter_protocol_id
  /\ MeterProtocols \subseteq Protocols
  BY DEF PayloadAt, sma_emeter_protocol_id, sma_extended_emeter_protocol_id, sma_inverter_protocol_id,
         MeterProtocols, Protocols

(* What the sender of an emeter packet leaves in memory before its first   *)
(* element.                                                                *)
LEMMA MeterBegun ==
  ASSUME NEW protocol \in MeterProtocols, NEW l \in Nat, l >= (PayloadAt(protocol) - 16) + 10,
         20 + l <= BufferSize, NEW length, length = 20 + l,
         NEW fields, EmeterFieldValues(fields),
         NEW head, head = setDefaultHeader(Packet(NoBytes, length), Group1, l, protocol),
         NEW b, b = setEmeterFields(head, Payload(Packet(head, length)).at, fields)
  PROVE  /\ MeterPacket(b, l, protocol, fields)
         /\ \A o \in (PayloadAt(protocol) + 10)..(15 + l) : b[o] = 0
         /\ getFirstObisElement(Payload(Packet(head, length))) = PayloadAt(protocol) + 10
<1>1. BufferSize \in Nat /\ 78 <= BufferSize /\ l <= UINT16_MAX
  BY BufferIs DEF UINT16_MAX
<1>2. PICK at \in Nat : at = PayloadAt(protocol) /\ (at = 18 \/ at = 20) /\ l >= (at - 16) + 10
                        /\ (at = 18 <=> protocol = sma_emeter_protocol_id)
  BY MeterAt DEF MeterProtocols
<1>3. /\ head \in Area(BufferSize) /\ Headed(head, l, protocol)
      /\ \A o \in 20..(15 + l) : head[o] = NoBytes[o]
      /\ protocol = sma_emeter_protocol_id => \A o \in 18..(15 + l) : head[o] = NoBytes[o]
  <2>1. l >= 4 /\ protocol \in Protocols /\ NoBytes \in Area(BufferSize)
    BY <1>2, MeterAt, NoBytesTyped
  <2>2. head = setDefaultHeader(Packet(NoBytes, 20 + l), Group1, l, protocol)
    OBVIOUS
  <2> QED
    BY <1>1, <2>1, <2>2, HeaderIs
<1>4. Payload(Packet(head, length)).at = at /\ Payload(Packet(head, length)).size = (16 + l) - at
  <2>1. l >= 4 /\ length \in (20 + l)..BufferSize
    BY <1>1, <1>2
  <2> QED
    BY <1>1, <1>2, <1>3, <2>1, Data2PayloadIs
<1>5. at + 10 <= BufferSize /\ at + 10 <= 16 + l
  BY <1>1, <1>2
<1>6. b = setEmeterFields(head, at, fields)
  BY <1>4
<1>7. /\ b \in Area(BufferSize)
      /\ \A f \in DOMAIN fields : getBigEndian(b, at + EmeterField(f)[1], EmeterField(f)[2]) = fields[f]
      /\ \A o \in 0..(BufferSize - 1) : (o < at \/ o >= at + 10) => b[o] = head[o]
  BY <1>1, <1>3, <1>5, <1>6, EmeterFieldsSet DEF EmeterFieldValues
<1>8. Headed(b, l, protocol)
  <2>0. at >= 18
    BY <1>2
  <2>1. \A o \in 0..17 : o \in 0..(BufferSize - 1) /\ o < at
    BY <1>1, <2>0
  <2>2. \A o \in (16 + l)..(19 + l) : o \in 0..(BufferSize - 1) /\ o >= at + 10
    BY <1>1, <1>5
  <2>3. (\A o \in 0..17 : b[o] = head[o]) /\ (\A o \in (16 + l)..(19 + l) : b[o] = head[o])
    BY <1>7, <2>1, <2>2
  <2> QED
    BY <1>3, <2>3, HeadedStays
<1>9. \A o \in (at + 10)..(15 + l) : b[o] = 0
  <2>1. \A o \in (at + 10)..(15 + l) : o \in 0..(BufferSize - 1) /\ o >= at + 10 /\ o \in 20..(15 + l)
    BY <1>1, <1>2
  <2> QED
    BY <1>3, <1>7, <2>1, NoBytesTyped
<1>10. getFirstObisElement(Payload(Packet(head, length))) = at + 10
  <2>1. ~(10 > (16 + l) - at)
    BY <1>5
  <2> QED
    BY <1>4, <2>1 DEF getFirstObisElement, sma_first_obis_offset
<1> QED
  BY <1>2, <1>7, <1>8, <1>9, <1>10 DEF MeterPacket

ElementLength(e) == IF e.channel = sma_firmware_version_channel THEN 8 ELSE 4 + e.type

(* The element e, at an address of a memory area.                          *)
ElementAt(b, o, e) ==
    /\ b[o] = e.channel /\ b[o + 2] = e.type
    /\ \A i \in 1..Len(e.value) : b[(o + 3) + i] = e.value[i]

(* A part of a sequence.                                                   *)
LEMMA ElementTyped ==
  ASSUME NEW S, NEW s \in Seq(S), NEW i \in 1..Len(s)
  PROVE  s[i] \in S
OBVIOUS

(* The length, the value and the bytes of an obis element.                 *)
LEMMA ElementIs ==
  ASSUME NEW e, ObisElement(e)
  PROVE  /\ ElementLength(e) \in {8, 11, 12}
         /\ e.value \in Seq(Byte) /\ Len(e.value) \in {4, 8} /\ 4 + Len(e.value) <= ElementLength(e)
         /\ Len(e.value) = 8 => e.type = 8
         /\ e.channel \in Byte /\ e.index \in Byte /\ e.type \in Byte /\ e.tariff \in Byte
<1>1. e.channel \in Byte /\ e.index \in Byte /\ e.type \in Byte /\ e.tariff \in Byte
  BY DEF ObisElement
<1>2. ASSUME NEW k \in {4, 8}, e.value \in [1..k -> Byte]
      PROVE  e.value \in Seq(Byte) /\ Len(e.value) = k
  <2>1. PICK j \in Nat : j = k
    OBVIOUS
  <2> QED
    BY <1>2, <2>1, BytesOf
<1>3. CASE e.channel = sma_firmware_version_channel
  <2>1. e.value \in [1..4 -> Byte]
    BY <1>3 DEF ObisElement, FourBytes
  <2>2. e.value \in Seq(Byte) /\ Len(e.value) = 4
    BY <1>2, <2>1
  <2>3. ElementLength(e) = 8
    BY <1>3 DEF ElementLength
  <2> QED
    BY <1>1, <2>2, <2>3
<1>4. CASE e.channel # sma_firmware_version_channel
  <2>1. e.type \in {4, 7, 8} /\ e.value \in [1..(IF e.type = 8 THEN 8 ELSE 4) -> Byte]
    BY <1>4 DEF ObisElement
  <2>2. ElementLength(e) = 4 + e.type
    BY <1>4 DEF ElementLength
  <2>3. CASE e.type = 8
    <3>1. e.value \in [1..8 -> Byte]
      BY <2>1, <2>3
    <3>2. e.value \in Seq(Byte) /\ Len(e.value) = 8
      BY <1>2, <3>1
    <3>3. ElementLength(e) = 12
      BY <2>2, <2>3
    <3> QED
      BY <1>1, <2>3, <3>2, <3>3
  <2>4. CASE e.type # 8
    <3>1. e.value \in [1..4 -> Byte] /\ (e.type = 4 \/ e.type = 7)
      BY <2>1, <2>4
    <3>2. e.value \in Seq(Byte) /\ Len(e.value) = 4
      BY <1>2, <3>1
    <3>3. ElementLength(e) = 8 \/ ElementLength(e) = 11
      BY <2>2, <3>1
    <3> QED
      BY <1>1, <3>2, <3>3
  <2> QED
    BY <2>3, <2>4
<1> QED
  BY <1>3, <1>4

(* toByteArray puts the channel, the type and the value at their places.   *)
LEMMA ElementBytes ==
  ASSUME NEW e, ObisElement(e), NEW r, r = toByteArray(e)
  PROVE  /\ r \in Seq(Byte) /\ Len(r) = 12 /\ ObisBytesLength(r) = ElementLength(e)
         /\ r[1] = e.channel /\ r[3] = e.type
         /\ \A i \in 1..Len(e.value) : r[4 + i] = e.value[i]
<1>1. /\ ElementLength(e) \in {8, 11, 12}
      /\ e.value \in Seq(Byte) /\ Len(e.value) \in {4, 8} /\ 4 + Len(e.value) <= ElementLength(e)
      /\ e.channel \in Byte /\ e.index \in Byte /\ e.type \in Byte /\ e.tariff \in Byte
  BY ElementIs
<1>2. PICK v \in Seq(Byte) : v = e.value /\ Len(v) \in {4, 8}
  BY <1>1
<1>4. e.channel = sma_firmware_version_channel =>
          SubSeq(e.value, 1, 3) \o <<Revision(e.value[4])>> = v
  <2>1. ASSUME e.channel = sma_firmware_version_channel
        PROVE  SubSeq(e.value, 1, 3) \o <<Revision(e.value[4])>> = v
    <3>1. v \in [1..4 -> Byte] /\ v[4] \notin 48..57
      BY <1>2, <2>1 DEF ObisElement, FourBytes
    <3>2. v[4] \in Byte /\ Revision(v[4]) = v[4] /\ Len(v) = 4
      BY <3>1 DEF Revision
    <3>3. PICK u : u = SubSeq(v, 1, 3)
      OBVIOUS
    <3>4. u \in Seq(Byte) /\ Len(u) = 3 /\ u[1] = v[1] /\ u[2] = v[2] /\ u[3] = v[3]
      BY SMTT(30), <3>2, <3>3
    <3>5. PICK x \in Seq(Byte) : x = <<v[4]>> /\ Len(x) = 1 /\ x[1] = v[4]
      <4>1. PICK y \in Byte : y = v[4]
        BY <3>2
      <4>2. <<y>> \in Seq(Byte)
        OBVIOUS
      <4> QED
        BY <4>1, <4>2
    <3>6. PICK y : y = u \o x
      OBVIOUS
    <3>7. y \in Seq(Byte) /\ Len(y) = 4 /\ \A i \in 1..4 : y[i] = v[i]
      <4>1. y \in Seq(Byte) /\ Len(y) = Len(u) + Len(x) /\ Begins(y, u, Len(u)) /\ Holds(y, Len(u), x)
        BY <3>4, <3>6, JoinedOn
      <4>2. y[1] = u[1] /\ y[2] = u[2] /\ y[3] = u[3]
        BY <3>4, <4>1 DEF Begins
      <4>3. y[3 + 1] = x[1]
        BY <3>4, <3>5, <4>1 DEF Holds
      <4>4. \A i \in 1..4 : i = 1 \/ i = 2 \/ i = 3 \/ i = 4
        OBVIOUS
      <4> QED
        BY <3>4, <3>5, <4>1, <4>2, <4>3, <4>4
    <3>8. y = v
      <4>1. Len(y) = Len(v) /\ \A i \in 1..Len(y) : y[i] = v[i]
        BY <3>2, <3>7
      <4> QED
        BY <3>7, <4>1, SeqEqual
    <3> QED
      BY <1>2, <2>1, <3>2, <3>3, <3>5, <3>6, <3>8
  <2> QED
    BY <2>1
<1>5. PICK h \in Seq(Byte) : h = <<e.channel, e.index, e.type, e.tariff>> /\ Len(h) = 4
                             /\ h[1] = e.channel /\ h[3] = e.type
  <2>1. <<e.channel, e.index, e.type, e.tariff>> \in Seq(Byte)
    BY <1>1
  <2> QED
    BY <2>1
<1>6. (CASE e.type \in {4, 7, 8} -> e.value
         [] e.type = 0 /\ e.channel = sma_firmware_version_channel ->
                SubSeq(e.value, 1, 3) \o <<Revision(e.value[4])>>
         [] e.type = 0 /\ e.channel = 0 /\ e.index = 0 /\ e.tariff = 0 -> Zeros(4)
         [] OTHER -> <<>>) = v
  <2>1. CASE e.type \in {4, 7, 8}
    <3>1. e.type # 0
      BY <2>1
    <3> QED
      BY <1>2, <2>1, <3>1
  <2>2. CASE e.type = 0 /\ e.channel = sma_firmware_version_channel
    <3>1. e.type \notin {4, 7, 8} /\ e.channel # 0
      BY <2>2 DEF sma_firmware_version_channel
    <3> QED
      BY <1>4, <2>2, <3>1
  <2>3. e.type \in {4, 7, 8} \/ (e.type = 0 /\ e.channel = sma_firmware_version_channel)
    BY DEF ObisElement
  <2> QED
    BY <2>1, <2>2, <2>3
<1>7. PICK w : w = h \o v
  OBVIOUS
<1>8. w \in Seq(Byte) /\ Len(w) = Len(h) + Len(v) /\ Begins(w, h, Len(h)) /\ Holds(w, Len(h), v)
  BY <1>5, <1>7, JoinedOn
<1>9. w[1] = e.channel /\ w[3] = e.type /\ Len(w) = 4 + Len(v) /\ Len(w) <= 12
  <2>1. w[1] = h[1] /\ w[3] = h[3]
    BY <1>5, <1>8 DEF Begins
  <2>2. Len(w) = 4 + Len(v)
    BY <1>5, <1>8
  <2>3. 4 + Len(v) <= 12
    <3>1. PICK j \in {4, 8} : j = Len(v)
      BY <1>2
    <3>2. 4 + j <= 12
      OBVIOUS
    <3> QED
      BY <3>1, <3>2
  <2>4. h[1] = e.channel /\ h[3] = e.type
    BY <1>5
  <2>5. Len(w) <= 12
    BY <2>2, <2>3
  <2>6. w[1] = e.channel /\ w[3] = e.type
    BY <2>1, <2>4
  <2> QED
    BY <2>2, <2>5, <2>6
<1>10. PICK k \in Nat : k = 12 - Len(w)
  <2>1. Len(w) \in Nat /\ Len(w) <= 12
    BY <1>8, <1>9
  <2> QED
    BY <2>1
<1>11. PICK z \in Seq(Byte) : z = [i \in 1..k |-> 255] /\ Len(z) = k
  <2>1. PICK y : y = [i \in 1..k |-> 255]
    OBVIOUS
  <2>2. y \in [1..k -> Byte]
    BY <2>1 DEF Byte
  <2>3. y \in Seq(Byte) /\ Len(y) = k
    BY <2>2, BytesOf
  <2> QED
    BY <2>1, <2>3
<1>12. r = w \o z
  BY ZenonT(60), <1>5, <1>6, <1>7, <1>10, <1>11 DEF toByteArray
<1>13. r \in Seq(Byte) /\ Len(r) = Len(w) + Len(z) /\ Begins(r, w, Len(w)) /\ Holds(r, Len(w), z)
  BY <1>8, <1>11, <1>12, JoinedOn, ZenonT(60)
<1>14. r[1] = e.channel /\ r[3] = e.type /\ Len(r) = 12
  <2>1. Len(w) \in Nat /\ 1 \in 1..Len(w) /\ 3 \in 1..Len(w)
    BY <1>2, <1>8, <1>9
  <2>2. r[1] = w[1] /\ r[3] = w[3]
    BY <1>13, <2>1 DEF Begins
  <2>3. Len(r) = 12
    BY <1>10, <1>11, <1>13, <2>1
  <2> QED
    BY <1>9, <2>2, <2>3
<1>15. \A i \in 1..Len(v) : r[4 + i] = v[i]
  <2>1. ASSUME NEW i \in 1..Len(v) PROVE r[4 + i] = v[i]
    <3>1. 4 + i \in 1..Len(w) /\ Len(h) = 4
      BY <1>5, <1>9
    <3>2. r[4 + i] = w[4 + i]
      BY <1>13, <3>1 DEF Begins
    <3>3. w[4 + i] = v[i]
      BY <1>8, <3>1 DEF Holds
    <3> QED
      BY <3>2, <3>3
  <2> QED
    BY <2>1
<1>16. ObisBytesLength(r) = ElementLength(e)
  <2>1. PICK f : f = [i \in 0..(Len(r) - 1) |-> r[i + 1]]
    OBVIOUS
  <2>2. f[0] = r[1] /\ f[2] = r[3]
    BY <1>14, <2>1
  <2>3. ObisBytesLength(r) = getObisLength(f, 0)
    BY <2>1 DEF ObisBytesLength
  <2> QED
    BY <1>14, <2>2, <2>3 DEF getObisLength, getObisChannel, getObisType, ElementLength
<1> QED
  BY <1>2, <1>13, <1>14, <1>15, <1>16

(* An element that was written is in the memory, and its surroundings are  *)
(* left alone.                                                             *)
LEMMA ElementWritten ==
  ASSUME NEW n \in Nat, NEW b \in Area(n), NEW o \in Nat, NEW e, ObisElement(e), o + ElementLength(e) <= n,
         NEW bytes, bytes = toByteArray(e),
         NEW r, r = WriteBytes(b, o, SubSeq(bytes, 1, ObisBytesLength(bytes)))
  PROVE  /\ r \in Area(n) /\ ElementAt(r, o, e)
         /\ \A a \in 0..(n - 1) : (a < o \/ a >= o + ElementLength(e)) => r[a] = b[a]
<1>1. /\ ElementLength(e) \in {8, 11, 12}
      /\ e.value \in Seq(Byte) /\ Len(e.value) \in {4, 8} /\ 4 + Len(e.value) <= ElementLength(e)
  BY ElementIs
<1>2. PICK w \in Seq(Byte) : w = bytes /\ Len(w) = 12 /\ ObisBytesLength(w) = ElementLength(e)
                             /\ w[1] = e.channel /\ w[3] = e.type
                             /\ \A i \in 1..Len(e.value) : w[4 + i] = e.value[i]
  BY ElementBytes
<1>3. PICK k \in Nat : k = ElementLength(e) /\ 8 <= k /\ k <= 12 /\ 4 + Len(e.value) <= k /\ o + k <= n
  BY <1>1
<1>4. PICK s : s = SubSeq(w, 1, k)
  OBVIOUS
<1>5. s \in Seq(Byte) /\ Len(s) = k /\ \A i \in 1..k : s[i] = w[i]
  <2>1. ASSUME NEW i \in 1..k PROVE i \in 1..Len(w) /\ w[i] \in Byte
    <3>1. i \in 1..Len(w)
      BY <1>2, <1>3
    <3>2. w \in Seq(Byte)
      OBVIOUS
    <3> QED
      BY <3>1, <3>2, ElementTyped
  <2>2. k \in Int /\ 1 \in Int
    OBVIOUS
  <2>3. /\ s \in Seq(Byte) /\ Len(s) = (IF 1 <= k THEN k - 1 + 1 ELSE 0)
        /\ \A i \in 1..(k - 1 + 1) : s[i] = w[1 + i - 1]
    BY <1>4, <2>1, <2>2, SubSeqProperties
  <2>4. k - 1 + 1 = k
    OBVIOUS
  <2> QED
    BY <1>3, <2>3, <2>4
<1>6. r = WriteBytes(b, o, s)
  BY <1>2, <1>3, <1>4
<1>7. r \in Area(n)
  BY <1>5, <1>6, WriteTyped
<1>8. \A i \in 1..k : r[(o + i) - 1] = w[i]
  <2>1. ASSUME NEW i \in 1..k PROVE r[(o + i) - 1] = w[i]
    <3>1. i \in 1..Len(s) /\ o + i <= n
      BY <1>3, <1>5
    <3>2. r[(o + i) - 1] = s[i]
      <4>1. s \in Seq(Byte)
        BY <1>5
      <4> QED
        BY <1>6, <3>1, <4>1, WriteInside
    <3> QED
      BY <1>5, <3>2
  <2> QED
    BY <2>1
<1>9. ElementAt(r, o, e)
  <2>1. 1 \in 1..k /\ 3 \in 1..k /\ (o + 1) - 1 = o /\ (o + 3) - 1 = o + 2
    BY <1>3
  <2>2. r[o] = w[1] /\ r[o + 2] = w[3]
    BY <1>8, <2>1
  <2>3. ASSUME NEW i \in 1..Len(e.value) PROVE r[(o + 3) + i] = e.value[i]
    <3>1. 4 + i \in 1..k /\ (o + (4 + i)) - 1 = (o + 3) + i
      BY <1>1, <1>3
    <3>2. r[(o + 3) + i] = w[4 + i]
      BY <1>8, <3>1
    <3> QED
      BY <1>2, <3>2
  <2> QED
    BY <1>2, <2>2, <2>3 DEF ElementAt
<1>10. ASSUME NEW a \in 0..(n - 1), a < o \/ a >= o + ElementLength(e)
       PROVE  r[a] = b[a]
  <2>1. a < o \/ a >= o + Len(s)
    BY <1>3, <1>5, <1>10
  <2> QED
    BY <1>5, <1>6, <2>1, WriteOutside
<1> QED
  BY <1>7, <1>9, <1>10

-----------------------------------------------------------------------------
(* The registers of a reply, as they are sent                              *)

(* Four zeros are the number zero.                                         *)
LEMMA ZeroNumber == ToNat(Zeros(4)) = 0
<1> DEFINE Good(f) == f = [i \in 0..Len(Zeros(4)) |-> IF i = 0 THEN 0 ELSE f[i - 1] * 256 + Zeros(4)[i]]
           c == CHOOSE f : Good(f)
           w == [i \in 0..4 |-> 0]
<1>1. Len(Zeros(4)) = 4 /\ \A i \in 1..4 : Zeros(4)[i] = 0
  BY ZerosTyped
<1>2. w = [i \in 0..4 |-> IF i = 0 THEN 0 ELSE w[i - 1] * 256 + Zeros(4)[i]]
  BY <1>1
<1>3. Good(w)
  BY <1>1, <1>2
<1>4. Good(c)
  BY <1>3
<1>5. /\ c[0] = 0
      /\ c[1] = c[0] * 256 + 0 /\ c[2] = c[1] * 256 + 0 /\ c[3] = c[2] * 256 + 0 /\ c[4] = c[3] * 256 + 0
  <2> HIDE DEF c
  <2>1. 1 \in 1..4 /\ 2 \in 1..4 /\ 3 \in 1..4 /\ 4 \in 1..4
    OBVIOUS
  <2>2. /\ c[0] = 0 /\ c[1] = c[0] * 256 + Zeros(4)[1] /\ c[2] = c[1] * 256 + Zeros(4)[2]
        /\ c[3] = c[2] * 256 + Zeros(4)[3] /\ c[4] = c[3] * 256 + Zeros(4)[4]
    BY <1>1, <1>4
  <2> QED
    BY <1>1, <2>1, <2>2
<1>6. c[4] = 0
  <2> HIDE DEF c
  <2> QED
    BY <1>5
<1> QED
  BY <1>1, <1>6 DEF ToNat

(* Zero divided is zero, without remainder.                                *)
LEMMA ZeroDivided == ASSUME NEW m \in Nat \ {0} PROVE 0 \div m = 0 /\ 0 % m = 0
OBVIOUS

(* 2^16 is a divisor.                                                      *)
LEMMA WordSize == UINT16_MAX + 1 \in Nat \ {0}
BY DEF UINT16_MAX

(* The four bytes of zero are zeros.                                       *)
LEMMA ZeroBack == Uint32(0) = Zeros(4)
<1>1. 0 \div (UINT16_MAX + 1) = 0 /\ 0 % (UINT16_MAX + 1) = 0
  BY WordSize, ZeroDivided
<1>2. PICK u \in Seq(Byte) : u = Uint16(0) /\ Len(u) = 2 /\ u[1] = 0 /\ u[2] = 0
  <2>1. 0 \in Byte /\ (0 \div 256) % 256 = 0 /\ 0 % 256 = 0
    BY DEF Byte
  <2>2. Uint16(0) = <<0, 0>>
    BY <2>1 DEF Uint16
  <2>3. <<0, 0>> \in Seq(Byte)
    BY <2>1
  <2> QED
    BY <2>2, <2>3
<1>3. PICK w : w = u \o u
  OBVIOUS
<1>4. /\ w \in Seq(Byte) /\ Len(w) = 4
      /\ w[1] = 0 /\ w[2] = 0 /\ w[3] = 0 /\ w[4] = 0
  BY <1>2, <1>3, TwoAndTwo
<1>5. w = Zeros(4)
  <2>1. \A i \in 1..4 : i = 1 \/ i = 2 \/ i = 3 \/ i = 4
    OBVIOUS
  <2>2. \A i \in 1..Len(w) : w[i] = Zeros(4)[i]
    BY <1>4, <2>1, ZerosTyped
  <2>3. Zeros(4) \in Seq(Byte) /\ Len(Zeros(4)) = Len(w)
    BY <1>4, ZerosTyped
  <2> QED
    BY <1>4, <2>2, <2>3, SeqEqual
<1>6. Uint32(0) = Uint16(0) \o Uint16(0)
  BY <1>1 DEF Uint32
<1> QED
  BY <1>2, <1>3, <1>5, <1>6

(* The bytes of a register in a line of time and of one with a code word.  *)
TimedWire(w, r) ==
    /\ w \in Seq(Byte) /\ Len(w) = 4 + Len(r.data)
    /\ \A i \in 1..4 : w[i] = r.time[5 - i]
    /\ \A j \in 1..Len(r.data) : w[4 + j] = r.data[j]

CodedWire(w, r) ==
    /\ w \in Seq(Byte) /\ Len(w) = 8 + Len(r.data)
    /\ w[1] = r.conn /\ w[2] = r.id[3] /\ w[3] = r.id[2] /\ w[4] = r.type
    /\ \A i \in 1..4 : w[4 + i] = r.time[5 - i]
    /\ \A j \in 1..Len(r.data) : w[8 + j] = r.data[j]

(* A register is bytes.                                                    *)
LEMMA RegisterIs ==
  ASSUME NEW r \in SentRegisters
  PROVE  /\ r.id \in [1..3 -> Byte] /\ r.conn \in Byte /\ r.type \in Byte /\ r.time \in [1..4 -> Byte]
         /\ r.data \in Seq(Byte) /\ r.values \in Seq(Seq(Byte))
  BY DEF SentRegisters, FourBytes

(* The time of a register, least significant byte first, and its data.     *)
TimeAndData(w, time, data) ==
    /\ w \in Seq(Byte) /\ Len(w) = 4 + Len(data)
    /\ \A i \in 1..4 : w[i] = time[5 - i]
    /\ \A j \in 1..Len(data) : w[4 + j] = data[j]

(* They are put together.                                                  *)
LEMMA TimeFirst ==
  ASSUME NEW time \in [1..4 -> Byte], NEW data \in Seq(Byte), NEW w, w = Reverse(time) \o data
  PROVE  TimeAndData(w, time, data)
<1>1. time \in Seq(Byte) /\ Len(time) = 4
  <2>1. PICK k \in Nat : k = 4 /\ time \in [1..k -> Byte]
    OBVIOUS
  <2> QED
    BY <2>1, BytesOf
<1>2. PICK t : t = Reverse(time)
  OBVIOUS
<1>3. t \in Seq(Byte) /\ Len(t) = 4 /\ \A i \in 1..4 : t[i] = time[(4 - i) + 1]
  BY <1>1, <1>2, ReverseOf
<1>4. w = t \o data
  BY <1>2
<1>5. /\ w \in Seq(Byte) /\ Len(w) = Len(t) + Len(data)
      /\ \A i \in 1..Len(t) : w[i] = t[i]
      /\ \A i \in 1..Len(data) : w[Len(t) + i] = data[i]
  <2>1. t \in Seq(Byte)
    BY <1>3
  <2> QED
    BY <2>1, <1>4, Joined
<1>6. \A i \in 1..4 : (4 - i) + 1 = 5 - i
  OBVIOUS
<1> QED
  BY <1>3, <1>5, <1>6 DEF TimeAndData

(* What the bytes of a register are.                                       *)
LEMMA WireIs ==
  ASSUME NEW r \in SentRegisters, NEW command, NEW w, w = RegisterWire(command, r)
  PROVE  IF OfTimeline(command) THEN TimedWire(w, r) ELSE CodedWire(w, r)
<1>1. /\ r.id \in [1..3 -> Byte] /\ r.conn \in Byte /\ r.type \in Byte /\ r.time \in [1..4 -> Byte]
      /\ r.data \in Seq(Byte)
  BY RegisterIs
<1>2. PICK v : v = Reverse(r.time) \o r.data
  OBVIOUS
<1>0. PICK time \in [1..4 -> Byte], data \in Seq(Byte) : time = r.time /\ data = r.data
  BY <1>1
<1>3. /\ v \in Seq(Byte) /\ Len(v) = 4 + Len(r.data)
      /\ \A i \in 1..4 : v[i] = r.time[5 - i]
      /\ \A j \in 1..Len(r.data) : v[4 + j] = r.data[j]
  <2>1. v = Reverse(time) \o data
    BY <1>0, <1>2
  <2>2. TimeAndData(v, time, data)
    BY <2>1, TimeFirst
  <2> QED
    BY <1>0, <2>2 DEF TimeAndData
<1>4. CASE OfTimeline(command)
  <2>1. w = v
    BY <1>2, <1>4 DEF RegisterWire
  <2> QED
    BY <1>3, <1>4, <2>1 DEF TimedWire
<1>5. CASE ~OfTimeline(command)
  <2>1. PICK c : c = <<r.conn, r.id[3], r.id[2], r.type>>
    OBVIOUS
  <2>2. c \in Seq(Byte) /\ Len(c) = 4 /\ c[1] = r.conn /\ c[2] = r.id[3] /\ c[3] = r.id[2] /\ c[4] = r.type
    <3>1. r.id[3] \in Byte /\ r.id[2] \in Byte
      BY <1>1
    <3> QED
      BY <1>1, <2>1, <3>1
  <2>3. w = c \o v
    BY <1>2, <1>5, <2>1 DEF RegisterWire
  <2>4. /\ w \in Seq(Byte) /\ Len(w) = Len(c) + Len(v)
        /\ \A i \in 1..Len(c) : w[i] = c[i]
        /\ \A i \in 1..Len(v) : w[Len(c) + i] = v[i]
    <3>1. PICK x \in Seq(Byte), y \in Seq(Byte) : x = c /\ y = v
      BY <1>3, <2>2
    <3>2. w = x \o y
      BY <2>3, <3>1
    <3>3. w \in Seq(Byte) /\ Len(w) = Len(x) + Len(y) /\ Begins(w, x, Len(x)) /\ Holds(w, Len(x), y)
      BY <3>2, JoinedOn
    <3>4. w \in Seq(Byte) /\ Len(w) = Len(c) + Len(v) /\ Begins(w, c, Len(c)) /\ Holds(w, Len(c), v)
      BY <3>1, <3>3, Zenon
    <3> QED
      BY <3>4 DEF Begins, Holds
  <2>5. Len(w) = 8 + Len(r.data) /\ \A i \in 1..4 : i \in 1..Len(v)
    <3>1. PICK n \in Nat : n = Len(r.data)
      BY <1>1
    <3>2. Len(w) = Len(c) + Len(v) /\ Len(c) = 4 /\ Len(v) = 4 + n
      BY <1>3, <2>2, <2>4, <3>1
    <3>3. 4 + (4 + n) = 8 + n /\ \A i \in 1..4 : i \in 1..(4 + n)
      OBVIOUS
    <3> QED
      BY <3>1, <3>2, <3>3, Zenon
  <2>6. w[1] = c[1] /\ w[2] = c[2] /\ w[3] = c[3] /\ w[4] = c[4]
    BY <2>2, <2>4
  <2>7. \A i \in 1..4 : w[4 + i] = r.time[5 - i]
    BY <1>3, <2>2, <2>4, <2>5
  <2>8. ASSUME NEW j \in 1..Len(r.data) PROVE w[8 + j] = r.data[j]
    <3>1. 4 + j \in 1..Len(v) /\ 4 + (4 + j) = 8 + j
      BY <1>1, <1>3
    <3>2. w[4 + (4 + j)] = v[4 + j]
      BY <2>2, <2>4, <3>1
    <3> QED
      BY <1>3, <3>1, <3>2
  <2> QED
    BY <1>5, <2>2, <2>4, <2>5, <2>6, <2>7, <2>8 DEF CodedWire
<1> QED
  BY <1>4, <1>5

(* A reply has a kind, four bytes of command and registers that fit into   *)
(* the buffer.                                                             *)
LEMMA ReplyIs ==
  ASSUME NEW reply \in Registers
  PROVE  /\ reply.kind \in {"reply", "unicast_response"}
         /\ reply.command \in FourBytes /\ reply.first \in FourBytes
         /\ reply.registers \in Seq(SentRegisters) /\ reply.unused \in Nat
         /\ 58 + Len(RegisterBytes(reply)) <= BufferSize /\ ReplyOfDevice(reply)
<1>1. reply \in [kind : {"reply", "unicast_response"}, command : FourBytes,
                 first : FourBytes, registers : Seq(SentRegisters), unused : Nat]
      /\ 58 + Len(RegisterBytes(reply)) <= BufferSize /\ ReplyOfDevice(reply)
  BY PacketsAssumption
<1> QED
  BY <1>1

Wires(reply) == [i \in 1..Len(reply.registers) |-> RegisterWire(reply.command, reply.registers[i])]

(* The bytes of a reply: its n registers, each of the same length, and     *)
(* unused ones behind them.                                                *)
RegistersLaid(raw, reply, n, length) ==
    /\ raw \in Seq(Byte) /\ Len(raw) = (n + reply.unused) * length
    /\ PiecesAt(raw, Wires(reply), n, length)
    /\ \A x \in ((n * length) + 1)..((n + reply.unused) * length) : raw[x] = 0

(* How many registers a reply has and how long they are.                   *)
LEMMA ReplyCounts ==
  ASSUME NEW reply \in Registers
  PROVE  /\ Len(reply.registers) \in Nat \ {0} /\ RegisterLength(reply) \in Nat
         /\ RegisterLength(reply) >= 12
         /\ Pieces(Wires(reply), Len(reply.registers), RegisterLength(reply))
         /\ Wires(reply) \in [1..Len(reply.registers) -> Seq(Byte)]
<1>1. reply.registers \in Seq(SentRegisters) /\ ReplyOfDevice(reply)
  BY ReplyIs
<1>2. PICK n \in Nat : n = Len(reply.registers) /\ DOMAIN reply.registers = 1..n
  BY <1>1
<1>3. n # 0
  <2>1. reply.registers # <<>>
    BY <1>1 DEF ReplyOfDevice
  <2> QED
    BY <1>1, <1>2, <2>1
<1>4. ASSUME NEW i \in 1..n
      PROVE  /\ Wires(reply)[i] = RegisterWire(reply.command, reply.registers[i])
             /\ Wires(reply)[i] \in Seq(Byte) /\ Len(Wires(reply)[i]) = RegisterLength(reply)
  <2>1. Wires(reply)[i] = RegisterWire(reply.command, reply.registers[i])
    BY <1>2 DEF Wires
  <2>2. reply.registers[i] \in SentRegisters
    BY <1>1, <1>2
  <2>3. RegisterWire(reply.command, reply.registers[i]) \in Seq(Byte)
    BY <2>2, WireIs DEF TimedWire, CodedWire
  <2>4. Len(RegisterWire(reply.command, reply.registers[i])) = RegisterLength(reply)
    BY <1>1, <1>2 DEF ReplyOfDevice
  <2> QED
    BY <2>1, <2>3, <2>4
<1>5. RegisterLength(reply) \in Nat
  <2>1. 1 \in 1..n
    BY <1>3
  <2> QED
    BY <1>4, <2>1
<1>6. RegisterLength(reply) >= 12
  BY <1>1 DEF ReplyOfDevice
<1>7. Wires(reply) \in [1..n -> Seq(Byte)]
  <2>1. Wires(reply) = [i \in 1..n |-> RegisterWire(reply.command, reply.registers[i])]
    BY <1>2 DEF Wires
  <2> QED
    BY <1>4, <2>1
<1> QED
  BY <1>2, <1>3, <1>4, <1>5, <1>6, <1>7 DEF Pieces

(* The bytes of the registers, one behind the other.                       *)
LEMMA RegisterBytesAre ==
  ASSUME NEW reply \in Registers
  PROVE  RegistersLaid(RegisterBytes(reply), reply, Len(reply.registers), RegisterLength(reply))
<1>1. PICK n \in Nat, length \in Nat : n = Len(reply.registers) /\ length = RegisterLength(reply)
  BY ReplyCounts
<1>0. PICK s : s = Wires(reply)
  OBVIOUS
<1>2. PICK m \in Nat : m = reply.unused
  BY ReplyIs
<1>3. s \in [1..n -> Seq(Byte)] /\ Pieces(s, n, length)
  BY <1>0, <1>1, ReplyCounts
<1>4. PICK u : u = FlattenSeq(s)
  OBVIOUS
<1>5. u \in Seq(Byte) /\ Len(u) = n * length /\ PiecesAt(u, s, n, length)
  BY <1>3, <1>4, FlattenPieces DEF Together
<1>6. m * length \in Nat /\ n * length \in Nat /\ (n + m) * length = (n * length) + (m * length)
  OBVIOUS
<1>7. PICK k \in Nat, x \in Nat, y \in Nat : k = m * length /\ x = n * length /\ y = (n + m) * length /\ y = x + k
  BY <1>6
<1>8. PICK z : z = Zeros(k)
  OBVIOUS
<1>9. z \in Seq(Byte) /\ Len(z) = k /\ \A i \in 1..k : z[i] = 0
  BY <1>8 DEF Zeros, Byte
<1>10. PICK raw : raw = RegisterBytes(reply)
  OBVIOUS
<1>11. raw = u \o z
  BY <1>0, <1>1, <1>2, <1>4, <1>7, <1>8, <1>10 DEF RegisterBytes, Wires
<1>12. /\ raw \in Seq(Byte) /\ Len(raw) = Len(u) + Len(z)
       /\ \A i \in 1..Len(u) : raw[i] = u[i]
       /\ \A i \in 1..Len(z) : raw[Len(u) + i] = z[i]
  BY <1>5, <1>9, <1>11, Joined, Zenon
<1>13. Len(raw) = y
  BY <1>5, <1>7, <1>9, <1>12
<1>14. ASSUME NEW i \in 1..n, NEW j \in 1..length PROVE raw[((i - 1) * length) + j] = s[i][j]
  <2>1. ((i - 1) * length) + j \in 1..Len(u)
    BY <1>5, PieceInside
  <2>2. u[((i - 1) * length) + j] = s[i][j]
    BY <1>5 DEF PiecesAt
  <2> QED
    BY <1>12, <2>1, <2>2
<1>15. ASSUME NEW o \in (x + 1)..y PROVE raw[o] = 0
  <2>1. o - x \in 1..k /\ x + (o - x) = o
    BY <1>7
  <2>2. raw[x + (o - x)] = z[o - x]
    BY <1>5, <1>7, <1>9, <1>12, <2>1
  <2> QED
    BY <1>9, <2>1, <2>2
<1>16. PiecesAt(raw, s, n, length)
  BY <1>14 DEF PiecesAt
<1> QED
  BY <1>0, <1>1, <1>2, <1>7, <1>10, <1>12, <1>13, <1>15, <1>16 DEF RegistersLaid

LastRegister(reply) == Uint32(LastRegisterID(reply))

(* The number of the first and of the last register.                       *)
LEMMA LastRegisterIs ==
  ASSUME NEW reply \in Registers
  PROVE  /\ ToNat(reply.first) \in Nat /\ RegistersOf(reply) \in Nat \ {0}
         /\ RegistersOf(reply) = Len(reply.registers) + reply.unused
         /\ LastRegisterID(reply) \in Nat
         /\ LastRegisterID(reply) = ToNat(reply.first) + RegistersOf(reply) - 1
<1>1. ToNat(reply.first) \in Nat
  <2>1. PICK k \in Nat : k = 4 /\ reply.first \in [1..k -> Byte]
    BY ReplyIs DEF FourBytes
  <2>2. reply.first \in Seq(Byte)
    BY <2>1, BytesOf
  <2> QED
    BY <2>2, ToNatTyped
<1>2. Len(reply.registers) \in Nat \ {0} /\ reply.unused \in Nat
  BY ReplyCounts, ReplyIs
<1>3. RegistersOf(reply) \in Nat \ {0} /\ RegistersOf(reply) = Len(reply.registers) + reply.unused
  BY <1>2 DEF RegistersOf
<1> QED
  BY <1>1, <1>3 DEF LastRegisterID

(* The last register id is a number of four bytes.                         *)
LEMMA LastRegisterTyped ==
  ASSUME NEW reply \in Registers
  PROVE  LastRegister(reply) \in FourBytes /\ (reply.kind = "unicast_response" => LastRegister(reply) = Zeros(4))
<1>1. PICK x \in Int : x = LastRegisterID(reply)
  BY LastRegisterIs
<1>2. LastRegister(reply) = Uint32(x)
  BY <1>1 DEF LastRegister
<1>3. Uint32(x) \in FourBytes
  BY Uint32Typed DEF FourBytes
<1>4. ASSUME reply.kind = "unicast_response" PROVE x = 0
  <2>1. reply.first = Zeros(4) /\ RegistersOf(reply) = 1
    BY <1>4, ReplyIs DEF ReplyOfDevice
  <2> QED
    BY <1>1, <2>1, LastRegisterIs, ZeroNumber
<1> QED
  BY <1>2, <1>3, <1>4, ZeroBack

-----------------------------------------------------------------------------
(* The registers of a reply, as they are read                              *)

(* What a reader is to find of a register.                                 *)
Parsed(command, r) ==
    [command |-> command, id |-> r.id, conn |-> r.conn, type |-> r.type, time |-> r.time,
     data |-> r.data]

(* Data d are at an address.                                               *)
DataThere(b, at, d) == \A j \in 1..Len(d) : b[(at + j) - 1] = d[j]

(* Bytes that are there are read as data.                                  *)
LEMMA DataRead ==
  ASSUME NEW b, NEW at \in Nat, NEW d \in Seq(Byte), Len(d) <= MaxData,
         DataThere(b, at, d), NEW n, n = Len(d),
         NEW command, NEW id, NEW conn, NEW type, NEW time
  PROVE  RawData(command, id, conn, type, time, ReadBytes(b, at, n)) =
            [command |-> command, id |-> id, conn |-> conn, type |-> type, time |-> time, data |-> d]
<1>1. n \in Nat /\ d \in [1..n -> Byte]
  BY LenProperties
<1>2. ReadBytes(b, at, n) = d
  <2>1. PICK m \in Nat : m = n
    BY <1>1
  <2>2. PICK v \in [1..m -> Byte] : v = d
    BY <1>1, <2>1
  <2>3. \A i \in 1..m : b[(at + i) - 1] = v[i]
    BY <2>1, <2>2 DEF DataThere
  <2>4. ReadBytes(b, at, m) = v
    BY <2>2, <2>3 DEF ReadBytes
  <2> QED
    BY <2>1, <2>2, <2>4
<1> QED
  BY <1>2, Zenon DEF RawData

(* All bytes are copied if the array has room for them.                    *)
LEMMA AllCopied ==
  ASSUME NEW q, NEW offset, NEW k \in Nat, k <= MaxData
  PROVE  CopiedData(q, offset, k) = ReadBytes(q.udp, q.at + offset, k)
<1>1. (IF k < MaxData THEN k ELSE MaxData) = k
  <2>1. PICK m \in Nat : m = MaxData
    BY DEF MaxData
  <2>2. k < m \/ k = m
    BY <2>1
  <2> QED
    BY <2>1, <2>2
<1> QED
  BY <1>1, Zenon DEF CopiedData

(* So are those of a register.                                             *)
LEMMA ParsedData ==
  ASSUME NEW b, NEW at \in Nat, NEW r, NEW d \in Seq(Byte), d = r.data, Len(d) <= MaxData,
         DataThere(b, at, d), NEW n, n = Len(d), NEW command, NEW conn, conn = r.conn
  PROVE  RawData(command, r.id, conn, r.type, r.time, ReadBytes(b, at, n)) = Parsed(command, r)
<1>1. PICK id, type, time : id = r.id /\ type = r.type /\ time = r.time
  OBVIOUS
<1>2. RawData(command, id, conn, type, time, ReadBytes(b, at, n)) =
         [command |-> command, id |-> id, conn |-> conn, type |-> type, time |-> time, data |-> d]
  BY DataRead
<1> QED
  BY <1>1, <1>2, Zenon DEF Parsed

(* The time of a register is read back.                                    *)
LEMMA TimeRead ==
  ASSUME NEW b, NEW at \in Nat, NEW time \in [1..4 -> Byte],
         b[at] = time[4], b[at + 1] = time[3], b[at + 2] = time[2], b[at + 3] = time[1]
  PROVE  getLittleEndian(b, at, 4) = time
<1>1. getLittleEndian(b, at, 4) = <<time[1], time[2], time[3], time[4]>>
  BY LittleFour
<1>2. PICK w : w = <<time[1], time[2], time[3], time[4]>>
  OBVIOUS
<1>3. w = [i \in 1..4 |-> w[i]] /\ w[1] = time[1] /\ w[2] = time[2] /\ w[3] = time[3] /\ w[4] = time[4]
  BY <1>2
<1>4. \A i \in 1..4 : w[i] = time[i]
  <2>1. \A i \in 1..4 : i = 1 \/ i = 2 \/ i = 3 \/ i = 4
    OBVIOUS
  <2> QED
    BY <1>3, <2>1
<1>5. w = time
  BY <1>3, <1>4
<1> QED
  BY <1>1, <1>2, <1>5

(* The bytes of a register are at element e of the payload q.              *)
BytesAt(b, q, e, w) ==
    q.udp = b /\ q.at = 20 /\ e \in Nat /\ \A j \in 1..Len(w) : b[19 + (e + j)] = w[j]

(* A register with a code word is read back.                               *)
LEMMA CodedRead ==
  ASSUME NEW b, NEW q, NEW e, NEW w, BytesAt(b, q, e, w), NEW r \in SentRegisters, CodedWire(w, r),
         r.id[1] = 0, Len(r.data) <= MaxData, NEW length, length = Len(w)
  PROVE  getRawData(q, e, length) = Parsed(getField(q, "CommandID"), r)
<1>1. PICK k \in Nat, t \in [1..4 -> Byte] : t = r.time /\ k = Len(r.data)
  BY RegisterIs
<1>2. e \in Nat /\ q.udp = b /\ q.at = 20 /\ length = 8 + k
  BY <1>1 DEF BytesAt, CodedWire
<1>3. \A j \in 1..(8 + k) : b[19 + (e + j)] = w[j]
  BY <1>2 DEF BytesAt
<1>4. /\ b[20 + e] = w[1] /\ b[(20 + e) + 1] = w[2] /\ b[(20 + e) + 2] = w[3] /\ b[(20 + e) + 3] = w[4]
      /\ b[20 + (e + 4)] = w[5] /\ b[(20 + (e + 4)) + 1] = w[6] /\ b[(20 + (e + 4)) + 2] = w[7]
      /\ b[(20 + (e + 4)) + 3] = w[8]
  <2>1. /\ 1 \in 1..(8 + k) /\ 2 \in 1..(8 + k) /\ 3 \in 1..(8 + k) /\ 4 \in 1..(8 + k)
        /\ 5 \in 1..(8 + k) /\ 6 \in 1..(8 + k) /\ 7 \in 1..(8 + k) /\ 8 \in 1..(8 + k)
    OBVIOUS
  <2>2. /\ 19 + (e + 1) = 20 + e /\ 19 + (e + 2) = (20 + e) + 1
        /\ 19 + (e + 3) = (20 + e) + 2 /\ 19 + (e + 4) = (20 + e) + 3
        /\ 19 + (e + 5) = 20 + (e + 4) /\ 19 + (e + 6) = (20 + (e + 4)) + 1
        /\ 19 + (e + 7) = (20 + (e + 4)) + 2 /\ 19 + (e + 8) = (20 + (e + 4)) + 3
    BY <1>2
  <2> QED
    BY <1>3, <2>1, <2>2
<1>5. Word(q, e) = <<r.type, r.id[2], r.id[3], r.conn>>
  <2>1. 20 + e \in Nat
    BY <1>2
  <2>2. Word(q, e) = getLittleEndian(b, 20 + e, 4)
    BY <1>2 DEF Word
  <2>3. w[1] = r.conn /\ w[2] = r.id[3] /\ w[3] = r.id[2] /\ w[4] = r.type
    BY DEF CodedWire
  <2> QED
    BY <1>4, <2>1, <2>2, <2>3, LittleFour
<1>6. Word(q, e + 4) = r.time
  <2>1. 20 + (e + 4) \in Nat
    BY <1>2
  <2>2. Word(q, e + 4) = getLittleEndian(b, 20 + (e + 4), 4)
    BY <1>2 DEF Word
  <2>3. w[5] = t[4] /\ w[6] = t[3] /\ w[7] = t[2] /\ w[8] = t[1]
    <3>1. \A i \in 1..4 : w[4 + i] = t[5 - i]
      BY <1>1 DEF CodedWire
    <3>2. /\ 1 \in 1..4 /\ 2 \in 1..4 /\ 3 \in 1..4 /\ 4 \in 1..4
          /\ 4 + 1 = 5 /\ 4 + 2 = 6 /\ 4 + 3 = 7 /\ 4 + 4 = 8
          /\ 5 - 1 = 4 /\ 5 - 2 = 3 /\ 5 - 3 = 2 /\ 5 - 4 = 1
      OBVIOUS
    <3> QED
      BY <3>1, <3>2
  <2> QED
    BY <1>1, <1>4, <2>1, <2>2, <2>3, TimeRead, SMTT(30)
<1>7. PICK code : code = Word(q, e) /\ code[1] = r.type /\ code[2] = r.id[2] /\ code[3] = r.id[3] /\ code[4] = r.conn
  BY <1>5
<1>8. <<0, code[2], code[3]>> = r.id
  <2>1. PICK d \in [1..3 -> Byte] : d = r.id
    BY RegisterIs
  <2>2. PICK v : v = <<0, code[2], code[3]>>
    OBVIOUS
  <2>3. v = [i \in 1..3 |-> v[i]] /\ v[1] = d[1] /\ v[2] = d[2] /\ v[3] = d[3]
    BY <1>7, <2>1, <2>2
  <2>4. \A i \in 1..3 : v[i] = d[i]
    <3>1. \A i \in 1..3 : i = 1 \/ i = 2 \/ i = 3
      OBVIOUS
    <3> QED
      BY <2>3, <3>1
  <2>5. v = d
    BY <2>3, <2>4
  <2> QED
    BY <2>1, <2>2, <2>5
<1>9. RawData(getField(q, "CommandID"), r.id, r.conn, r.type, r.time, ReadBytes(b, 28 + e, k)) =
         Parsed(getField(q, "CommandID"), r)
  <2>1. PICK d \in Seq(Byte) : d = r.data
    BY RegisterIs
  <2>2. \A j \in 1..k : b[((28 + e) + j) - 1] = d[j]
    <3>1. ASSUME NEW j \in 1..k PROVE b[((28 + e) + j) - 1] = d[j]
      <4>1. 8 + j \in 1..(8 + k) /\ 19 + (e + (8 + j)) = ((28 + e) + j) - 1
        BY <1>2
      <4>2. w[8 + j] = d[j]
        BY <1>1, <2>1 DEF CodedWire
      <4>3. b[19 + (e + (8 + j))] = w[8 + j]
        BY <1>3, <4>1
      <4> QED
        BY <4>1, <4>2, <4>3
    <3> QED
      BY <3>1
  <2>3. Len(d) <= MaxData /\ k = Len(d)
    BY <1>1, <2>1
  <2>4. PICK at \in Nat : at = 28 + e
    BY <1>2
  <2>5. DataThere(b, at, d)
    BY <2>2, <2>3, <2>4 DEF DataThere
  <2>6. PICK c, conn : c = getField(q, "CommandID") /\ conn = r.conn
    OBVIOUS
  <2>7. RawData(c, r.id, conn, r.type, r.time, ReadBytes(b, at, k)) = Parsed(c, r)
    BY <2>1, <2>3, <2>4, <2>5, <2>6, ParsedData
  <2> QED
    BY <2>4, <2>6, <2>7, Zenon
<1>10. 20 + (e + 8) = 28 + e /\ length - 8 = k
  BY <1>2
<1>11. CopiedData(q, e + 8, length - 8) = ReadBytes(b, 28 + e, k)
  <2>1. CopiedData(q, e + 8, k) = ReadBytes(q.udp, q.at + (e + 8), k)
    BY <1>1, AllCopied
  <2> QED
    BY <1>2, <1>10, <2>1
<1> QED
  BY <1>6, <1>7, <1>8, <1>9, <1>11 DEF getRawData

(* The data of register r are read at an address.                          *)
DataParsed(b, at, r) ==
    \A command : RawData(command, r.id, r.conn, r.type, r.time, ReadBytes(b, at, Len(r.data))) =
                     Parsed(command, r)

(* So are the data of a register of a line of time.                        *)
LEMMA TimedData ==
  ASSUME NEW b, NEW q, NEW e, NEW w, BytesAt(b, q, e, w), NEW r \in SentRegisters, TimedWire(w, r),
         Len(r.data) <= MaxData
  PROVE  DataParsed(b, 24 + e, r)
<1>7. PICK k \in Nat, conn \in Byte : k = Len(r.data) /\ conn = r.conn
  BY RegisterIs
<1>0. e \in Nat /\ \A j \in 1..(4 + k) : b[19 + (e + j)] = w[j]
  BY <1>7 DEF BytesAt, TimedWire
<1>1. PICK d \in Seq(Byte) : d = r.data
  BY RegisterIs
<1>2. ASSUME NEW j \in 1..k PROVE b[((24 + e) + j) - 1] = d[j]
  <2>1. 4 + j \in 1..(4 + k) /\ 19 + (e + (4 + j)) = ((24 + e) + j) - 1
    BY <1>0
  <2>2. w[4 + j] = d[j]
    BY <1>1, <1>7 DEF TimedWire
  <2>3. b[19 + (e + (4 + j))] = w[4 + j]
    BY <1>0, <2>1
  <2> QED
    BY <2>1, <2>2, <2>3
<1>3. Len(d) <= MaxData /\ k = Len(d)
  BY <1>1, <1>7
<1>4. PICK at \in Nat : at = 24 + e
  BY <1>0
<1>5. DataThere(b, at, d)
  BY <1>2, <1>3, <1>4 DEF DataThere
<1>6. ASSUME NEW command
      PROVE  RawData(command, r.id, conn, r.type, r.time, ReadBytes(b, at, k)) = Parsed(command, r)
  BY <1>1, <1>3, <1>5, <1>7, ParsedData
<1> QED
  BY <1>4, <1>6, <1>7, Zenon DEF DataParsed

(* A register of a line of time is read back.                              *)
LEMMA TimedRead ==
  ASSUME NEW b, NEW q, NEW e, NEW w, BytesAt(b, q, e, w), NEW r \in SentRegisters, TimedWire(w, r),
         Len(r.data) <= MaxData, NEW length, length = Len(w), NEW command \in FourBytes,
         getField(q, "CommandID") = command, r.id = SubSeq(command, 1, 3), r.conn = 0
  PROVE  getRawTimelineData(q, e, length, r.type) = Parsed(command, r)
<1>0. r.time \in [1..4 -> Byte] /\ Len(r.data) \in Nat
  BY RegisterIs
<1>1. PICK k \in Nat, t \in [1..4 -> Byte] : t = r.time /\ k = Len(r.data)
  BY <1>0
<1>2. e \in Nat /\ q.udp = b /\ q.at = 20 /\ length = 4 + k
  BY <1>1 DEF BytesAt, TimedWire
<1>3. \A j \in 1..(4 + k) : b[19 + (e + j)] = w[j]
  BY <1>2 DEF BytesAt
<1>4. b[20 + e] = w[1] /\ b[(20 + e) + 1] = w[2] /\ b[(20 + e) + 2] = w[3] /\ b[(20 + e) + 3] = w[4]
  <2>1. /\ 1 \in 1..(4 + k) /\ 2 \in 1..(4 + k) /\ 3 \in 1..(4 + k) /\ 4 \in 1..(4 + k)
        /\ 19 + (e + 1) = 20 + e /\ 19 + (e + 2) = (20 + e) + 1
        /\ 19 + (e + 3) = (20 + e) + 2 /\ 19 + (e + 4) = (20 + e) + 3
    BY <1>2
  <2> QED
    BY <1>3, <2>1
<1>5. Word(q, e) = r.time
  <2>1. 20 + e \in Nat
    BY <1>2
  <2>2. Word(q, e) = getLittleEndian(b, 20 + e, 4)
    BY <1>2 DEF Word
  <2>3. w[1] = t[4] /\ w[2] = t[3] /\ w[3] = t[2] /\ w[4] = t[1]
    <3>1. \A i \in 1..4 : w[i] = t[5 - i]
      BY <1>1 DEF TimedWire
    <3>2. /\ 1 \in 1..4 /\ 2 \in 1..4 /\ 3 \in 1..4 /\ 4 \in 1..4
          /\ 5 - 1 = 4 /\ 5 - 2 = 3 /\ 5 - 3 = 2 /\ 5 - 4 = 1
      OBVIOUS
    <3> QED
      BY <3>1, <3>2
  <2> QED
    BY <1>1, <1>4, <2>1, <2>2, <2>3, TimeRead
<1>6. <<command[1], command[2], command[3]>> = r.id
  <2>1. PICK c \in [1..4 -> Byte] : c = command
    BY DEF FourBytes
  <2>2. PICK v : v = <<c[1], c[2], c[3]>>
    OBVIOUS
  <2>3. v = [i \in 1..3 |-> v[i]] /\ v[1] = c[1] /\ v[2] = c[2] /\ v[3] = c[3]
    BY <2>2
  <2>4. \A i \in 1..3 : v[i] = c[i]
    <3>1. \A i \in 1..3 : i = 1 \/ i = 2 \/ i = 3
      OBVIOUS
    <3> QED
      BY <2>3, <3>1
  <2>5. SubSeq(c, 1, 3) = [i \in 1..3 |-> c[i]]
    <3>1. c \in Seq(Byte) /\ Len(c) = 4
      <4>1. PICK m \in Nat : m = 4 /\ c \in [1..m -> Byte]
        OBVIOUS
      <4> QED
        BY <4>1, BytesOf
    <3> QED
      BY <3>1, SubSeqProperties
  <2>6. v = SubSeq(c, 1, 3)
    BY <2>3, <2>4, <2>5
  <2> QED
    BY <2>1, <2>2, <2>6
<1>7. RawData(command, r.id, 0, r.type, r.time, ReadBytes(b, 24 + e, k)) = Parsed(command, r)
  <2>1. DataParsed(b, 24 + e, r)
    BY TimedData
  <2>2. RawData(command, r.id, r.conn, r.type, r.time, ReadBytes(b, 24 + e, k)) = Parsed(command, r)
    BY <1>1, <2>1, Zenon DEF DataParsed
  <2> QED
    BY <2>2, Zenon
<1>8. 20 + (e + 4) = 24 + e /\ length - 4 = k
  BY <1>2
<1>9. CopiedData(q, e + 4, length - 4) = ReadBytes(b, 24 + e, k)
  <2>1. CopiedData(q, e + 4, k) = ReadBytes(q.udp, q.at + (e + 4), k)
    BY <1>1, AllCopied
  <2> QED
    BY <1>2, <1>8, <2>1
<1> QED
  BY <1>5, <1>6, <1>7, <1>9 DEF getRawTimelineData

(* How the command tells to read a register.                               *)
Reading(q, e, length, command) ==
    IF CommandClass(command) = EventClass THEN getRawTimelineData(q, e, length, Event)
    ELSE IF CommandClass(command) \in YieldClasses THEN getRawTimelineData(q, e, length, Yield)
    ELSE getRawData(q, e, length)

(* The elements that are found, one for each place that the walk visits.   *)
LEMMA FoundIs ==
  ASSUME NEW q, NEW length, length = getRawDataLength(q), NEW command,
         command = getField(q, "CommandID"), command[4] # 0, NEW places, places = RawElements(q)
  PROVE  getRawDataElements(q) = [i \in DOMAIN places |-> Reading(q, places[i], length, command)]
<1>1. PICK class : class = CommandClass(command)
  OBVIOUS
<1> DEFINE Data(e) == CASE class = EventClass -> getRawTimelineData(q, e, length, Event)
                        [] class \in YieldClasses -> getRawTimelineData(q, e, length, Yield)
                        [] class # EventClass /\ class \notin YieldClasses /\ command[4] = 0 ->
                               getRawConnector0Data(q, e, length)
                        [] OTHER -> getRawData(q, e, length)
<1>2. EventClass \notin YieldClasses
  BY DEF EventClass, YieldClasses
<1>3. ASSUME NEW e PROVE Data(e) = Reading(q, e, length, command)
  <2>1. CASE class = EventClass
    BY <1>1, <1>2, <2>1 DEF Reading
  <2>2. CASE class # EventClass /\ class \in YieldClasses
    BY <1>1, <2>2 DEF Reading
  <2>3. CASE class # EventClass /\ class \notin YieldClasses
    BY <1>1, <2>3 DEF Reading
  <2> QED
    BY <2>1, <2>2, <2>3
<1>4. getRawDataElements(q) = [i \in DOMAIN places |-> Data(places[i])]
  BY <1>1 DEF getRawDataElements
<1> HIDE DEF Data
<1> QED
  BY <1>3, <1>4

(* A register that is read as the command tells is what the device sent.   *)
LEMMA RegisterReadBack ==
  ASSUME NEW b, NEW q, NEW e, NEW w, BytesAt(b, q, e, w), NEW command \in FourBytes,
         getField(q, "CommandID") = command, NEW r \in SentRegisters, RegisterOf(command, r),
         w = RegisterWire(command, r), NEW length, length = Len(w)
  PROVE  Reading(q, e, length, command) = Parsed(command, r)
<1>1. EventClass \notin YieldClasses
  BY DEF EventClass, YieldClasses
<1>2. CASE OfTimeline(command)
  <2>1. TimedWire(w, r)
    BY <1>2, WireIs
  <2>2. r.conn = 0 /\ r.id = SubSeq(command, 1, 3)
    BY <1>2 DEF RegisterOf
  <2>3. CASE CommandClass(command) = EventClass
    <3>0. r.type = Event /\ Len(r.data) = 44
      BY <1>2, <2>3, Zenon DEF RegisterOf
    <3>1. r.type = Event /\ Len(r.data) <= MaxData
      BY <3>0 DEF MaxData
    <3>2. getRawTimelineData(q, e, length, r.type) = Parsed(command, r)
      BY <2>1, <2>2, <3>1, TimedRead
    <3> QED
      BY <2>3, <3>1, <3>2 DEF Reading
  <2>4. CASE CommandClass(command) # EventClass
    <3>0. r.type = Yield /\ Len(r.data) = 8
      BY <1>2, <2>4, Zenon DEF RegisterOf
    <3>1. r.type = Yield /\ Len(r.data) <= MaxData
      BY <3>0 DEF MaxData
    <3>2. getRawTimelineData(q, e, length, r.type) = Parsed(command, r)
      BY <2>1, <2>2, <3>1, TimedRead
    <3>3. CommandClass(command) \in YieldClasses
      BY <1>2, <2>4 DEF OfTimeline
    <3> QED
      BY <2>4, <3>1, <3>2, <3>3 DEF Reading
  <2> QED
    BY <2>3, <2>4
<1>3. CASE ~OfTimeline(command)
  <2>1. CodedWire(w, r)
    BY <1>3, WireIs
  <2>2. r.id[1] = 0 /\ Len(r.data) <= MaxData
    BY <1>3 DEF RegisterOf
  <2>3. getRawData(q, e, length) = Parsed(command, r)
    BY <2>1, <2>2, CodedRead
  <2>4. CommandClass(command) # EventClass /\ CommandClass(command) \notin YieldClasses
    BY <1>3 DEF OfTimeline
  <2> QED
    BY <2>3, <2>4 DEF Reading
<1> QED
  BY <1>2, <1>3

(* What data hold: the words w that are read from register data f.         *)
Holding(f, w) ==
    /\ Len(w) \in Nat /\ DOMAIN w = 1..Len(w) /\ Len(f.data) \div 4 = Len(w)
    /\ \A i \in 1..Len(w) : getValue(f, i - 1) = w[i] /\ w[i] \in [1..4 -> Byte]

(* The words of a register are read one by one.                            *)
LEMMA WordsRead ==
  ASSUME NEW r \in SentRegisters, NEW f, f.data = r.data
  PROVE  Holding(f, DataWords(r))
<1>1. PICK d \in Seq(Byte) : d = r.data
  BY RegisterIs
<1>2. PICK l \in Nat, k \in Nat : l = Len(d) /\ k = l \div 4 /\ 4 * k <= l
  <2>1. Len(d) \in Nat /\ Len(d) \div 4 \in Nat /\ 4 * (Len(d) \div 4) <= Len(d)
    OBVIOUS
  <2> QED
    BY <2>1
<1>3. PICK w : w = DataWords(r)
  OBVIOUS
<1>4. w = [i \in 1..k |-> Reverse([b \in 1..4 |-> d[4 * (i - 1) + b]])]
  BY <1>1, <1>2, <1>3 DEF DataWords
<1>5. Len(w) = k /\ DOMAIN w = 1..k
  BY <1>4
<1>6. ASSUME NEW i \in 1..k
      PROVE  getValue(f, i - 1) = w[i] /\ w[i] \in [1..4 -> Byte]
  <2>1. PICK at \in Nat : at = 4 * (i - 1) /\ at + 4 <= l
    BY <1>2
  <2>2. \A b \in 1..4 : at + b <= l /\ at + b \in 1..l
    BY <2>1
  <2>3. PICK v : v = [b \in 1..4 |-> d[at + b]]
    OBVIOUS
  <2>4. w[i] = Reverse(v)
    BY <1>4, <2>1, <2>3
  <2>5. getValue(f, i - 1) = Reverse([b \in 1..4 |-> DataByte(f, at + b)])
    BY <2>1 DEF getValue
  <2>6. [b \in 1..4 |-> DataByte(f, at + b)] = v
    <3>1. \A b \in 1..4 : DataByte(f, at + b) = d[at + b]
      BY <1>1, <1>2, <2>2 DEF DataByte
    <3> QED
      BY <2>3, <3>1
  <2>7. v \in [1..4 -> Byte]
    BY <1>2, <2>2, <2>3
  <2>8. Reverse(v) \in [1..4 -> Byte]
    <3>1. PICK m \in Nat : m = 4
      OBVIOUS
    <3>4. PICK u : u = Reverse(v)
      OBVIOUS
    <3>2. v \in [1..m -> Byte]
      BY <2>7, <3>1
    <3>3. u \in [1..m -> Byte]
      BY <3>2, <3>4, ReverseTwice
    <3> QED
      BY <3>1, <3>3, <3>4
  <2> QED
    BY <2>4, <2>5, <2>6, <2>8
<1>7. Len(f.data) \div 4 = k
  BY <1>1, <1>2
<1> QED
  BY <1>3, <1>5, <1>6, <1>7 DEF Holding

(* Which of a few values are the same.                                     *)
LEMMA SameIs ==
  ASSUME NEW f
  PROVE  /\ Same(f, {<<2, 3>>}) <=> getValue(f, 2) = getValue(f, 3)
         /\ Same(f, {<<0, 1>>, <<1, 2>>, <<2, 3>>}) <=>
                /\ getValue(f, 0) = getValue(f, 1) /\ getValue(f, 1) = getValue(f, 2)
                /\ getValue(f, 2) = getValue(f, 3)
         /\ Same(f, {<<0, 1>>, <<2, 3>>, <<4, 5>>, <<6, 7>>}) <=>
                /\ getValue(f, 0) = getValue(f, 1) /\ getValue(f, 2) = getValue(f, 3)
                /\ getValue(f, 4) = getValue(f, 5) /\ getValue(f, 6) = getValue(f, 7)
<1> DEFINE G(i) == getValue(f, i)
<1>1. Same(f, {<<2, 3>>}) <=> G(2) = G(3)
  BY DEF Same
<1>2. Same(f, {<<0, 1>>, <<1, 2>>, <<2, 3>>}) <=> G(0) = G(1) /\ G(1) = G(2) /\ G(2) = G(3)
  BY DEF Same
<1>3. Same(f, {<<0, 1>>, <<2, 3>>, <<4, 5>>, <<6, 7>>}) <=>
          G(0) = G(1) /\ G(2) = G(3) /\ G(4) = G(5) /\ G(6) = G(7)
  BY DEF Same
<1> QED
  BY <1>1, <1>2, <1>3, Zenon

(* The types of registers.                                                 *)
LEMMA TypesApart ==
    /\ TypeMask(Yield) = Yield /\ TypeMask(Event) = Event
    /\ Yield \notin {Unsigned32, Signed32, Status32, String32, Float, Event}
    /\ Event \notin {Unsigned32, Signed32, Status32, String32, Float, Yield}
    /\ String32 \notin {Unsigned32, Signed32, Status32, Float, Yield, Event}
    /\ Status32 \notin {Unsigned32, Signed32, String32, Yield, Event}
    /\ Unsigned32 \notin {String32, Yield, Event} /\ Signed32 \notin {String32, Yield, Event}
    /\ Unsigned32 # Signed32
  BY SMTT(30) DEF TypeMask, Yield, Event, String32, Status32, Signed32, Unsigned32, Float

Numeric(f) == TypeMask(f.type) \in {Unsigned32, Signed32}

(* The number of values of numbers and of a status.                        *)
LEMMA NumberOfWords ==
  ASSUME NEW f, NEW w, Holding(f, w), Numeric(f) \/ TypeMask(f.type) = Status32
  PROVE  getNumberOfValues(f) = Len(w)
<1>1. PICK type : type = TypeMask(f.type)
  OBVIOUS
<1>2. type \in {Unsigned32, Status32, Float, Signed32} /\ type \notin {String32, Yield, Event}
  BY <1>1, TypesApart DEF Numeric
<1>3. getNumberOfValues(f) = Len(f.data) \div 4
  BY <1>1, <1>2 DEF getNumberOfValues
<1> QED
  BY <1>3 DEF Holding

(* How many numbers are significant.                                       *)
LEMMA SignificantIs ==
  ASSUME NEW f, Numeric(f), NEW n \in Nat, n = getNumberOfValues(f)
  PROVE  /\ n = 2 => getNumberOfSignificantValues(f) = IF getValue(f, 1) = Zeros(4) THEN 1 ELSE 2
         /\ n = 5 => getNumberOfSignificantValues(f) = SignificantOfFive(f)
         /\ n = 8 => getNumberOfSignificantValues(f) =
                IF Same(f, {<<0, 1>>, <<2, 3>>, <<4, 5>>, <<6, 7>>}) THEN 4 ELSE 8
<1>1. CASE n = 2
  BY <1>1 DEF getNumberOfSignificantValues, Numeric
<1>2. CASE n = 5
  BY <1>2 DEF getNumberOfSignificantValues, Numeric
<1>3. CASE n = 8
  BY <1>3 DEF getNumberOfSignificantValues, Numeric
<1> QED
  BY <1>1, <1>2, <1>3

(* Every step-th value of f, m of them.                                    *)
ValuesAt(f, m, step, v) == \A i \in 1..m : getValue(f, step * (i - 1)) = v[i]

(* The numbers that are read, when those are significant that were meant.  *)
LEMMA NumericIs ==
  ASSUME NEW f, NEW m \in Nat, m = getNumberOfSignificantValues(f), NEW v, m = Len(v),
         NEW V, v \in Seq(V), NEW step, step = IF getNumberOfValues(f) = 8 THEN 2 ELSE 1,
         ValuesAt(f, m, step, v)
  PROVE  getNumericValues(f) = v
<1>1. v = [i \in 1..m |-> v[i]]
  OBVIOUS
<1>2. getNumericValues(f) = [i \in 1..m |-> getValue(f, step * (i - 1))]
  BY DEF getNumericValues
<1> QED
  BY <1>1, <1>2 DEF ValuesAt

(* Words of a few numbers.                                                 *)
LEMMA TwoOf ==
  ASSUME NEW a, NEW b
  PROVE  Len(<<a, b>>) = 2 /\ <<a, b>>[1] = a /\ <<a, b>>[2] = b
  OBVIOUS

LEMMA FiveOf ==
  ASSUME NEW a, NEW b, NEW c, NEW d, NEW e, NEW w, w = <<a, b, c, d, e>>
  PROVE  Len(w) = 5 /\ w[1] = a /\ w[2] = b /\ w[3] = c /\ w[4] = d /\ w[5] = e
  OBVIOUS

LEMMA EightOf ==
  ASSUME NEW a, NEW b, NEW c, NEW d, NEW w, w = <<a, a, b, b, c, c, d, d>>
  PROVE  /\ Len(w) = 8 /\ w[1] = a /\ w[2] = a /\ w[3] = b /\ w[4] = b
         /\ w[5] = c /\ w[6] = c /\ w[7] = d /\ w[8] = d
  OBVIOUS

(* Words and the values that are read of them.                             *)
LEMMA HeldWords ==
  ASSUME NEW f, NEW w, Holding(f, w)
  PROVE  /\ Len(w) >= 2 => getValue(f, 0) = w[1] /\ getValue(f, 1) = w[2]
         /\ Len(w) >= 5 => getValue(f, 2) = w[3] /\ getValue(f, 3) = w[4] /\ getValue(f, 4) = w[5]
         /\ Len(w) >= 8 => getValue(f, 5) = w[6] /\ getValue(f, 6) = w[7] /\ getValue(f, 7) = w[8]
<1>1. PICK n \in Nat : n = Len(w) /\ \A i \in 1..n : getValue(f, i - 1) = w[i]
  BY DEF Holding
<1>2. ASSUME n >= 2 PROVE getValue(f, 0) = w[1] /\ getValue(f, 1) = w[2]
  <2>1. 1 \in 1..n /\ 2 \in 1..n /\ 1 - 1 = 0 /\ 2 - 1 = 1
    BY <1>2
  <2> QED
    BY <1>1, <2>1
<1>3. ASSUME n >= 5 PROVE getValue(f, 2) = w[3] /\ getValue(f, 3) = w[4] /\ getValue(f, 4) = w[5]
  <2>1. 3 \in 1..n /\ 4 \in 1..n /\ 5 \in 1..n /\ 3 - 1 = 2 /\ 4 - 1 = 3 /\ 5 - 1 = 4
    BY <1>3
  <2> QED
    BY <1>1, <2>1
<1>4. ASSUME n >= 8 PROVE getValue(f, 5) = w[6] /\ getValue(f, 6) = w[7] /\ getValue(f, 7) = w[8]
  <2>1. 6 \in 1..n /\ 7 \in 1..n /\ 8 \in 1..n /\ 6 - 1 = 5 /\ 7 - 1 = 6 /\ 8 - 1 = 7
    BY <1>4
  <2> QED
    BY <1>1, <2>1
<1> QED
  BY <1>1, <1>2, <1>3, <1>4

(* The numbers that a register is meant to have are read, unless they are  *)
(* eight, and the first word is the first of them.                         *)
LEMMA NumbersRead ==
  ASSUME NEW f, NEW w, Holding(f, w), Numeric(f), NEW V, NEW v \in Seq(V), NumbersMeant(w, v)
  PROVE  (Len(v) # 8 => getNumericValues(f) = v) /\ getValue(f, 0) = v[1]
<1>0. PICK s : s = getNumberOfSignificantValues(f)
  OBVIOUS
<1>1. PICK n \in Nat, m \in Nat : n = getNumberOfValues(f) /\ n = Len(w) /\ m = Len(v)
  <2>1. Len(w) \in Nat /\ getNumberOfValues(f) = Len(w)
    BY NumberOfWords DEF Holding
  <2> QED
    BY <2>1
<1>2. /\ n = 2 => s = IF getValue(f, 1) = Zeros(4) THEN 1 ELSE 2
      /\ n = 5 => s = SignificantOfFive(f)
      /\ n = 8 => s = IF Same(f, {<<0, 1>>, <<2, 3>>, <<4, 5>>, <<6, 7>>}) THEN 4 ELSE 8
  BY <1>0, <1>1, SignificantIs
<1>3. /\ n >= 2 => getValue(f, 0) = w[1] /\ getValue(f, 1) = w[2]
      /\ n >= 5 => getValue(f, 2) = w[3] /\ getValue(f, 3) = w[4] /\ getValue(f, 4) = w[5]
      /\ n >= 8 => getValue(f, 5) = w[6] /\ getValue(f, 6) = w[7] /\ getValue(f, 7) = w[8]
  BY <1>1, HeldWords
<1>4. ASSUME NEW step, step = IF n = 8 THEN 2 ELSE 1, s = m,
             \A i \in 1..m : getValue(f, step * (i - 1)) = v[i]
      PROVE  getNumericValues(f) = v
  <2>1. m = getNumberOfSignificantValues(f) /\ m = Len(v) /\ step = IF getNumberOfValues(f) = 8 THEN 2 ELSE 1
    BY <1>0, <1>1, <1>4
  <2>2. ValuesAt(f, m, step, v)
    BY <1>4 DEF ValuesAt
  <2> QED
    BY <2>1, <2>2, NumericIs
<1>5. CASE m = 1 /\ w = <<v[1], Zeros(4)>>
  <2>1. n = 2 /\ w[1] = v[1] /\ w[2] = Zeros(4)
    BY <1>1, <1>5, TwoOf
  <2>2. getValue(f, 0) = v[1] /\ getValue(f, 1) = Zeros(4)
    BY <1>3, <2>1
  <2>3. s = m
    BY <1>2, <1>5, <2>1, <2>2
  <2>4. \A i \in 1..m : getValue(f, 1 * (i - 1)) = v[i]
    BY <1>5, <2>2
  <2>5. getNumericValues(f) = v
    BY <1>4, <2>1, <2>3, <2>4
  <2> QED
    BY <2>2, <2>5
<1>6. CASE m = 1 /\ w = <<v[1], v[1], v[1], v[1], One>>
  <2>1. n = 5 /\ w[1] = v[1] /\ w[2] = v[1] /\ w[3] = v[1] /\ w[4] = v[1] /\ w[5] = One
    BY <1>1, <1>6, FiveOf
  <2>2. /\ getValue(f, 0) = v[1] /\ getValue(f, 1) = v[1] /\ getValue(f, 2) = v[1]
        /\ getValue(f, 3) = v[1] /\ getValue(f, 4) = One
    BY <1>3, <2>1
  <2>3. s = m
    <3>1. Same(f, {<<0, 1>>, <<1, 2>>, <<2, 3>>})
      BY <2>2, SameIs
    <3> QED
      BY <1>2, <1>6, <2>1, <2>2, <3>1 DEF SignificantOfFive
  <2>4. \A i \in 1..m : getValue(f, 1 * (i - 1)) = v[i]
    BY <1>6, <2>2
  <2>5. getNumericValues(f) = v
    BY <1>4, <2>1, <2>3, <2>4
  <2> QED
    BY <2>2, <2>5
<1>7. CASE m = 2 /\ w = v /\ v[2] # Zeros(4)
  <2>1. n = 2
    BY <1>1, <1>7
  <2>2. getValue(f, 0) = v[1] /\ getValue(f, 1) = v[2]
    BY <1>3, <1>7, <2>1
  <2>3. s = m
    BY <1>2, <1>7, <2>1, <2>2
  <2>4. \A i \in 1..m : getValue(f, 1 * (i - 1)) = v[i]
    <3>1. \A i \in 1..m : i = 1 \/ i = 2
      BY <1>7
    <3>2. 1 * (1 - 1) = 0 /\ 1 * (2 - 1) = 1
      OBVIOUS
    <3> QED
      BY <2>2, <3>1, <3>2
  <2>5. getNumericValues(f) = v
    BY <1>4, <2>1, <2>3, <2>4
  <2> QED
    BY <2>2, <2>5
<1>8. CASE m = 3 /\ w = <<v[1], v[2], v[3], v[3], One>> /\ ~(v[1] = v[2] /\ v[2] = v[3])
  <2>1. n = 5 /\ w[1] = v[1] /\ w[2] = v[2] /\ w[3] = v[3] /\ w[4] = v[3] /\ w[5] = One
    BY <1>1, <1>8, FiveOf
  <2>2. /\ getValue(f, 0) = v[1] /\ getValue(f, 1) = v[2] /\ getValue(f, 2) = v[3]
        /\ getValue(f, 3) = v[3] /\ getValue(f, 4) = One
    BY <1>3, <2>1
  <2>3. s = m
    <3>1. ~Same(f, {<<0, 1>>, <<1, 2>>, <<2, 3>>}) /\ Same(f, {<<2, 3>>})
      BY <1>8, <2>2, SameIs
    <3> QED
      BY <1>2, <1>8, <2>1, <2>2, <3>1 DEF SignificantOfFive
  <2>4. \A i \in 1..m : getValue(f, 1 * (i - 1)) = v[i]
    <3>1. \A i \in 1..m : i = 1 \/ i = 2 \/ i = 3
      BY <1>8
    <3>2. 1 * (1 - 1) = 0 /\ 1 * (2 - 1) = 1 /\ 1 * (3 - 1) = 2
      OBVIOUS
    <3> QED
      BY <2>2, <3>1, <3>2
  <2>5. getNumericValues(f) = v
    BY <1>4, <2>1, <2>3, <2>4
  <2> QED
    BY <2>2, <2>5
<1>9. CASE m = 4 /\ w = <<v[1], v[1], v[2], v[2], v[3], v[3], v[4], v[4]>>
  <2>1. /\ n = 8 /\ w[1] = v[1] /\ w[2] = v[1] /\ w[3] = v[2] /\ w[4] = v[2]
        /\ w[5] = v[3] /\ w[6] = v[3] /\ w[7] = v[4] /\ w[8] = v[4]
    BY <1>1, <1>9, EightOf
  <2>2. /\ getValue(f, 0) = v[1] /\ getValue(f, 1) = v[1] /\ getValue(f, 2) = v[2]
        /\ getValue(f, 3) = v[2] /\ getValue(f, 4) = v[3] /\ getValue(f, 5) = v[3]
        /\ getValue(f, 6) = v[4] /\ getValue(f, 7) = v[4]
    BY <1>3, <2>1
  <2>3. s = m
    <3>1. Same(f, {<<0, 1>>, <<2, 3>>, <<4, 5>>, <<6, 7>>})
      BY <2>2, SameIs
    <3> QED
      BY <1>2, <1>9, <2>1, <3>1
  <2>4. \A i \in 1..m : getValue(f, 2 * (i - 1)) = v[i]
    <3>1. \A i \in 1..m : i = 1 \/ i = 2 \/ i = 3 \/ i = 4
      BY <1>9
    <3>2. 2 * (1 - 1) = 0 /\ 2 * (2 - 1) = 2 /\ 2 * (3 - 1) = 4 /\ 2 * (4 - 1) = 6
      OBVIOUS
    <3> QED
      BY <2>2, <3>1, <3>2
  <2>5. getNumericValues(f) = v
    BY <1>4, <2>1, <2>3, <2>4
  <2> QED
    BY <2>2, <2>5
<1>10. CASE m = 8 /\ w = v
  <2>0. n = m
    BY <1>1, <1>10
  <2>2. getValue(f, 0) = w[1]
    BY <1>3, <1>10, <2>0
  <2>1. getValue(f, 0) = v[1]
    BY <1>10, <2>2
  <2> QED
    BY <1>1, <1>10, <2>1
<1> QED
  BY <1>1, <1>5, <1>6, <1>7, <1>8, <1>9, <1>10 DEF NumbersMeant

(* A sequence of one byte, one before three others, and those behind one.  *)
LEMMA OneByte ==
  ASSUME NEW c \in Byte, NEW o, o = <<c>>
  PROVE  o \in Seq(Byte) /\ Len(o) = 1 /\ o[1] = c
<1>1. Len(o) = 1 /\ o[1] = c
  OBVIOUS
<1>2. o \in Seq(Byte)
  OBVIOUS
<1> QED
  BY <1>1, <1>2

FourOf(y, a, b, c, d) ==
    y \in Seq(Byte) /\ Len(y) = 4 /\ y[1] = a /\ y[2] = b /\ y[3] = c /\ y[4] = d

LEMMA FirstOfFour ==
  ASSUME NEW o \in Seq(Byte), Len(o) = 1, NEW t \in Seq(Byte), Len(t) = 3
  PROVE  FourOf(o \o t, o[1], t[1], t[2], t[3])
<1>0. PICK y : y = o \o t
  OBVIOUS
<1>1. y \in Seq(Byte) /\ Len(y) = Len(o) + Len(t) /\ Begins(y, o, Len(o)) /\ Holds(y, Len(o), t)
  BY <1>0, JoinedOn
<1>2. (\A i \in 1..1 : y[i] = o[i]) /\ (\A i \in 1..3 : y[1 + i] = t[i])
  BY <1>1 DEF Begins, Holds
<1>3. y[1] = o[1]
  BY <1>2
<1>4. y[2] = t[1] /\ y[3] = t[2] /\ y[4] = t[3]
  <2>1. 1 \in 1..3 /\ 2 \in 1..3 /\ 3 \in 1..3 /\ 1 + 1 = 2 /\ 1 + 2 = 3 /\ 1 + 3 = 4
    OBVIOUS
  <2> QED
    BY <1>2, <2>1
<1>5. Len(y) = 4
  BY <1>1
<1> QED
  BY <1>0, <1>1, <1>3, <1>4, <1>5, Zenon DEF FourOf

LEMMA BeforeThree ==
  ASSUME NEW c \in Byte, NEW t \in Seq(Byte), Len(t) = 3
  PROVE  FourOf(<<c>> \o t, c, t[1], t[2], t[3])
<1>1. PICK o \in Seq(Byte) : o = <<c>> /\ Len(o) = 1 /\ o[1] = c
  BY OneByte
<1>2. FourOf(o \o t, o[1], t[1], t[2], t[3])
  BY <1>1, FirstOfFour
<1>3. <<c>> \o t = o \o t
  BY <1>1, Zenon
<1> QED
  BY <1>1, <1>2, <1>3, Zenon

LEMMA BehindOne ==
  ASSUME NEW y \in Seq(Byte), Len(y) = 4, NEW t, t = Tail(y)
  PROVE  t \in Seq(Byte) /\ Len(t) = 3 /\ t[1] = y[2] /\ t[2] = y[3] /\ t[3] = y[4]
<1>1. y # <<>>
  OBVIOUS
<1>2. t \in Seq(Byte) /\ Len(t) = Len(y) - 1 /\ \A i \in 1..Len(t) : t[i] = y[i + 1]
  BY <1>1, HeadTailProperties
<1>3. Len(t) = 3
  BY <1>2
<1>4. 1 \in 1..3 /\ 2 \in 1..3 /\ 3 \in 1..3 /\ 1 + 1 = 2 /\ 2 + 1 = 3 /\ 3 + 1 = 4
  OBVIOUS
<1>5. t[1] = y[2] /\ t[2] = y[3] /\ t[3] = y[4]
  BY <1>2, <1>3, <1>4
<1> QED
  BY <1>2, <1>3, <1>5, Zenon

(* Four bytes with another first one.                                      *)
Refirst(c, x) == <<c>> \o Tail(x)

LEMMA WithFirst ==
  ASSUME NEW x \in [1..4 -> Byte], NEW c \in Byte
  PROVE  FourOf(Refirst(c, x), c, x[2], x[3], x[4])
<1>1. PICK t : t = Tail(x)
  OBVIOUS
<1>2. x \in Seq(Byte) /\ Len(x) = 4
  <2>1. PICK k \in Nat : k = 4 /\ x \in [1..k -> Byte]
    OBVIOUS
  <2> QED
    BY <2>1, BytesOf
<1>3. t \in Seq(Byte) /\ Len(t) = 3 /\ t[1] = x[2] /\ t[2] = x[3] /\ t[3] = x[4]
  BY <1>1, <1>2, BehindOne
<1>4. FourOf(<<c>> \o t, c, t[1], t[2], t[3])
  BY <1>3, BeforeThree
<1>5. Refirst(c, x) = <<c>> \o t
  BY <1>1, Zenon DEF Refirst
<1> QED
  BY <1>3, <1>4, <1>5, Zenon

(* A word without and with its mark.                                       *)
LEMMA Unmarked ==
  ASSUME NEW x \in [1..4 -> Byte], x[1] = 0, NEW y, y = Refirst(1, x)
  PROVE  y[1] = 1 /\ <<0>> \o Tail(y) = x
<1>1. PICK o \in Byte, i \in Byte : o = 0 /\ i = 1
  BY DEF Byte
<1>2. y = Refirst(i, x)
  BY <1>1
<1>3. FourOf(y, i, x[2], x[3], x[4])
  BY <1>2, WithFirst, Zenon
<1>4. y \in [1..4 -> Byte]
  BY <1>3, LenProperties DEF FourOf
<1>6. PICK z : z = Refirst(o, y)
  OBVIOUS
<1>7. FourOf(z, o, y[2], y[3], y[4])
  BY <1>4, <1>6, WithFirst, Zenon
<1>8. FourOf(z, o, x[2], x[3], x[4])
  BY <1>3, <1>7, Zenon DEF FourOf
<1>5. z = x
  <2>1. z = [j \in 1..4 |-> z[j]] /\ x = [j \in 1..4 |-> x[j]]
    BY <1>8, LenProperties DEF FourOf
  <2>2. \A j \in 1..4 : z[j] = x[j]
    <3>1. \A j \in 1..4 : j = 1 \/ j = 2 \/ j = 3 \/ j = 4
      OBVIOUS
    <3> QED
      BY <1>1, <1>8, <3>1 DEF FourOf
  <2> QED
    BY <2>1, <2>2
<1> QED
  BY <1>1, <1>3, <1>5, <1>6, Zenon DEF Refirst, FourOf

(* The status that a device selected is read, or that it selected none.    *)
LEMMA StatusRead ==
  ASSUME NEW f, NEW w, Holding(f, w), TypeMask(f.type) = Status32, NEW V, NEW v \in Seq(V),
         StatusMeant(w, v)
  PROVE  getSelectedValues(f) = v
<1>1. PICK n \in Nat : n = Len(w) /\ n = getNumberOfValues(f) /\ DOMAIN w = 1..n
  <2>1. getNumberOfValues(f) = Len(w)
    BY NumberOfWords
  <2> QED
    BY <2>1 DEF Holding
<1>2. \A i \in 1..n : getValue(f, i - 1) = w[i]
  BY <1>1 DEF Holding
<1>3. PICK marked : marked = {i \in 0..(n - 1) : getValue(f, i)[1] = 1}
  OBVIOUS
<1>4. getSelectionIndex(f) = IF marked = {} THEN NULL
                             ELSE CHOOSE i \in marked : \A j \in marked : i <= j
  BY <1>1, <1>3 DEF getSelectionIndex
<1>5. ASSUME NEW i \in 0..(n - 1) PROVE i + 1 \in 1..n /\ getValue(f, i) = w[i + 1]
  <2>1. i + 1 \in 1..n /\ (i + 1) - 1 = i
    BY <1>1
  <2> QED
    BY <1>2, <2>1
<1>6. CASE v = <<>>
  <2>1. \A i \in 1..n : w[i][1] # 1
    BY <1>1, <1>6 DEF StatusMeant
  <2>2. marked = {}
    BY <1>3, <1>5, <2>1
  <2> QED
    BY <1>4, <1>6, <2>2 DEF getSelectedValues
<1>7. CASE v # <<>>
  <2>1. PICK x : x = v[1]
    OBVIOUS
  <2>2. Len(v) = 1 /\ x \in [1..4 -> Byte] /\ x[1] = 0
    BY <1>7, <2>1 DEF StatusMeant, FourBytes
  <2>3. PICK i \in 1..n : w[i] = Refirst(1, x) /\ \A j \in (1..n) \ {i} : w[j][1] # 1
    BY <1>1, <1>7, <2>1 DEF StatusMeant, Refirst
  <2>4. w[i][1] = 1 /\ <<0>> \o Tail(w[i]) = x
    BY <2>2, <2>3, Unmarked
  <2>5. PICK k \in 0..(n - 1) : k = i - 1 /\ getValue(f, k) = w[i]
    <3>1. i - 1 \in 0..(n - 1)
      BY <1>1
    <3> QED
      BY <1>2, <3>1
  <2>6. marked = {k}
    <3>1. ASSUME NEW j \in marked PROVE j = k
      <4>1. j \in 0..(n - 1) /\ getValue(f, j)[1] = 1
        BY <1>3
      <4>2. j + 1 \in 1..n /\ w[j + 1][1] = 1
        BY <1>5, <4>1
      <4>3. j + 1 = i
        BY <2>3, <4>2
      <4> QED
        BY <2>5, <4>1, <4>3
    <3>2. k \in marked
      BY <1>3, <2>4, <2>5
    <3> QED
      BY <3>1, <3>2
  <2>7. getSelectionIndex(f) = k
    <3>1. k <= k
      BY <2>5
    <3>2. (CHOOSE o \in {k} : \A j \in {k} : o <= j) = k
      BY <3>1
    <3> QED
      BY <1>4, <2>6, <3>2
  <2>8. getSelectedValues(f) = <<x>>
    <3>1. k # NULL
      BY <2>5 DEF NULL
    <3> QED
      BY <2>4, <2>5, <2>7, <3>1 DEF getSelectedValues
  <2>9. v = <<x>>
    BY <2>1, <2>2
  <2> QED
    BY <2>8, <2>9
<1> QED
  BY ONLY <1>6, <1>7, SMTT(30)

(* Eight bytes of yield, least significant byte first.                     *)
LEMMA YieldRead ==
  ASSUME NEW f, f.data \in Seq(Byte), Len(f.data) = 8, TypeMask(f.type) = Yield
  PROVE  getYieldValues(f) = <<Reverse(f.data)>>
<1>1. getNumberOfValues(f) = 1
  <2>1. 8 \div 8 = 1
    OBVIOUS
  <2> QED
    BY <2>1, TypesApart DEF getNumberOfValues
<1>2. PICK d \in Seq(Byte) : d = f.data /\ Len(d) = 8
  OBVIOUS
<1>3. PICK a : a = [b \in 0..7 |-> d[b + 1]]
  OBVIOUS
<1>4. getYieldValues(f) = [i \in 1..1 |-> getLittleEndian([b \in 0..7 |-> d[8 * (i - 1) + b + 1]], 0, 8)]
  BY <1>1, <1>2 DEF getYieldValues
<1>5. ASSUME NEW i \in 1..1 PROVE [b \in 0..7 |-> d[8 * (i - 1) + b + 1]] = a
  <2>1. \A b \in 0..7 : 8 * (i - 1) + b + 1 = b + 1
    OBVIOUS
  <2> QED
    BY <1>3, <2>1
<1>6. ReadBytes(a, 0, 8) = d
  <2>1. PICK k \in Nat, at \in Nat : k = 8 /\ at = 0
    OBVIOUS
  <2>2. PICK v \in [1..k -> Byte] : v = d
    BY <1>2, <2>1, LenProperties
  <2>3. \A i \in 1..k : a[(at + i) - 1] = v[i]
    <3>1. \A i \in 1..8 : i - 1 \in 0..7 /\ (0 + i) - 1 = i - 1 /\ (i - 1) + 1 = i
      OBVIOUS
    <3>2. \A i \in 1..8 : a[i - 1] = d[(i - 1) + 1]
      BY <1>3, <3>1
    <3> QED
      BY <2>1, <2>2, <3>1, <3>2
  <2>4. ReadBytes(a, at, k) = v
    BY <2>3, ReadBack
  <2> QED
    BY <2>1, <2>2, <2>4
<1>7. getLittleEndian(a, 0, 8) = Reverse(d)
  BY <1>6 DEF getLittleEndian
<1>8. getYieldValues(f) = [i \in 1..1 |-> Reverse(d)]
  BY <1>4, <1>5, <1>7
<1>9. [i \in 1..1 |-> Reverse(d)] = <<Reverse(d)>>
  OBVIOUS
<1> QED
  BY <1>2, <1>8, <1>9

(* How the values of a register are read.                                  *)
LEMMA ValuesBy ==
  ASSUME NEW f, NEW mask, mask = TypeMask(f.type)
  PROVE  /\ mask \in {Unsigned32, Signed32} => getValues(f) = getNumericValues(f)
         /\ mask = Status32 => getValues(f) = getSelectedValues(f)
         /\ mask = Yield => getValues(f) = getYieldValues(f)
         /\ mask \in {String32, Event} => getValues(f) = [i \in 1..getNumberOfValues(f) |-> f.data]
<1>1. CASE mask \in {Unsigned32, Signed32}
  BY <1>1, TypesApart DEF getValues
<1>2. CASE mask = Status32
  BY <1>2, TypesApart DEF getValues
<1>3. CASE mask = Yield
  BY <1>3, TypesApart DEF getValues
<1>4. CASE mask \in {String32, Event}
  BY <1>4, TypesApart DEF getValues
<1> QED
  BY <1>1, <1>2, <1>3, <1>4, TypesApart

(* A string and an event are one value.                                    *)
LEMMA WholeRead ==
  ASSUME NEW f, NEW mask, mask = TypeMask(f.type), NEW l, l = Len(f.data),
         (mask = Event /\ l = 44) \/ (mask = String32 /\ l = 32)
  PROVE  getValues(f) = <<f.data>>
<1>1. getNumberOfValues(f) = 1
  <2>1. CASE mask = Event /\ l = 44
    BY <2>1, TypesApart DEF getNumberOfValues
  <2>2. CASE mask = String32 /\ l = 32
    BY <2>2, TypesApart DEF getNumberOfValues
  <2> QED
    BY <2>1, <2>2
<1>2. getValues(f) = [i \in 1..1 |-> f.data]
  BY <1>1, ValuesBy
<1>3. PICK d : d = f.data
  OBVIOUS
<1>4. [i \in 1..1 |-> d] = <<d>>
  OBVIOUS
<1> QED
  BY <1>2, <1>3, <1>4

(* A register of numbers or of a status, its data and its values.          *)
LEMMA MeantWords ==
  ASSUME NEW command, NEW r \in SentRegisters, RegisterOf(command, r)
  PROVE  /\ TypeMask(r.type) \in {Unsigned32, Signed32} => NumbersMeant(DataWords(r), r.values)
         /\ TypeMask(r.type) = Status32 => StatusMeant(DataWords(r), r.values)
<1>1. CASE OfTimeline(command)
  <2>1. r.type = Event \/ r.type = Yield
    BY <1>1 DEF RegisterOf
  <2> QED
    BY <2>1, TypesApart
<1>2. CASE ~OfTimeline(command)
  <2>1. \/ TypeMask(r.type) \in {Unsigned32, Signed32} /\ NumbersMeant(DataWords(r), r.values)
        \/ TypeMask(r.type) = Status32 /\ StatusMeant(DataWords(r), r.values)
        \/ TypeMask(r.type) = String32
    BY <1>2, Zenon DEF RegisterOf
  <2> QED
    BY <2>1, TypesApart
<1> QED
  BY <1>1, <1>2

(* The values that a device meant are those that are read, but for eight   *)
(* words.                                                                  *)
LEMMA ValuesRead ==
  ASSUME NEW command, NEW r \in SentRegisters, RegisterOf(command, r), NEW f, f = Parsed(command, r)
  PROVE  Misread(r) \/ getValues(f) = r.values
<1>1. f.data = r.data /\ f.type = r.type
  BY DEF Parsed
<1>2. r.data \in Seq(Byte)
  BY RegisterIs
<1>3. PICK v \in Seq(Seq(Byte)) : v = r.values
  BY RegisterIs
<1>0. PICK w : w = DataWords(r)
  OBVIOUS
<1>4. Holding(f, w)
  BY <1>0, <1>1, WordsRead
<1>5. CASE TypeMask(r.type) \in {Unsigned32, Signed32}
  <2>1. NumbersMeant(w, v)
    BY <1>0, <1>3, <1>5, MeantWords
  <2>2. Numeric(f)
    BY <1>1, <1>5 DEF Numeric
  <2>3. Len(v) # 8 => getNumericValues(f) = v
    BY <1>4, <2>1, <2>2, NumbersRead
  <2>4. getValues(f) = getNumericValues(f)
    BY <1>1, <1>5, ValuesBy
  <2> QED
    BY <1>3, <2>3, <2>4 DEF Misread
<1>6. CASE TypeMask(r.type) = Status32
  <2>1. StatusMeant(w, v)
    BY <1>0, <1>3, <1>6, MeantWords
  <2>2. getSelectedValues(f) = v
    BY <1>1, <1>4, <1>6, <2>1, StatusRead
  <2>3. getValues(f) = getSelectedValues(f)
    BY <1>1, <1>6, ValuesBy
  <2> QED
    BY <1>3, <2>2, <2>3
<1>7. CASE OfTimeline(command) /\ CommandClass(command) = EventClass
  <2>1. r.type = Event /\ Len(r.data) = 44 /\ r.values = <<r.data>>
    BY <1>7, Zenon DEF RegisterOf
  <2>2. TypeMask(f.type) = Event
    BY <1>1, <2>1, TypesApart
  <2>3. getValues(f) = <<f.data>>
    <3>1. PICK mask, l : mask = TypeMask(f.type) /\ l = Len(f.data) /\ mask = Event /\ l = 44
      BY <1>1, <2>1, <2>2
    <3>2. (mask = Event /\ l = 44) \/ (mask = String32 /\ l = 32)
      BY <3>1
    <3>3. mask = TypeMask(f.type) /\ l = Len(f.data)
      BY <3>1
    <3> QED
      BY <3>2, <3>3, WholeRead
  <2> QED
    BY <1>1, <2>1, <2>3
<1>8. CASE OfTimeline(command) /\ CommandClass(command) # EventClass
  <2>1. r.type = Yield /\ Len(r.data) = 8 /\ r.values = <<Reverse(r.data)>>
    BY <1>8, Zenon DEF RegisterOf
  <2>2. TypeMask(f.type) = Yield
    BY <1>1, <2>1, TypesApart
  <2>3. getValues(f) = getYieldValues(f)
    BY <2>2, ValuesBy
  <2>4. getYieldValues(f) = <<Reverse(f.data)>>
    BY <1>1, <1>2, <2>1, <2>2, YieldRead
  <2> QED
    BY <1>1, <2>1, <2>3, <2>4
<1>9. CASE ~OfTimeline(command) /\ TypeMask(r.type) = String32
  <2>1. Len(r.data) = 32 /\ r.values = <<r.data>>
    <3>1. \/ TypeMask(r.type) \in {Unsigned32, Signed32} \/ TypeMask(r.type) = Status32
          \/ Len(r.data) = 32 /\ r.values = <<r.data>>
      BY <1>9, Zenon DEF RegisterOf
    <3> QED
      BY <1>9, <3>1, TypesApart
  <2>2. TypeMask(f.type) = String32
    BY <1>1, <1>9
  <2>3. getValues(f) = <<f.data>>
    <3>1. PICK mask, l : mask = TypeMask(f.type) /\ l = Len(f.data) /\ mask = String32 /\ l = 32
      BY <1>1, <2>1, <2>2
    <3>2. (mask = Event /\ l = 44) \/ (mask = String32 /\ l = 32)
      BY <3>1
    <3>3. mask = TypeMask(f.type) /\ l = Len(f.data)
      BY <3>1
    <3> QED
      BY <3>2, <3>3, WholeRead
  <2> QED
    BY <1>1, <2>1, <2>3
<1>10. ~OfTimeline(command) => \/ TypeMask(r.type) \in {Unsigned32, Signed32}
                               \/ TypeMask(r.type) = Status32 \/ TypeMask(r.type) = String32
  BY Zenon DEF RegisterOf
<1> QED
  BY <1>5, <1>6, <1>7, <1>8, <1>9, <1>10

(* What an application takes from a register that was read.                *)
Taken(r) == IF Measurable(r) THEN <<[value |-> Measured(r), time |-> r.time]>> ELSE <<>>

(* What consume takes of data of its own signature.                        *)
LEMMA ConsumedBy ==
  ASSUME NEW e, NEW f, isSameSignature(e, f), NEW mask, mask = TypeMask(e.type), NEW l \in Nat, l = Len(f.data)
  PROVE  /\ l < 20 => consume(e, f) = <<>>
         /\ l >= 20 /\ mask = Signed32 =>
                consume(e, f) = <<[value |-> NumericMeasurement(f, SignedNaN), time |-> f.time]>>
         /\ l >= 20 /\ mask = Unsigned32 =>
                consume(e, f) = <<[value |-> NumericMeasurement(f, UnsignedNaN), time |-> f.time]>>
         /\ l >= 20 /\ mask = Status32 /\ e.id = DeviceStatusId =>
                consume(e, f) = <<[value |-> StatusMeasurement(f, StatusOK), time |-> f.time]>>
         /\ l >= 20 /\ mask = Status32 /\ e.id = GridRelayId =>
                consume(e, f) = <<[value |-> StatusMeasurement(f, RelayOn), time |-> f.time]>>
         /\ mask \notin {Unsigned32, Signed32}
                /\ ~(mask = Status32 /\ e.id \in {DeviceStatusId, GridRelayId}) =>
                consume(e, f) = <<>>
<1>1. DeviceStatusId # GridRelayId
  BY DEF DeviceStatusId, GridRelayId
<1>2. CASE l < 20
  BY <1>2, TypesApart DEF consume
<1>3. CASE l >= 20 /\ mask = Signed32
  BY <1>3, TypesApart DEF consume
<1>4. CASE l >= 20 /\ mask = Unsigned32
  BY <1>4, TypesApart DEF consume
<1>5. CASE l >= 20 /\ mask = Status32 /\ e.id = DeviceStatusId
  BY <1>1, <1>5, TypesApart DEF consume
<1>6. CASE l >= 20 /\ mask = Status32 /\ e.id = GridRelayId
  BY <1>1, <1>6, TypesApart DEF consume
<1>7. CASE l >= 20 /\ mask \notin {Unsigned32, Signed32}
              /\ ~(mask = Status32 /\ e.id \in {DeviceStatusId, GridRelayId})
  BY <1>7, TypesApart DEF consume
<1> QED
  BY <1>1, <1>2, <1>3, <1>4, <1>5, <1>6, <1>7, TypesApart

(* An element takes from a register what the device meant.                 *)
LEMMA Consumed ==
  ASSUME NEW command, NEW r \in SentRegisters, RegisterOf(command, r), NEW f, f = Parsed(command, r),
         NEW e, e = [x \in {"command", "id", "conn", "type"} |-> f[x]]
  PROVE  consume(e, f) = Taken(r)
<1>1. f.data = r.data /\ f.type = r.type /\ f.id = r.id /\ f.time = r.time
  BY DEF Parsed
<1>2. isSameSignature(e, f) /\ e.type = r.type /\ e.id = r.id
  BY <1>1 DEF isSameSignature
<1>3. PICK l \in Nat : l = Len(r.data)
  BY RegisterIs
<1>4. PICK mask : mask = TypeMask(r.type)
  OBVIOUS
<1>5. PICK v \in Seq(Seq(Byte)) : v = r.values
  BY RegisterIs
<1>6. PICK w : w = DataWords(r)
  OBVIOUS
<1>7. Holding(f, w)
  BY <1>1, <1>6, WordsRead
<1>8. mask \in {Unsigned32, Signed32} => getValue(f, 0) = v[1]
  <2>1. ASSUME mask \in {Unsigned32, Signed32} PROVE getValue(f, 0) = v[1]
    <3>1. NumbersMeant(w, v)
      BY <1>4, <1>5, <1>6, <2>1, MeantWords
    <3>2. Numeric(f)
      BY <1>1, <1>4, <2>1 DEF Numeric
    <3> QED
      BY <1>7, <3>1, <3>2, NumbersRead
  <2> QED
    BY <2>1
<1>9. mask = Status32 => getSelectedValues(f) = v
  <2>1. ASSUME mask = Status32 PROVE getSelectedValues(f) = v
    <3>1. StatusMeant(w, v)
      BY <1>4, <1>5, <1>6, <2>1, MeantWords
    <3> QED
      BY <1>1, <1>4, <1>7, <2>1, <3>1, StatusRead
  <2> QED
    BY <2>1
<1>10. mask = TypeMask(e.type) /\ l = Len(f.data)
  BY <1>1, <1>2, <1>3, <1>4
<1>11. Measurable(r) <=> l >= 20 /\ (mask \in {Unsigned32, Signed32}
                                        \/ (mask = Status32 /\ r.id \in {DeviceStatusId, GridRelayId}))
  BY <1>3, <1>4 DEF Measurable
<1>12. CASE l < 20
  <2>1. ~Measurable(r)
    BY <1>11, <1>12
  <2> QED
    BY <1>2, <1>10, <1>12, <2>1, ConsumedBy DEF Taken
<1>13. CASE mask \notin {Unsigned32, Signed32} /\ ~(mask = Status32 /\ r.id \in {DeviceStatusId, GridRelayId})
  <2>1. ~Measurable(r)
    BY <1>11, <1>13
  <2>2. consume(e, f) = <<>>
    BY <1>2, <1>10, <1>13, ConsumedBy
  <2> QED
    BY <2>1, <2>2 DEF Taken
<1>14. CASE l >= 20 /\ mask = Signed32
  <2>1. Measurable(r)
    BY <1>11, <1>14
  <2>2. Measured(r) = IF v[1] = SignedNaN THEN Zeros(4) ELSE v[1]
    BY <1>4, <1>5, <1>14, TypesApart DEF Measured
  <2>3. NumericMeasurement(f, SignedNaN) = Measured(r)
    BY <1>8, <1>14, <2>2 DEF NumericMeasurement
  <2>4. consume(e, f) = <<[value |-> NumericMeasurement(f, SignedNaN), time |-> f.time]>>
    BY <1>2, <1>10, <1>14, ConsumedBy
  <2> QED
    BY <1>1, <2>1, <2>3, <2>4 DEF Taken
<1>15. CASE l >= 20 /\ mask = Unsigned32
  <2>1. Measurable(r)
    BY <1>11, <1>15
  <2>2. Measured(r) = IF v[1] = UnsignedNaN THEN Zeros(4) ELSE v[1]
    BY <1>4, <1>5, <1>15, TypesApart DEF Measured
  <2>3. NumericMeasurement(f, UnsignedNaN) = Measured(r)
    BY <1>8, <1>15, <2>2 DEF NumericMeasurement
  <2>4. consume(e, f) = <<[value |-> NumericMeasurement(f, UnsignedNaN), time |-> f.time]>>
    BY <1>2, <1>10, <1>15, ConsumedBy
  <2> QED
    BY <1>1, <2>1, <2>3, <2>4 DEF Taken
<1>16. CASE l >= 20 /\ mask = Status32 /\ r.id = DeviceStatusId
  <2>1. Measurable(r)
    BY <1>11, <1>16
  <2>2. Measured(r) = Uint32(IF v = <<StatusOK>> THEN 1 ELSE 0)
    BY <1>4, <1>5, <1>16, Zenon DEF Measured
  <2>3. StatusMeasurement(f, StatusOK) = Measured(r)
    BY <1>9, <1>16, <2>2, Zenon DEF StatusMeasurement
  <2>4. consume(e, f) = <<[value |-> StatusMeasurement(f, StatusOK), time |-> f.time]>>
    BY <1>2, <1>10, <1>16, ConsumedBy
  <2> QED
    BY <1>1, <2>1, <2>3, <2>4, Zenon DEF Taken
<1>17. CASE l >= 20 /\ mask = Status32 /\ r.id = GridRelayId
  <2>1. Measurable(r)
    BY <1>11, <1>17
  <2>2. Measured(r) = Uint32(IF v = <<RelayOn>> THEN 1 ELSE 0)
    <3>1. r.id # DeviceStatusId
      BY <1>17 DEF DeviceStatusId, GridRelayId
    <3> QED
      BY <1>4, <1>5, <1>17, <3>1, Zenon DEF Measured
  <2>3. StatusMeasurement(f, RelayOn) = Measured(r)
    BY <1>9, <1>17, <2>2, Zenon DEF StatusMeasurement
  <2>4. consume(e, f) = <<[value |-> StatusMeasurement(f, RelayOn), time |-> f.time]>>
    BY <1>2, <1>10, <1>17, ConsumedBy
  <2> QED
    BY <1>1, <2>1, <2>3, <2>4, Zenon DEF Taken
<1>18. l < 20 \/ l >= 20
  OBVIOUS
<1> QED
  BY <1>12, <1>13, <1>14, <1>15, <1>16, <1>17, <1>18

=============================================================================
