----------------------------- MODULE MCPackets -----------------------------
(* Inputs for SpeedwirePackets: addresses, replies as devices send them    *)
(* and obis elements of every length.                                      *)
EXTENDS SpeedwirePackets

MCAddresses == {[susyID |-> <<0, 125>>, serialNumber |-> <<58, 40, 190, 82>>],
                [susyID |-> <<1, 122>>, serialNumber |-> <<179, 113, 42, 132>>]}
MCPacketIDs == {<<128, 1>>}
MCIps == {<<192, 168, 1, 7>>}
MCPasswords == {<<>>, <<48, 48, 48, 48>>, [i \in 1..17 |-> 96 + i]}

A == <<0, 0, 1, 24>>
B == <<0, 0, 1, 30>>
Now == <<95, 233, 167, 97>>

MCBehind == [i \in 1..BehindBytes |-> 100 + i]

(* A register with its data words and the values they mean.                *)
Register(type, id, conn, words, values) ==
    [type |-> type, id |-> id, conn |-> conn, time |-> Now,
     data |-> FlattenSeq([i \in DOMAIN words |-> Reverse(words[i])]), values |-> values]

Power == <<0, 37, 30>>

(* Numbers as documented for getNumberOfSignificantValues: history values, *)
(* one or three measurement values, settings with a range.                 *)
History(v, w) == Register(Unsigned32, Power, 1, <<v, w>>, IF w = Zeros(4) THEN <<v>> ELSE <<v, w>>)
Single(type, v) == Register(type, Power, 1, <<v, v, v, v, One>>, <<v>>)
Triple(a, b, c) == Register(Signed32, Power, 2, <<a, b, c, c, One>>, <<a, b, c>>)
Range4(a, b, c, d) == Register(Unsigned32, Power, 7, <<a, a, b, b, c, c, d, d>>, <<a, b, c, d>>)
(* The answer of an inverter as documented for unicast_request: eight      *)
(* words, of which the last four are no pairs.                             *)
Found == [i \in 1..8 |-> <<<<0, 0, 0, 0>>, <<1, 122, 0, 1>>, <<179, 113, 42, 132>>, <<0, 10, 0, 0>>,
                          <<0, 0, 0, 12>>, <<0, 0, 0, 0>>, <<0, 0, 0, 0>>, <<0, 0, 1, 1>>>>[i]]
FoundDevice == [Register(Unsigned32, <<0, 0, 3>>, 0, Found, Found) EXCEPT !.time = <<0, 0, 255, 0>>]
Marked(v) == <<1>> \o Tail(v)
Status(id, words, selected) == Register(Status32, id, 1, words, selected)

Text == [i \in 1..32 |-> 64 + (i % 26)]
Named == [type |-> String32, id |-> <<0, 130, 30>>, conn |-> 1, time |-> Now,
          data |-> Text, values |-> <<Text>>]

Timed(command, type, values, bytes) ==
    [type |-> type, id |-> SubSeq(command, 1, 3), conn |-> 0, time |-> Now,
     data |-> bytes, values |-> values]

Reply(kind, command, first, registers, unused) ==
    [kind |-> kind, command |-> command, first |-> first, registers |-> registers, unused |-> unused]
Answer(command, registers, unused) == Reply("reply", command, Power \o <<0>>, registers, unused)

AcReply == <<81, 0, 2, 1>>
Events == <<112, 16, 2, 1>>
Yields == {<<112, 0, 2, 1>>, <<112, 32, 2, 1>>}

Measurements == {Single(Signed32, A), Single(Signed32, SignedNaN), Single(Unsigned32, UnsignedNaN),
                 Triple(A, B, A), Triple(A, A, B), Triple(B, A, A)}
Open == <<0, 0, 1, 55>>
None == Zeros(4)
Never == <<0, 255, 255, 254>>
Relays == {Status(GridRelayId, <<Marked(RelayOn), Open, <<0, 255, 255, 253>>, Never, None, None, None, None>>,
                  <<RelayOn>>),
           Status(GridRelayId, <<RelayOn, Marked(Open), Never, None, None, None, None, None>>, <<Open>>),
           Status(GridRelayId, <<RelayOn, Open, Never, None, None, None, None, None>>, <<>>),
           Status(DeviceStatusId, <<Marked(StatusOK), Never, None, None, None, None, None, None>>, <<StatusOK>>)}
Settings == {Range4(Zeros(4), UnsignedNaN, A, A), Range4(A, B, A, Zeros(4))}

MCRegisters ==
    {Answer(AcReply, <<r>>, 0) : r \in Measurements \cup Relays \cup Settings \cup {Named}}
    \cup {Answer(AcReply, <<r, s>>, 0) : r, s \in {History(A, Zeros(4)), History(B, A)}}
    \cup {Answer(AcReply, <<r, s, Triple(A, A, B)>>, 0) : r, s \in Measurements}
    \cup {Answer(AcReply, <<r, s>>, 1) : r, s \in Measurements}
    \cup {Answer(AcReply, <<r>>, 1) : r \in Relays}
    \cup {Answer(c, <<Timed(c, Yield, <<Zeros(4) \o v>>, Reverse(v) \o Zeros(4)),
                      Timed(c, Yield, <<v \o A>>, Reverse(A) \o Reverse(v))>>, unused) :
              c \in Yields, v \in {A, B}, unused \in {0, 2}}
    \cup {Answer(Events, <<Timed(Events, Event, <<[i \in 1..44 |-> i]>>, [i \in 1..44 |-> i])>>, 0)}
    \cup {Reply("unicast_response", <<0, 0, 2, 1>>, Zeros(4), <<r>>, 0) : r \in {FoundDevice, Named}}

(* Datagrams with a data2 tag of length bytes, body and then zeros, and    *)
(* with an end-of-data tag or none.                                        *)
Data2Datagram(body, length, eod) ==
    sma_signature \o GroupTag(Group1) \o TagBytes(sma_tag_data2, SubSeq(body \o Zeros(length), 1, length))
        \o (IF eod THEN EndTag ELSE <<>>)
InverterBody == <<96, 101, 0, 160>>
Identified(first, last) == InverterBody \o Zeros(26) \o Reverse(first) \o Reverse(last)
EmeterBody == <<96, 105>>
ExtendedBody == <<96, 129, 0, 3>>
Longest == <<0, 1, 255, 0>>

MCDatagrams ==
    {Data2Datagram(InverterBody, n, TRUE) \o Zeros(16) : n \in {2, 22, 30, 37, 38, 41}}
    \cup {Data2Datagram(Identified(A, A) \o [i \in 1..11 |-> 1], n, eod) : n \in {48, 49, 50}, eod \in BOOLEAN}
    \cup {Data2Datagram(Identified(A, B) \o [i \in 1..84 |-> 1], 122, TRUE),
           Data2Datagram(Identified(B, A) \o [i \in 1..84 |-> 1], 122, TRUE)}
    \cup {Data2Datagram(EmeterBody, n, eod) : n \in {2, 11, 12, 14, 16, 20}, eod \in BOOLEAN}
    \cup {Data2Datagram(EmeterBody \o Zeros(10) \o e, 40, TRUE) :
              e \in {Longest, Zeros(4) \o Longest, <<144, 0, 0, 0, 1, 2, 3, 4, 0, 1, 16, 0>>}}
    \cup {Data2Datagram(ExtendedBody, n, TRUE) : n \in {2, 3, 4, 14, 18}}
    \cup {Data2Datagram(<<1>>, 1, TRUE), Zeros(20), <<83, 77>>, sma_signature \o Uint16(40) \o Uint16(672)}

MCElements ==
    {[channel |-> 0, index |-> 1, type |-> 4, tariff |-> 0, value |-> <<0, 0, 16, 4>>],
     [channel |-> 0, index |-> 1, type |-> 8, tariff |-> 0, value |-> <<0, 0, 0, 1, 0, 0, 2, 8>>],
     [channel |-> 0, index |-> 13, type |-> 7, tariff |-> 0, value |-> <<0, 0, 3, 232>>],
     [channel |-> 144, index |-> 0, type |-> 0, tariff |-> 0, value |-> <<2, 3, 4, 82>>]}

=============================================================================
