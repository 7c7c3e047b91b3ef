# A verification model of libspeedwire

libspeedwire is a C++ library that talks to SMA energy meters and inverters over
the Speedwire protocol (UDP multicast and unicast). This directory holds TLA+
modules that model its stateful parts, TLC configurations that check them on
small instances, and TLAPS proofs for every value of the constants.

Paths are relative to the repository; `cpp` and `hpp` files are those under
`src/` and `include/`.

## 1. The system

| Component | State | Operations | Talks to |
|---|---|---|---|
| `RingBuffer` (hpp) | elements, capacity, write pointer, a doubled vector of pointers | add, remove a range, clear, set maximum, `at`, `operator[]`, index conversions, copy | holds the values of `MeasurementValues` |
| `SpeedwireCommand` + `SpeedwireCommandTokenRepository` | vector of tokens, static packet id, `needs_login` | queries (synchronous: send, wait for the reply; asynchronous: send only), `receiveResponse`, `findCommandToken`, `checkReply`, `expire` | sockets, packet receivers of the application |
| `SpeedwireAuthentication` | its command's repository | login, logoff, to one device or to all | `SpeedwireCommand` |
| `SpeedwireDevice` list | list of devices, announced or known | pre-register, require, register, unregister | filled by discovery |
| `SpeedwireDiscovery` | four counters, retries, timers | `discoverDevices`: send, poll, evaluate, complete | device list, `SpeedwireCommand::queryDeviceType` |
| `SpeedwireReceiveDispatcher` | list of receivers, poll structures | register a receiver, `dispatch` | sockets, packet receivers |
| `ObisFilter`, packet receivers | filter map of measurements | `addFilter`, `receive`, `consume` | dispatcher, producers and consumers |
| `AveragingProcessor` | per device: remaining time, newest time, decision | `consume`, `endOfObisData`, `endOfSpeedwireData` | `ObisFilter`, next consumer |
| `CalculatedValueProcessor` | maps of measurements, the time fed last | derives values when a packet is complete, feeds segments | averaging processor, `LineSegmentEstimator` |
| `MeasurementValues`, `LineSegmentEstimator` | a ring buffer of timed values | search, interpolation, means, regression, segmentation | `RingBuffer`, `SpeedwireTime` |
| `SpeedwireTime` | none | 32 bit differences, expansion to 64 bits, conversions | used by filters, processors and searches |
| `SpeedwireSocketFactory`, `SpeedwireSocket`, `SpeedwireSocketSimple` | the open sockets, a shared counter per socket | opening by strategy, choice by interface and direction, copy, close, destroy | everything that sends |
| `LocalHost` | interfaces, prefix lengths | matching of an address to an interface, clocks | everything |
| `AddressConversion` | none | masks, subnets, parsers of uris, socket addresses | `LocalHost`, commands |
| protocol headers: `SpeedwireHeader`, `SpeedwireData2Packet`, `SpeedwireTagHeader`, the emeter, inverter, discovery and encryption protocols, `SpeedwireByteEncoding` | none (views on a packet) | fields, validity checks, walks over tags, obis elements and registers | everything |
| data definitions: `SpeedwireData`, `ObisData`, `MeasurementType` | tables | values of a register, bytes of an element, look-up, formatting | protocols, filters |
| logging | listeners | formatting | |

The library starts no thread. All operations run on the caller's thread, so
what is nondeterministic is the network, the clock, and the order in which the
application calls. Behaviour that is hard to get right:

* replies that are late, repeated, foreign or lost, against a packet id that
  turns over;
* tokens that are addressed by a position in a vector from which others erase;
* loops over a vector that change the vector (`expire`, `registerDevice`,
  `completeDeviceInformation`);
* a discovery that is steered by four counters, a retry count and a wait time
  that packets from the network use up;
* sockets whose descriptor is shared by copies, counted, and closed by the last;
* packets that are received into memory that holds an earlier one, and read by
  code that is told the size of the memory instead of that of the packet;
* device times of 32 bits, in milliseconds or seconds, that turn over at
  different moments, and measurements that are combined by time;
* a ring buffer whose size, capacity, write pointer and pointer vector have to
  fit each other through overwriting, removal, growing and copying;
* unsigned arithmetic that turns over.

`PROJECT.json` lists each hazard with its line and the properties that cover it.

## 2. Modules

```
BoundedHistory <- refined by - RingBuffer
                                  ^
SpeedwireTime, LineSegmentEstimator <- MeasurementValues        <- MCMeasurementValues
       ^                                      ^
       +------- MeasurementLemmas <- MeasurementProofs
                                              v
SpeedwireTime <- ObisFilter <- CalculatedValueProcessor  <- MeasurementPipeline <- MCPipeline
SpeedwireTime <- AveragingProcessor                      <-/

AddressConversion <- LocalHost       \
                     SpeedwireSocket <- SpeedwireSocketFactory  <- MCSockets
                                              ^
                                     CommunicationProofs
                                              v
                  TokenRepository <- SpeedwireCommand           <- MCSpeedwireCommand

                                           / SpeedwireInverterProtocol <- SpeedwireDiscoveryProtocol, SpeedwireData
SpeedwireByteEncoding <- SpeedwireHeader <-  SpeedwireEmeterProtocol
                                           \ SpeedwireEncryptionProtocol
        all of these <- SpeedwirePackets                        <- MCPackets
                              ^ SpeedwirePacketLemmas <- SpeedwirePacketsProofs

DeviceRegistry                                                  <- MCDeviceRegistry
      ^       ^ DeviceRegistryProofs
      |                 ^ used by SpeedwireDiscoveryProofs
      used and refined by SpeedwireDiscovery                    <- MCSpeedwireDiscovery

ReceiveDispatcher                                               <- MCReceiveDispatcher
      ^ ReceiveDispatcherProofs
```

An arrow points to the module that is extended; only the two refinements, the
use of the registry's theorems by those of the discovery, and that of
`MeasurementLemmas`' induction and recursion by `CommunicationProofs` and
`SpeedwirePacketLemmas` are INSTANCEs. Components whose proofs share lemmas
have one module of proofs: `MeasurementProofs` is about the values and the
pipeline that fills them, `CommunicationProofs` about sockets and commands.
Where such modules meet, specifications are told apart by their names: `Spec`
belongs to the ring buffer or the commands, `AveragingSpec`, `PipelineSpec`,
`SocketsSpec` and `PacketsSpec` to the others.

Operators that are introduced by a comment `Mutant:` are plausible faults of the
definition below them. No specification uses them; they serve to show that the
properties notice such faults.

### RingBuffer

`data_vector`, `size`, `capacity`, `ref_vector`, `ref_size` and `write_pointer`
are the members of the class. A pointer is the allocation it points into and an
index; an allocation is identified by its capacity, since `std::vector`
reallocates only to grow. Each method that changes the buffer is one action.
`removeElements` reads the surviving elements through `at`, as the code does,
so that a stale pointer would show in the result. `size_t` has `SizeMax` values.
`copyOfEmpty` is the copy that `ObisFilter::addFilter` makes: capacity 0 and
pointers into the original object.

`BoundedHistory` is the promise: a sequence of the latest values, oldest first.
`ImplementsHistory` maps `hist` to what `operator[]` reads.

Left out: a sum of offset and count beyond `size_t` in `removeElements` (then
elements would be added a second time; the only caller in the library passes 0
and a valid index plus one), and copies of buffers that hold elements (their
pointers would lead into the original; nothing in the library makes one). A
smaller maximum than the present capacity has no effect in the code, nor in the
model: `BoundedHistory!Resize` only grows.

### MeasurementValues, LineSegmentEstimator, SpeedwireTime

Operators on the ring buffer's state: `MeasurementValues` extends `RingBuffer`,
whose `Values` become records of a time and a value, and reads through `at`
wherever the code does. `SpeedwireTime` has the differences and conversions in
words of `TimeMax` and `EpochMax` values. A double is the exact fraction it
stands for, so that least squares, variance and interpolation can be compared
with their definitions; sums are taken turn by turn (`SumOver`), as the loops do;
rounding is not modelled. `LineSegmentEstimator` keeps
which elements are read and which change points a pass can produce; the outcome
of each comparison of variances is free.

### ObisFilter, AveragingProcessor, CalculatedValueProcessor, MeasurementPipeline

`MeasurementPipeline` composes the three along the calls of a packet receiver:
`receiveEmeterPacket` and `receiveReply` put a packet in work, `consumeObis` and
`consumeSpeedwire` pass one element each, `endOfPacket` is the closing call.
Packets come from any device at any time; not sending one is its loss. `clock` is
the epoch time; devices are synchronised with it, as `SpeedwireTime` assumes.
`ObisFilter` keeps one bounded history of measurements per obis type, for all
emeters together, as the code does. `AveragingProcessor` has its own `AveragingSpec`, in
which any device delivers any time. `decided`, `began`, `latest`, `late` and
`received` are history variables or bounds. The application sets up its filters
(`configure`) before it listens.

Times of 32 bits turn over. A device that is silent for a whole turn (`late`)
loses that turn, and a value that is half a turn old cannot be told from one of
the future; `PaceKept`, the two properties of the household's power and
`FeedCoversOnce`, of a buffer that spans half a turn, leave these out.

A text element of the filter stores no measurement, so the newest time of its
buffer is 0 and the averaging timer jumps; `BlocksWhole` and `PaceKept` therefore
exclude filters with text elements.

### AddressConversion, LocalHost, SpeedwireSocket, SpeedwireSocketFactory

Addresses have two octets of `OctetBits` bits. `AddressConversion` has the masks,
subnets and the parsers of uris, whose text is a sequence of tokens.
`LocalHost` caches the interfaces of a host out of `Hosts` and matches peers to
them. `SpeedwireSocket` has the operating system's table of descriptors (`os`),
the shared counters (`counters`, one cell per socket that is constructed) and the
calls that change them; an open may fail at each of its steps, and a descriptor
that is neither closed nor returned becomes `Lost`. `SpeedwireSocketFactory`
composes them: the constructor opens its entries one by one, and holders copy,
close, reopen and drop what they got in any order. `misused` marks states after
somebody closed a socket that others share; the run does not go beyond these,
the theorems do. `held` has the sockets outside of the factory by their holders,
and what getRecvSockets returns is the set of the polled sockets.

### SpeedwirePackets and the protocol modules

Here a packet is its bytes. Each protocol module has the offsets, the getters and
setters and the walks of its class, and `SpeedwirePackets` lets a packet be
assembled, sent, received into a memory area with leftovers, whole or cut short,
and read. A walk over tags, obis elements or registers is `Walk`: the sequence of
places from the first one on, each by the class's step to the next; a search takes the
first place of it that matches (`FirstStop`). A sender sets the fields of a packet
one after the other; since they do not overlap, `setFields` is one step.

Replies with registers and encryption packets come from devices, and
`SendDatagram` sends any bytes, so their senders are external; all others are
assembled as the library does. `sent`
is a ghost that tells what the sender meant: the kind of the packet, the value of
each field, and its parts (password, seed, obis elements, or the reply with its
registers and the number of unused ones behind them).

`PacketsAssumption` says what may be sent. The widths of addresses, packet ids
and of an obis element's value are those of the fields; each packet fits
`BufferSize`, the memory of the receiver, which itself is no longer than a
datagram. Of the bytes of other datagrams nothing is assumed. `ReplyOfDevice` is what the library presumes of a device that answers:
that it marks the command as answered, numbers the registers within four bytes, and
counts long words in one byte. `RegisterOf` has the layouts of a register's data
that `SpeedwireData` distinguishes, and which values a device means by them
(`NumbersMeant`, `StatusMeant`, texts, events and yields).

Sizes are unsigned, as in the code. `Payload` subtracts the header of a data2
tag from its length as an `unsigned long`, and `getRawDataLength` the fields of an
inverter packet from that as a `uint32_t` (`UINT32_RANGE` values); both wrap
around for a tag that is too short. `DataByte` yields `Behind`, any bytes, for
what is read beyond the 44 bytes of a register's data.

`ReadersStayInside` says where walks stay inside of the received bytes whatever
these are: always over tags, over registers and obis elements unless the data2
tag is too short for its own header (then the wrapped size holds back nothing),
and over the first obis element, whose own length nobody checks, in packets of
meters. Also left out are fields and a first element that would begin beyond the
end of the receiver's memory. Those cases are reported in section 5.

### TokenRepository, SpeedwireCommand

`TokenRepository` has the operations on the token vector and the unsigned
arithmetic. `SpeedwireCommand` models the calls. `op` says which call is in
progress; while it is a synchronous one, only the steps of its receive loop, the
clock and the network act, because the caller's thread is inside of it. There is
no channel: in every state the reply to each of the last `MaxDelay` commands may
arrive, any number of times or never, as may replies to other hosts' commands
with any packet id. That includes loss, duplication, delay and reordering.

| Action | Code |
|---|---|
| `sendQueryRequest`, `sendLoginRequest`, `sendLogoffRequest` | the asynchronous methods |
| `query`, `login`, `queryDeviceType` | the synchronous methods, up to the receive loop |
| `receive`, `receiveUnrelated`, `receiveFailure`, `giveUp` | one turn of the loop in `receiveResponse` and, at its end, what the caller does with the result, the second `remove` included |
| `handleReply` | an application's receiver: `findCommandToken`, `checkReply`, `remove` |
| `expire`, `expireStep`, `clear` | the repository's methods; `expireStep` is one turn of the loop |
| `tick` | the clock |

`issued`, `sent`, `time`, `wait_cid`, `ret` and the token fields `cid`, `born`,
`handle` are history variables that the properties use. `queryDeviceType` goes
on with token index -1 after a failed send, as in the code. A read through an
index that is out of range may yield anything, so `receive` may then accept or
skip.

### DeviceRegistry, SpeedwireDiscovery

`DeviceRegistry` is the list of devices with its four public operations and the
loops that erase entries, one erase per step. A record has the susy id, serial
number, ip address and interface; class and model are one flag.

`SpeedwireDiscovery` is the state machine of `discoverDevices`. `phase` is the
place in the code: `loop` (the loop condition), `send` (the `for` loop over
`num_sends`, one action for each branch of `sendNextDiscoveryPacket`), `poll`
(`pollSockets`, one packet or the final timeout per step), and `complete` and
`query` (the loop of `completeDeviceInformation`). Time is counted in units of
the shorter poll timeout and capped at the maximum wait time. The list is changed
through the actions of `DeviceRegistry`, and `ImplementsRegistry` states that
every step of discovery is a step of `DeviceRegistry` or leaves the list alone.

`quiet` is a history variable: no packet of this call came later than
`MaxWait - LongPoll - ShortPoll` (1790 ms in the code) after the request before
it. Without it `ScanCovers`, `RoundsComplete` and `AnnouncedAsked` do not hold,
because each packet starts `poll` again, the wait time counts from the last
request, and so traffic can end a call before its next round.

### ReceiveDispatcher

One `dispatch` call, socket by socket: `dispatch` (up to `poll`, whose result is
kept in `ready`), `receive` and `receiveFails` (one `recvfrom` and the validity
checks), `deliver` (one receiver's callback), `nextSocket`. `queue` is what the
operating system holds for each socket, and packets arrive at any time. A packet
is of one of the five kinds that the checks tell apart, and has an end-of-data tag
or none (`whole`). `buffer` is `udp_packet`: all sockets share it, it is not
initialized, and a failed `recvfrom` leaves it as it was while the code goes on to
evaluate it. Its result -1 is taken as an unsigned size, which passes every
check: the walk over the tags ends at an end-of-data tag, or else goes on into
what lies behind the packet. `Evaluations` has the outcomes: a packet with that tag
is what it was, for it is found to be so in front of the tag; another one, and
a buffer without a packet, may be taken for anything. `seen` is what the packet in
delivery was taken for. `reread`, `taken`, `read`, `counted`, `delivered` and
`failures` are history variables.

`CallAccounted` accounts for each call: what it counted, that a call without an
error has read every ready socket, that one with an error has stopped at a
malformed packet with every socket before it read, and that those behind it still
have their packets for the next call.

## 3. Runs

| Run | Expected | Shows |
|---|---|---|
| `measurements` | pass | the buffer is consistent and refines the bounded history; checked and unchecked reads agree; search, interpolation, regression, variance and segmentation are right wherever ring and time turn over |
| `pipeline` | pass | timers keep pace with each device; packets pass as a whole; signed values combine values of one packet, the household's power values of one time; each measurement is fed once; times expand to the nearest epoch |
| `sockets` | pass | descriptors, counters and live sockets stay in step; the discovery polls every socket it sends from; requests leave by their interface and none by another; uris come apart; peers are assigned by subnet |
| `packets` | pass | each packet is recognised as what it is and as nothing else; readers stay inside of the received bytes, of malformed datagrams too but for the exceptions above, and ignore leftovers; fields, elements and registers come out as they were meant, but for the values of eight words not in pairs |
| `command` | pass | tokens stay ordered; a waiting call's token is the last one; packet ids in use differ; an accepted reply is the answer to the token's command; calls and `expire` remove only what they should; every call returns |
| `command_wrap` | violation | a token whose command was never answered takes a later command's reply after the packet id turned over |
| `command_devicetype` | violation | `queryDeviceType` waits with index -1 after a failed send |
| `registry` | pass | no duplicates, announcements disappear when answered, knowledge is kept |
| `registry_duplicates` | violation | a device without a matching interface is appended again with every packet |
| `discovery` | pass | scan, rounds and announced devices are complete unless traffic cuts the call short; discovery refines the registry; it returns |
| `discovery_iterators` | violation | the loop of `completeDeviceInformation` appends to the list it iterates over |
| `dispatcher` | pass | receivers get the packets of their protocol, and others only when a failed `recvfrom` has a packet without an end-of-data tag evaluated again; each failure repeats one packet at most; each call's count, sockets and error are accounted for; `dispatch` returns |

Several properties are conjunctions of named parts; the modules comment each part:
`BufferConsistent`, `SegmentsSound`, `PipelineConsistent`, `HouseholdMatched`,
`SocketsAccounted`, `ReadersStayInside`, `RegistersUnderstood`,
`TokensConsistent`, `ListConsistent`, `LoopCovers` and `CallAccounted`.

The violations are described, with the documentation they contradict, under
`findings` in `PROJECT.json`.

### Bounds

* `measurements`: capacities 0, 1, 3 and 4, a `size_t` of 4 bits, times of 3
  bits and values that make the estimates differ. Capacity 4 has a full buffer
  with the write pointer at its start, middle and end; growing from 0 passes
  through the reallocating steps; three bits let the time turn over inside of a
  buffer. Segmentation is checked for all sizes up to 13, beyond the four
  values of a window and the two windows of a segment, and for all outcomes of
  the comparisons.
* `pipeline`: two emeters (interchangeable, so symmetry is used), a pv and a
  battery inverter, a clock of 4 bits that turns over between its start and its
  end, two milliseconds per second so that the two clocks turn over at different
  moments, averaging times of 3 and 1, buffers of six. `MaxPackets` counts an
  inverter's reply as `ReplyCost` packets: seven emeter packets overwrite the
  ring, and one reply fits with three emeter packets.
* `sockets`: hosts with no, one and three addresses (one of them IPv6), all four
  strategies, three descriptors, two holders of copies (interchangeable, so
  symmetry is used), addresses of two octets of two bits. The third socket of the host with three addresses meets a full table.
* `packets`: memory of 160 bytes, receive sizes that cut a packet in its tags,
  in its fields and in its data; rooms for none to three elements, those of 0 and
  3 bytes without space for a head; the layouts of registers in `RegisterOf`, the
  documented answer to unicast discovery with eight words not in pairs among
  them. `MCDatagrams` has data2 tags too short for their header, for the fields, for
  the first register or for the first element, with and without an end-of-data
  tag, sizes that the registers do not divide, elements longer than the packet,
  and bytes that are no packet. `UINT32_RANGE` is 32768, for TLC's numbers have 31
  bits and `ULONG_RANGE` is its square; no size but a wrapped one comes near it.
* `command`: two devices, one of them on an interface without a socket, the
  broadcast address, two packet ids, three commands, replies up to one command
  late, a clock of three values that advances twice from any start, one skipped
  packet per call. The third command has the packet id of the first, and the
  clock turns over, so both counters meet old tokens after their turn. What
  holds here for `MaxDelay < NumIds` is proved for all such values.
* `command_wrap`, `command_devicetype`: three packet ids, so
  that the counterexamples do not come from the smallest possible counter.
* `registry`: two ip addresses, one beyond all local subnets, three devices of
  which two share an address, up to five entries. `Sockets` has no entry for
  "any interface", which makes every record complete. `registry_duplicates` adds
  it, as Linux hosts with one multicast socket for all interfaces have it.
* `discovery`: three interfaces, of which the second is too large for a scan;
  hosts 1..2 and 1..3 on the others, two retries (code: 3), bursts of two (10),
  wait time of 5 short polls, long poll of 2. Up to three packets per poll, which
  suffices for traffic to end a call early.
* `dispatcher`: two sockets, two receivers of any protocols, two packets of any
  kind with an end-of-data tag, or delivered or rejected ones without it, one
  failure of `recvfrom`. Two packets are what it takes for one to be
  evaluated in place of another, within a call or across two calls.

Symmetry is used by `pipeline` (emeters) and `sockets` (holders) only; the other runs check liveness or refinement,
or have no interchangeable values.

### Fairness

* `SpeedwireCommand`: weak fairness of the receive loop and of `expire`'s loop.
  The caller's thread is inside of the loop and `poll` returns after its timeout
  at the latest. Nothing makes the network deliver a reply. The number of
  unrelated packets in a row is bounded by `MaxNoise`: with an unlimited stream
  of them the loop in the code does not return, since each packet starts the
  full timeout again.
* `SpeedwireDiscovery`: weak fairness of the steps of a call in progress, for
  the same reason, with `MaxPackets` as the bound of packets per poll.
* `ReceiveDispatcher`: weak fairness of the steps of a `dispatch` in progress.
  Nothing makes packets arrive or the application call again.

Deadlock is checked except for `pipeline`, `sockets`, `packets` and the command
runs, whose bounds on packets, descriptors, commands and time let the model stop.

## 4. Proofs

All theorems hold for every value of the constants that satisfies the modules'
assumptions.

* `MeasurementProofs`, the ring buffer. The inductive invariant `IInv` is `TypeOK`,
  `WritePointerFits`, `RefsFit` and `CapacityFits` (twice the capacity is a
  `size_t`). The write pointer decides between overwriting and growing, so
  `TypeOK` alone is not inductive; the pointers matter because `removeElements`
  reads through them. From it follow `TypeCorrect`
  (`BufferConsistent`), `AtCorrect` (the unchecked
  `at` never follows a stale pointer), `ConversionsCorrect` and
  `RingBufferImplementsHistory`, the refinement of `BoundedHistory` step by step.
* `MeasurementProofs`, the values. `MeasurementValues` extends `RingBuffer` and adds no
  step, so the buffer's theorems hold for it too; these are about what it
  computes. `SearchExists` shows that the recursion of the binary search defines
  a function, `SearchFinds` that it finds an element of its range that none is
  closer than (both by induction on the length of the range), and `TimesDiffer`
  that differences of 32 bit times are those of distances from a base
  time, whatever turns over. Together they give `ClosestFound`.
  `InterpolationCorrect` adds that the neighbour which is taken is the second
  closest element, and what the weighted mean is. `SegmentationCorrect` shows,
  for every number of values and every outcome of the comparisons, that segments
  cover the values once, that those of the linear regression span two windows,
  and that no estimate is read out of bounds. `EstimatesCorrect` shows that means,
  variances and slopes are those of their definitions. The code adds up products
  in one pass and the definitions deviations from the mean, so the sums are
  compared turn by turn, by induction on the number of terms: `CovarianceSums`,
  `SquaresSums` and `DeviationsSums` relate sums of the same terms, and
  `RotatedSums` those that start at different elements of the ring. What is left is
  an equation between single numbers (`SlopeOfSums`, `VarianceOfSums`).
* `MeasurementLemmas`. Division with rest, induction over the natural numbers
  (from the least element of a set of them) and the existence of functions
  defined by recursion over them, differences of words, and `ExpandedNear`: a
  word within half a turn of the current time expands to the epoch time it is
  the lower word of, also across an era. Of the segmentation: `NextEndFacts` and
  `IntervalsPartition` (what lies between change points), and `MinimaApart`, by
  induction on the turns of the first pass: two minima are more than two windows
  apart, since one that comes earlier replaces the one before it or is dropped.
* `MeasurementProofs`, the pipeline. `TimesExpandToNearest` and `AveragingCorrect`
  (less than one averaging time is left over), which `PipelineDrivesTimers`
  carries over to the chain: each of its steps is a step of the averaging
  processor's own specification or leaves it alone. `PipelineIInv` then has what the chain
  keeps between elements: a timer stands at its device's latest element
  (`PaceInv`), time stands still within a packet, so that all of its elements
  get the decision that the timer remembers (`DecidedInv`), and no stored value
  that somebody sent is from the future (`MapInv`, `BuffersInv`). `PaceKept` and
  `BlocksWhole` do not hold step by step without these. They give
  `TimersKeepPace`, `PacketsPassAsAWhole` and `HouseholdFromOneTime`.
  For the calculated values, the buffers are histories: in the order of time,
  and no longer than the ring (`BuffersInv`). Within a packet the positive
  buffer of a phase is ahead of the negative one, or behind it; what is
  inductive is `PowersInv`, that both are the same once the measurements that
  are still to come in this packet (`Missing`) have been added. At the end of a
  packet nothing is missing, so `DiffsOfSame` (an induction over the values)
  gives `SignedStayComplete`. `FedCovers` takes any set of change points: what is
  fed of each segment is what is new of it, and the segments partition the
  values. `NewerIsNew` says that newer measurements than a new one are new,
  which gives `FeedingCoversOnce`. It has the condition of the property that
  the buffer spans less than half a turn (25 days): beyond that, an old
  measurement looks like a new one. `SignedInv` and `TypesInv` complete
  `PipelineStaysConsistent`.
  Assumed: no serial number is an emeter's and an inverter's, emeters do
  not send the signed powers that the library calculates, and an emeter's packet
  has each of the other powers once (as those of SMA do).
* `CommunicationProofs`, the commands. `AddFacts` and `RemoveFacts` say what adding and
  removing a token does to the order of the others.
  The invariant `CommandIInv` is `TypeOK`, `TokensInOrder`,
  `WaitsOnLastToken` and three parts that make it inductive: each packet id is
  the current one counted back by the number of commands since, each token's
  creation time is the clock counted back by its age, and an accepted reply has
  the packet id of the token that took it. Counting back is injective within
  one turn, which gives `CommandTypeCorrect` and `RepliesMatched`: commands less
  than `NumIds` apart have different packet ids, and a reply accepted by a token
  younger than that is the answer to the token's command. With the waiting
  call's token known to be the last one, `CallsSpareOthers` follows step by step.
  For `expire`, `PassedAreYoung` says of the tokens before the iterator that
  none is too old by the clock that the pass goes by; erasing under the iterator keeps it,
  which gives `ExpireSparesTheYoung` and `ExpireIsComplete`.
  `command_wrap` shows why the distance in `ReplyAnswersCommand` is needed.
* `ReceiveDispatcherProofs`. The invariant adds four parts to `TypeOK`. A packet
  that still waits is in one place of one queue, is not in the buffer and nobody
  has seen it (`QueueInv`); of the packet being delivered, the receivers before
  `k` have had it and those from `k` on have not (`ServeInv`, `RepeatInv`); the
  sockets read so far are the ready ones before `j`, those not read still have
  packets, and the count is between
  the packets counted and these plus the failures (`CallInv`). Without
  `QueueInv` nothing would keep a packet from being received twice. What the
  packet in delivery was taken for is its kind, unless a failure had it
  evaluated again and it has no end-of-data tag. From these
  follow `ReceiversAreServed`, `NothingRepeated` and `CallsAccounted`.
* `DeviceRegistryProofs`. `AnnouncementsStayOpen` holds for all records.
  `ListStaysConsistent` and `KnownDevicesKept` have the hypothesis
  `AllComplete`, that every record which is registered is complete: the code
  does not check it, and `registry_duplicates` shows what happens otherwise. The
  invariant classifies the entries (`EntriesInv`: announced by address, announced by
  serial number, or registered) and says that two registered ones are the same
  only while `registerDevice` is still erasing (`KnownInv`).
* `SpeedwireDiscoveryProofs`. `DiscoveryImplementsRegistry` is the refinement
  of `DeviceRegistry`, and `DiscoveryKeepsAnnouncementsOpen` carries the theorem about
  the list over. `DiscoveryLoopCovers` and `AnnouncedDevicesAsked` rest on an
  account of the four counters: what a burst sends (`BurstInv`), how many rounds
  the counters stand for (`RoundsInv`), that exactly the hosts before the two
  scan counters were scanned (`ScanInv`), and that without traffic the wait cannot run out
  before the retries do (`QuietInv`). The induction needs all of them: the loop
  ends by time or by retries, and only `QuietInv` excludes the former.
  Assumed of the numbers in the code: some retries, more than one send per
  burst, and a wait that outlasts a long and a short poll.
* `CommunicationProofs`, the sockets. `SocketsStayAccounted`: that a counter is the
  number of its sharers (`CountersExact`) is inductive by counting sets that
  gain or lose a member, but it does not say which descriptor a sharer names. The
  invariant `SocketsIInv` adds that copies name the same descriptor (`CopiesAgree`), that what
  is named is open for the counter of the one who names it (`NamedOpen`,
  `SimpleOpen`), that nothing else is open (`OpenNamed`) and that each entry is
  open for the interface it was opened for (`EntriesOpen`). Then a
  destructor that finds the counter at one closes what nobody else names, and one that does
  not leaves somebody who names it. `OnlyOwn` is what closing and opening an
  unshared socket may change. From `EntriesOpen` follows `RequestsLeave`.
  `AnswersArePolled` is about the selection: asked for one type, the socket that
  receives is the one that sends (`ReceivedWhereSent`), and of the pairs of a
  type and an address that select the same descriptor the first one is listed
  (`EarliestPair`). `KeptElements`, by induction, gives that the cached addresses
  are texts of IPv4 addresses.
  Assumed: the wildcard address is none of an interface, and the addresses that
  applications open are addresses. The condition `~misused` of the two
  properties is the code's: closing or opening again a socket that others share
  closes theirs.

* `SpeedwirePacketLemmas`. Bytes and numbers of them; what writing a field leaves
  alone (`WriteOutside`, `FieldsSet`); and the walks. `WalkFacts` shows, by
  induction, that a walk whose steps go forward within bounds is a
  `Path`: it begins at the first place, each stop is the next one of the stop before, and
  the last has none. From it follow `TagsFacts` (every tag that is visited lies
  inside of the packet, whatever its bytes are), `PayloadInside` and
  `RegistersPath`. `MulticastRequestIs`, `DefaultResponseIs`, `HeaderIs` and
  `UnicastRequestIs` say which tags the packets have that the library assembles.
  Of registers, it has what one is on the wire (`WireIs`, `RegisterBytesAre`) and
  what is read of one, by its kind: `RegisterReadBack`, `ValuesRead`, `Consumed`.
* `SpeedwirePacketsProofs`. The properties are about the bytes that were received
  and what was meant by them, and none of them is inductive: between the two lie
  the assembly, the datagram and the leftovers. The invariant `PacketsInv` says
  that the sender's memory holds the packet which the calls so far described
  (`SentPacket`, with one part for each layout: `InverterSent`, `Answered`,
  `EncryptionSent`, `MeterSent`, `DiscoveryRequest`, `DiscoveryResponse`) and that the
  received bytes are a copy of its beginning. An emeter packet is the only one that
  takes several steps: `Layout` has its elements one behind the other and zeros
  from where the next one goes. `PacketsInductive` has one lemma per sender.
  `PacketCopied` carries `SentPacket` over to a packet that was received whole. Then
  * `ReadersStayInsideAlways`, for any bytes: a walk stays in the
    bytes it was told of (`ReadsInsideFollows`: by `RegistersInside` what the
    walk over registers reaches is bounded by a size that the tag's length bounds, by
    `ElementReach` and `OthersInside` each obis element but the first was checked
    before), and one that was told of too many bytes
    visits the same tags up to the end tag (`WalkGoesOn`, `SameTags`);
  * `FieldsKeptAlways`: each field is read back, and the password, the seed and
    the address with them;
  * `ClassifiedAlways`: the protocol ids, lengths and command ids of the kinds
    differ, and each predicate looks at one of them that tells the kinds apart;
  * `ElementsDeliveredAlways`: a path over elements that lie one behind the other visits
    them in order, and what it visits behind them is zero (`LaidDelivered`);
  * `RegistersUnderstoodAlways`: the walk visits the registers and the unused ones
    behind them, no others (`RegistersWalked`), each is parsed to what was sent
    (`RegistersRead`), its data give the values that the device meant, in each of
    the layouts but eight words not in pairs (`ValuesRead`), and an element takes the measurement that is due to
    it (`Consumed`).

Only model-checked:

* the conversions of addresses (`UrisTakenApart`, `PeersAssigned`), which search
  texts with the recursive operators of the library;
* liveness (`CallReturns`, `DiscoveryReturns`, `DispatchReturns`), which needs
  fairness and ENABLED.

## 5. Not modelled

`PROJECT.json` lists every component with its status. Out of scope for good:

* system calls (the models have their outcomes as nondeterministic choices);
* the tables of predefined elements, formatting and logging;
* floating point: sums are exact, and the outcomes of comparisons of variances
  are free;
* names of hosts and interfaces, hardware addresses, the credentials file;
* code that nothing calls: `sendMulticastDiscoveryRequestToDevices`, and the
  assignment operator of `SpeedwireSocket` (SpeedwireSocket.cpp:59), which would
  call itself without end.

### Disagreements between documentation and code without a run of their own

The four runs that expect a violation show the disagreements that take several
steps to come about. These were met while modelling too. A module models what
the code does, and where a passing property leaves a case out because of one of
them, its comment says so.

* `ONE_SINGLE_SOCKET` is "One single socket is created to be used for all local
  interfaces, both directions and both unicast and multicast"
  (SpeedwireSocketFactory.hpp:40) and listed among "the following strategies" that
  "will work" for linux hosts (SpeedwireSocketFactory.cpp:22-24). That socket has
  no interface address, and `sendto` returns -1 for such a socket before it looks
  whether the destination is a group (SpeedwireSocket.cpp:538-561). So each
  unicast request fails, those of SpeedwireCommand.cpp:178 and
  SpeedwireDiscovery.cpp:386 and 433 among them. `RequestsLeaveByInterface` only says
  that no unicast request leaves there by a wrong interface.
* `dispatch` "Returns the number of received packets, or 0 in case of timeout"
  (SpeedwireReceiveDispatcher.cpp:45). Discovery packets and data2 packets of
  other protocols are received and delivered without `++npackets`; a call that
  received nothing else returns 0 as if it had timed out. `CountsPackets` states the count.
* "Packets failing the validity check are silently ignored"
  (SpeedwireReceiveDispatcher.cpp:42). An inverter packet whose lengths do not fit
  is logged, and `dispatch` returns -1 and leaves the remaining ready sockets to
  the next call (SpeedwireReceiveDispatcher.cpp:126-137). `ErrorReturns` and
  `SkippedWait` state what becomes of them.
* "After receiving a packet it is checked to make sure it starts with a valid
  sma speedwire packet header" (SpeedwireReceiveDispatcher.cpp:40). When `recvfrom` fails,
  `nbytes` is -1 and becomes the unsigned size 2^64-1 (SpeedwireReceiveDispatcher.cpp:81-91,
  SpeedwireHeader.cpp:17). Every check of `tagPacketFitsIntoUdp`
  (SpeedwireHeader.cpp:281-291) then holds, so that a packet is delivered
  again, or one that was rejected because it was cut short is delivered.
  `ReceiversServed` and `NoRepeat` bound what that does.
* The documented answers to unicast discovery are registers of type Unsigned32
  with eight words that are no four pairs (SpeedwireDiscoveryProtocol.cpp:60-61).
  `getNumberOfSignificantValues` returns 8 for them (SpeedwireData.cpp:338-339), and
  `getValues` reads every other word, the last one at `data + 56` (SpeedwireData.cpp:359-361,
  SpeedwireData.hpp:110), beyond the array of 44 bytes. `RegistersDelivered` leaves
  these values out (`Misread`) and keeps the rest of such a register.
* `getRawDataLength` "returns the size of each raw data element or 0 if the
  assumption does not hold" (SpeedwireInverterProtocol.cpp:128). For a data2 tag that
  ends before the registers, as `checkReply` accepts it from length 22 on
  (SpeedwireCommand.cpp:402), `size - sma_data_offset` wraps around
  (SpeedwireInverterProtocol.cpp:35 and 135) and it returns about 2^32 if the number of
  registers divides that. For a tag shorter than its own header, `size` itself is
  about 2^64 (also SpeedwireEmeterProtocol.cpp:40) and the bounds checks of the walks
  hold everywhere. `dispatch` reads the fields of an emeter packet
  without a check of its length (SpeedwireReceiveDispatcher.cpp:113-116).
* `getFirstObisElement` checks that the first element begins inside of the packet,
  not that it ends there (SpeedwireEmeterProtocol.cpp:80-86); all others are checked as a
  whole.
* `getSrcSerialNumber` of an encryption packet reads big endian what
  `setSrcSerialNumber` writes little endian (SpeedwireEncryptionProtocol.cpp:65 and
  135). `FieldsKept` leaves this field out.

### Cases that the properties leave out

* Elements with equal times, where interpolation divides 0 by 0
  (MeasurementValues.hpp:106): `InterpolatesTwoClosest` assumes one element per time.
* More than one processor of calculated values: they would share `last_time`, which is
  static (CalculatedValueProcessor.cpp:104); one is modelled.
* Prefixes that are no whole octets (LocalHost.cpp:351): `PeersAssigned`.
* A firmware version whose last character is a digit (ObisData.cpp:114), which is
  read as a number: `ElementsDelivered`, by `ObisElement`.
* Destinations of a reply that are broadcast, which `checkReply` accepts as well as
  its own address: `Replies` of the commands' model have the address of this host.
* Packets of other hosts without end, which keep a poll going
  (SpeedwireCommand.cpp:286, SpeedwireDiscovery.cpp:270): `MaxNoise`, `MaxPackets`.

Met while modelling, and outside of what the runs explore:

* `removeElements` with a sum of offset and count beyond `size_t`
  (RingBuffer.hpp:101) would add elements a second time; its only caller passes 0
  and a valid index plus one.
* `needs_login` is set on error 0x0017 and never cleared (SpeedwireCommand.cpp:92).
* A system clock that is set back makes every token old for `expire`
  (SpeedwireCommand.cpp:501).
* A broadcast login returns with the first reply (SpeedwireCommand.cpp:320).
* An index that an asynchronous command returned denotes another token once an
  earlier one was removed; a callback that reads from a socket which `poll` has
  reported leaves `dispatch` blocked in `recvfrom`.
* A discovery response after the last unicast round announces a device nobody
  asks (SpeedwireDiscovery.cpp:482).

## 6. What is open

* `PeersAssigned` for every host: the choice is the first local interface whose
  subnet holds the peer, so the search would be stated as the least of a set of places
  and the proof would rest on `KeptElements` and `Least`.
* `UrisTakenApart` for every uri, once the tokens of a text are found by a
  recursive function instead of the library's searches.
* The receive methods of `SpeedwireSocket` and the loops of
  `SpeedwireAuthentication` over sockets and devices, which would be compositions
  of `SpeedwireSocketFactory` and `SpeedwireCommand`.
