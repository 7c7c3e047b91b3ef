------------------------ MODULE DeviceRegistryProofs ------------------------
(***************************************************************************)
(* Proofs about DeviceRegistry, for any devices, users and length of the   *)
(* list.                                                                   *)
(***************************************************************************)
EXTENDS DeviceRegistry, SequenceTheorems, TLAPS

(* The code never asks whether a record is complete before it registers    *)
(* it; what the list promises about known devices holds if all are.        *)
AllComplete == \A info \in Infos : isComplete(info)

(* An entry is announced by ip address, announced by serial number, or a   *)
(* registered device, whose ip address is known.                           *)
Announced(d) ==
    /\ d.susy = 0
    /\ \/ d.serial = 0 /\ d.ip \in IPs
       \/ d.serial # 0 /\ d.ip = None

Registered(d) == addressComplete(d) /\ d.ip \in IPs

EntriesInv == \A i \in 1..Len(devices) : Announced(devices[i]) \/ Registered(devices[i])

(* Registered devices are fully known, and two of them are the same only   *)
(* until registerDevice has erased the duplicates.                         *)
KnownInv ==
    /\ \A i \in 1..Len(devices) : Registered(devices[i]) => isComplete(devices[i])
    /\ op # "register" =>
          \A i, j \in 1..Len(devices) : i < j => ~Same(devices[i], devices[j])

IInv == TypeOK /\ EntriesInv /\ AnnouncementsOpen

-----------------------------------------------------------------------------
(* The operators.                                                          *)

(* RemoveAt takes one entry out and moves the later ones up.               *)
LEMMA RemoveAtProperties ==
    ASSUME NEW S, NEW s \in Seq(S), NEW j \in 1..Len(s)
    PROVE  /\ RemoveAt(s, j) \in Seq(S)
           /\ Len(RemoveAt(s, j)) = Len(s) - 1
           /\ \A i \in 1..(Len(s) - 1) : RemoveAt(s, j)[i] = s[IF i < j THEN i ELSE i + 1]
<1> DEFINE front == SubSeq(s, 1, j - 1)
           back == SubSeq(s, j + 1, Len(s))
<1>1. Len(s) \in Nat /\ j \in Int /\ \A i \in 1..Len(s) : s[i] \in S
  BY LenProperties, ElementOfSeq
<1>2. /\ front \in Seq(S) /\ Len(front) = j - 1
      /\ \A i \in 1..(j - 1) : front[i] = s[i]
  <2>1. /\ front \in Seq(S)
        /\ Len(front) = IF 1 <= j - 1 THEN j - 1 - 1 + 1 ELSE 0
        /\ \A i \in 1..(j - 1 - 1 + 1) : front[i] = s[1 + i - 1]
    BY <1>1, SubSeqProperties
  <2> QED BY <2>1
<1>3. /\ back \in Seq(S) /\ Len(back) = Len(s) - j
      /\ \A i \in 1..(Len(s) - j) : back[i] = s[j + i]
  <2>1. /\ back \in Seq(S)
        /\ Len(back) = IF j + 1 <= Len(s) THEN Len(s) - (j + 1) + 1 ELSE 0
        /\ \A i \in 1..(Len(s) - (j + 1) + 1) : back[i] = s[j + 1 + i - 1]
    BY <1>1, SubSeqProperties
  <2> QED BY <1>1, <2>1
<1>4. RemoveAt(s, j) = front \o back
  BY DEF RemoveAt
<1> HIDE DEF front, back
<1>5. /\ front \o back \in Seq(S)
      /\ Len(front \o back) = Len(front) + Len(back)
      /\ \A i \in 1..(Len(front) + Len(back)) :
            (front \o back)[i] = IF i <= Len(front) THEN front[i] ELSE back[i - Len(front)]
  BY <1>2, <1>3, ConcatProperties
<1>6. Len(front) + Len(back) = Len(s) - 1
  BY <1>1, <1>2, <1>3
<1>7. ASSUME NEW i \in 1..(Len(s) - 1)
      PROVE  RemoveAt(s, j)[i] = s[IF i < j THEN i ELSE i + 1]
  <2>1. CASE i < j
    <3>1. (front \o back)[i] = front[i]
      BY <1>1, <1>2, <1>5, <1>6, <2>1
    <3> QED BY <1>1, <1>2, <1>4, <2>1, <3>1
  <2>2. CASE i >= j
    <3>1. (front \o back)[i] = back[i - (j - 1)] /\ i - (j - 1) \in 1..(Len(s) - j)
      BY <1>1, <1>2, <1>5, <1>6, <2>2
    <3> QED BY <1>1, <1>3, <1>4, <2>2, <3>1
  <2> QED BY <1>1, <2>1, <2>2
<1> QED BY <1>4, <1>5, <1>6, <1>7

(* Entries and records that are registered are devices; the latter have    *)
(* an address and an ip address.                                           *)
LEMMA RecordTypes ==
    /\ Unknown \in Device
    /\ \A ip \in IPs : [Unknown EXCEPT !.ip = ip] \in Device
    /\ \A s \in Serials : [Unknown EXCEPT !.serial = s] \in Device
    /\ \A d \in Device : Filled(d) \in Device
    /\ \A info \in Infos : info \in Device /\ Registered(info)
<1>1. Unknown \in Device
  BY DEF Unknown, Device
<1>2. ASSUME NEW ip \in IPs PROVE [Unknown EXCEPT !.ip = ip] \in Device
  BY DEF Unknown, Device
<1>3. ASSUME NEW s \in Serials PROVE [Unknown EXCEPT !.serial = s] \in Device
  BY SerialsAssumption DEF Unknown, Device
<1>4. ASSUME NEW ip PROVE MatchingInterface(ip) \in Range(LocalInterface) \cup {None}
  BY InterfaceAssumption DEF MatchingInterface, Range
<1>5. ASSUME NEW d \in Device PROVE Filled(d) \in Device
  BY <1>4 DEF Filled, Device
<1>6. ASSUME NEW info \in Given PROVE info \in Device /\ Registered(info)
  BY <1>5, GivenAssumption, NoneAssumption DEF Registered, addressComplete
<1>7. ASSUME NEW p \in Peers, NEW socket \in Sockets
      PROVE  DeviceInfo(p, socket) \in Device /\ Registered(DeviceInfo(p, socket))
  <2>1. p \in [susy : Nat \ {0}, serial : Nat \ {0}, ip : IPs]
    BY PeersAssumption
  <2> QED BY <1>4, <2>1 DEF DeviceInfo, Device, Registered, addressComplete
<1>8. ASSUME NEW d \in Given
      PROVE  Queried(Filled(d)) \in Device /\ Registered(Queried(Filled(d)))
  <2>1. Filled(d) \in Device /\ Registered(Filled(d))
    BY <1>5, <1>6 DEF Filled, Registered, addressComplete, Device
  <2> QED BY <2>1 DEF Queried, Registered, addressComplete, Device
<1> QED BY <1>1, <1>2, <1>3, <1>5, <1>6, <1>7, <1>8 DEF Infos, Reports

-----------------------------------------------------------------------------
(* Every step keeps the list typed.                                        *)

LEMMA ListDomain ==
    ASSUME TypeOK
    PROVE  /\ Len(devices) \in Nat /\ DOMAIN devices = 1..Len(devices)
           /\ \A i \in 1..Len(devices) : devices[i] \in Device
BY LenProperties, ElementOfSeq DEF TypeOK

(* A new entry leaves the earlier ones where they are.                     *)
LEMMA AppendEntry ==
    ASSUME TypeOK, NEW d \in Device, devices' = Append(devices, d)
    PROVE  /\ devices' \in Seq(Device)
           /\ Len(devices') = Len(devices) + 1
           /\ \A i \in 1..Len(devices) : devices'[i] = devices[i]
           /\ devices'[Len(devices) + 1] = d
BY AppendProperties DEF TypeOK

(* registerDevice overwrites entries, and the list keeps its length.       *)
LEMMA OverwriteEntries ==
    ASSUME TypeOK, NEW info \in Device,
           devices' = [i \in DOMAIN devices |->
                          IF Updates(devices[i], info) THEN info ELSE devices[i]]
    PROVE  /\ devices' \in Seq(Device)
           /\ Len(devices') = Len(devices)
           /\ \A i \in 1..Len(devices) :
                 devices'[i] = IF Updates(devices[i], info) THEN info ELSE devices[i]
<1> DEFINE e(i) == IF Updates(devices[i], info) THEN info ELSE devices[i]
<1>1. \A i \in 1..Len(devices) : e(i) \in Device
  BY ListDomain
<1>2. devices' = [i \in 1..Len(devices) |-> e(i)]
  BY ListDomain
<1> HIDE DEF e
<1>3. devices' \in [1..Len(devices) -> Device]
  BY <1>1, <1>2
<1>4. devices' \in Seq(Device)
  BY <1>3, ListDomain, SeqDef
<1>5. Len(devices') = Len(devices)
  BY <1>3, <1>4, LenProperties, ListDomain
<1> QED BY <1>2, <1>4, <1>5 DEF e

(* One erase takes out one entry that is to be erased.                     *)
LEMMA EraseEntry ==
    ASSUME TypeOK, eraseNext
    PROVE  \E j \in 1..Len(devices) :
              /\ ToErase(j)
              /\ devices' \in Seq(Device)
              /\ Len(devices') = Len(devices) - 1
              /\ \A i \in 1..(Len(devices) - 1) :
                    devices'[i] = devices[IF i < j THEN i ELSE i + 1]
<1>1. PICK j \in 1..Len(devices) : ToErase(j) /\ devices' = RemoveAt(devices, j)
  BY ListDomain DEF eraseNext
<1>2. /\ RemoveAt(devices, j) \in Seq(Device)
      /\ Len(RemoveAt(devices, j)) = Len(devices) - 1
      /\ \A i \in 1..(Len(devices) - 1) :
            RemoveAt(devices, j)[i] = devices[IF i < j THEN i ELSE i + 1]
  BY RemoveAtProperties DEF TypeOK
<1> QED BY <1>1, <1>2

(* completeDeviceInformation overwrites entry n.                           *)
LEMMA FillEntry ==
    ASSUME TypeOK, NEW n \in DOMAIN devices, fillInterface(n)
    PROVE  /\ devices' \in Seq(Device)
           /\ Len(devices') = Len(devices)
           /\ \A i \in 1..Len(devices) :
                 devices'[i] = IF i = n THEN Filled(devices[i]) ELSE devices[i]
<1>1. n \in 1..Len(devices) /\ Filled(devices[n]) \in Device
  BY ListDomain, RecordTypes
<1>2. devices' = [devices EXCEPT ![n] = Filled(devices[n])]
  BY DEF fillInterface
<1> QED BY <1>1, <1>2, ExceptSeq DEF TypeOK

LEMMA TypeStep == TypeOK /\ [Next]_vars => TypeOK'
<1> SUFFICES ASSUME TypeOK, [Next]_vars PROVE TypeOK'
  OBVIOUS
<1>1. ASSUME NEW ip \in IPs, preRegisterDevice(ip) PROVE TypeOK'
  BY <1>1, AppendEntry, RecordTypes DEF preRegisterDevice, TypeOK
<1>2. ASSUME NEW s \in Serials, requireDevice(s) PROVE TypeOK'
  BY <1>2, AppendEntry, RecordTypes DEF requireDevice, TypeOK
<1>3. ASSUME NEW info \in Infos, registerDevice(info) PROVE TypeOK'
  <2>1. info \in Device
    BY RecordTypes
  <2> QED BY <1>3, <2>1, AppendEntry, OverwriteEntries DEF registerDevice, TypeOK
<1>4. ASSUME NEW info \in Given \cup Range(devices), unregisterDevice(info) PROVE TypeOK'
  <2>1. info \in Device
    BY ListDomain, GivenAssumption DEF Range
  <2> QED BY <1>4, <2>1 DEF unregisterDevice, TypeOK
<1>5. CASE eraseNext
  BY <1>5, EraseEntry DEF eraseNext, TypeOK
<1>6. CASE eraseDone
  BY <1>6, RecordTypes DEF eraseDone, TypeOK
<1>7. ASSUME NEW n \in DOMAIN devices, fillInterface(n) PROVE TypeOK'
  BY <1>7, FillEntry DEF fillInterface, TypeOK
<1>8. CASE UNCHANGED vars
  BY <1>8 DEF vars, TypeOK
<1> QED BY <1>1, <1>2, <1>3, <1>4, <1>5, <1>6, <1>7, <1>8 DEF Next

-----------------------------------------------------------------------------
(* Every step keeps the entries known and the announcements open.          *)

(* A record that is registered takes the place of all entries that         *)
(* announce it, and an announcement is new only where nothing has its ip   *)
(* address or its serial number.                                           *)
LEMMA EntriesStep ==
    ASSUME TypeOK, EntriesInv, AnnouncementsOpen, [Next]_vars
    PROVE  EntriesInv' /\ AnnouncementsOpen'
<1> DEFINE Open(list, i, j) ==
              /\ hasIPAddressOnly(list[i]) => list[i].ip # list[j].ip
              /\ hasSerialNumberOnly(list[i]) => list[i].serial # list[j].serial
           Entry(d) == Announced(d) \/ Registered(d)
<1>1. /\ \A i \in 1..Len(devices) : Entry(devices[i])
      /\ \A i, j \in 1..Len(devices) : i # j => Open(devices, i, j)
  BY ListDomain DEF EntriesInv, AnnouncementsOpen
<1>2. SUFFICES /\ \A i \in 1..Len(devices') : Entry(devices'[i])
               /\ \A i, j \in 1..Len(devices') : i # j => Open(devices', i, j)
  <2>1. TypeOK'
    BY TypeStep
  <2>2. DOMAIN devices' = 1..Len(devices')
    BY <2>1, LenProperties DEF TypeOK
  <2> QED BY <2>2 DEF EntriesInv, AnnouncementsOpen
<1> DEFINE Goal == /\ \A i \in 1..Len(devices') : Entry(devices'[i])
                   /\ \A i, j \in 1..Len(devices') : i # j => Open(devices', i, j)
(* A new entry that nothing in the list announces.                         *)
<1>3. ASSUME NEW d \in Device, devices' = Append(devices, d), Entry(d),
             \A i \in 1..Len(devices) :
                /\ Open(<<devices[i], d>>, 1, 2)
                /\ Open(<<devices[i], d>>, 2, 1)
      PROVE  Goal
  BY <1>1, <1>3, AppendEntry, ListDomain
<1>4. CASE UNCHANGED devices
  BY <1>1, <1>4
<1>5. ASSUME NEW ip \in IPs, preRegisterDevice(ip) PROVE Goal
  <2>1. CASE \E i \in DOMAIN devices : devices[i].ip = ip
    BY <1>4, <1>5, <2>1 DEF preRegisterDevice
  <2>2. CASE ~\E i \in DOMAIN devices : devices[i].ip = ip
    <3> DEFINE d == [Unknown EXCEPT !.ip = ip]
    <3>1. d \in Device /\ d.ip = ip /\ d.susy = 0 /\ d.serial = 0
      BY RecordTypes DEF Unknown
    <3>2. devices' = Append(devices, d) /\ \A i \in 1..Len(devices) : devices[i].ip # ip
      BY <1>5, <2>2, ListDomain DEF preRegisterDevice
    <3> HIDE DEF d
    <3>3. Entry(d) /\ ~hasSerialNumberOnly(d)
      BY <3>1 DEF Announced, hasSerialNumberOnly
    <3>4. \A i \in 1..Len(devices) : hasSerialNumberOnly(devices[i]) => devices[i].serial # 0
      BY DEF hasSerialNumberOnly
    <3> QED BY <1>3, <3>1, <3>2, <3>3, <3>4
  <2> QED BY <2>1, <2>2
<1>6. ASSUME NEW s \in Serials, requireDevice(s) PROVE Goal
  <2>1. CASE \E i \in DOMAIN devices : devices[i].serial = s
    BY <1>4, <1>6, <2>1 DEF requireDevice
  <2>2. CASE ~\E i \in DOMAIN devices : devices[i].serial = s
    <3> DEFINE d == [Unknown EXCEPT !.serial = s]
    <3>1. d \in Device /\ d.ip = None /\ d.susy = 0 /\ d.serial = s /\ s # 0
      BY RecordTypes, SerialsAssumption DEF Unknown
    <3>2. devices' = Append(devices, d) /\ \A i \in 1..Len(devices) : devices[i].serial # s
      BY <1>6, <2>2, ListDomain DEF requireDevice
    <3> HIDE DEF d
    <3>3. Entry(d) /\ ~hasIPAddressOnly(d)
      BY <3>1 DEF Announced, hasIPAddressOnly
    <3>4. \A i \in 1..Len(devices) : hasIPAddressOnly(devices[i]) => devices[i].ip # None
      BY DEF hasIPAddressOnly
    <3> QED BY <1>3, <3>1, <3>2, <3>3, <3>4
  <2> QED BY <2>1, <2>2
<1>7. ASSUME NEW info \in Infos, registerDevice(info) PROVE Goal
  <2>1. /\ info \in Device /\ Registered(info) /\ info.ip # None
        /\ ~hasIPAddressOnly(info) /\ ~hasSerialNumberOnly(info)
    BY RecordTypes, NoneAssumption
       DEF Registered, hasIPAddressOnly, hasSerialNumberOnly
  <2>2. CASE \E i \in DOMAIN devices : Updates(devices[i], info)
    <3>1. /\ Len(devices') = Len(devices)
          /\ \A i \in 1..Len(devices) :
                devices'[i] = IF Updates(devices[i], info) THEN info ELSE devices[i]
      BY <1>7, <2>1, <2>2, OverwriteEntries DEF registerDevice
    <3>2. ASSUME NEW i \in 1..Len(devices) PROVE Entry(devices'[i])
      BY <1>1, <2>1, <3>1
    <3>3. ASSUME NEW i \in 1..Len(devices), NEW j \in 1..Len(devices), i # j
          PROVE  Open(devices', i, j)
      <4>1. CASE Updates(devices[i], info)
        BY <2>1, <3>1, <4>1
      <4>2. CASE ~Updates(devices[i], info) /\ Updates(devices[j], info)
        BY <3>1, <4>2 DEF Updates
      <4>3. CASE ~Updates(devices[i], info) /\ ~Updates(devices[j], info)
        BY <1>1, <3>1, <3>3, <4>3
      <4> QED BY <4>1, <4>2, <4>3
    <3> QED BY <3>1, <3>2, <3>3
  <2>3. CASE ~\E i \in DOMAIN devices : Updates(devices[i], info)
    <3>1. devices' = Append(devices, info)
      BY <1>7, <2>3 DEF registerDevice
    <3>2. ASSUME NEW i \in 1..Len(devices) PROVE Open(<<devices[i], info>>, 1, 2)
      BY <2>3, ListDomain DEF Updates
    <3> QED BY <1>3, <2>1, <3>1, <3>2
  <2> QED BY <2>2, <2>3
<1>8. CASE eraseNext
  <2>1. PICK j \in 1..Len(devices) :
           /\ Len(devices') = Len(devices) - 1
           /\ \A i \in 1..(Len(devices) - 1) :
                 devices'[i] = devices[IF i < j THEN i ELSE i + 1]
    BY <1>8, EraseEntry
  <2> DEFINE Old(i) == IF i < j THEN i ELSE i + 1
  <2>2. \A i \in 1..Len(devices') : Old(i) \in 1..Len(devices) /\ devices'[i] = devices[Old(i)]
    BY <2>1, ListDomain
  <2>3. \A i, l \in 1..Len(devices') : i # l => Old(i) # Old(l)
    BY <2>1, ListDomain
  <2> HIDE DEF Old
  <2> QED BY <1>1, <2>2, <2>3, SMTT(40)
<1>9. ASSUME NEW n \in DOMAIN devices, fillInterface(n) PROVE Goal
  <2>1. /\ Len(devices') = Len(devices)
        /\ \A i \in 1..Len(devices) :
              devices'[i] = IF i = n THEN Filled(devices[i]) ELSE devices[i]
    BY <1>9, FillEntry
  <2>2. ASSUME NEW d \in Device
        PROVE  Filled(d).susy = d.susy /\ Filled(d).serial = d.serial /\ Filled(d).ip = d.ip
    BY DEF Filled, Device
  <2>3. \A i \in 1..Len(devices) :
           /\ devices'[i].susy = devices[i].susy
           /\ devices'[i].serial = devices[i].serial
           /\ devices'[i].ip = devices[i].ip
    BY <2>1, <2>2, ListDomain
  <2> QED BY <1>1, <2>1, <2>3
          DEF Announced, Registered, addressComplete, hasIPAddressOnly, hasSerialNumberOnly
<1>10. QED
  BY <1>4, <1>5, <1>6, <1>7, <1>8, <1>9 DEF Next, vars, unregisterDevice, eraseDone

-----------------------------------------------------------------------------
(* Every step keeps registered devices known and, outside of               *)
(* registerDevice, different.                                              *)

(* Filled leaves a device that is known as it is.                          *)
LEMMA FilledKeeps ==
    ASSUME NEW d \in Device
    PROVE  /\ Filled(d).susy = d.susy /\ Filled(d).serial = d.serial /\ Filled(d).ip = d.ip
           /\ isComplete(d) => Filled(d) = d
BY DEF Filled, Device, isComplete

(* An announcement is never the same as a registered device.               *)
LEMMA AnnouncedDiffers ==
    ASSUME NEW d, NEW e, Announced(d), Registered(e)
    PROVE  ~Same(d, e) /\ ~Same(e, d) /\ ~Registered(d)
BY DEF Announced, Registered, addressComplete, Same

LEMMA KnownStep ==
    ASSUME AllComplete, TypeOK, EntriesInv, KnownInv, [Next]_vars
    PROVE  KnownInv'
<1> DEFINE Known(d) == Registered(d) => isComplete(d)
           Goal == /\ \A i \in 1..Len(devices') : Known(devices'[i])
                   /\ op' # "register" =>
                         \A i, j \in 1..Len(devices') : i < j => ~Same(devices'[i], devices'[j])
<1>1. /\ \A i \in 1..Len(devices) : Known(devices[i])
      /\ op # "register" =>
            \A i, j \in 1..Len(devices) : i < j => ~Same(devices[i], devices[j])
  BY DEF KnownInv
<1> SUFFICES Goal
  BY DEF KnownInv
<1>2. CASE UNCHANGED <<devices, op>>
  BY <1>1, <1>2
<1>3. ASSUME NEW d \in Device, devices' = Append(devices, d), op' = op, Known(d),
             \A i \in 1..Len(devices) : ~Same(devices[i], d)
      PROVE  Goal
  BY <1>1, <1>3, AppendEntry, ListDomain
<1>4. ASSUME NEW ip \in IPs, preRegisterDevice(ip) PROVE Goal
  <2>1. CASE \E i \in DOMAIN devices : devices[i].ip = ip
    BY <1>2, <1>4, <2>1 DEF preRegisterDevice
  <2>2. CASE ~\E i \in DOMAIN devices : devices[i].ip = ip
    <3> DEFINE d == [Unknown EXCEPT !.ip = ip]
    <3>1. d \in Device /\ d.ip = ip /\ d.susy = 0
      BY RecordTypes DEF Unknown
    <3>2. /\ devices' = Append(devices, d) /\ op' = op
          /\ \A i \in 1..Len(devices) : devices[i].ip # ip
      BY <1>4, <2>2, ListDomain DEF preRegisterDevice
    <3> HIDE DEF d
    <3> QED BY <1>3, <3>1, <3>2 DEF Same, Registered, addressComplete
  <2> QED BY <2>1, <2>2
<1>5. ASSUME NEW s \in Serials, requireDevice(s) PROVE Goal
  <2>1. CASE \E i \in DOMAIN devices : devices[i].serial = s
    BY <1>2, <1>5, <2>1 DEF requireDevice
  <2>2. CASE ~\E i \in DOMAIN devices : devices[i].serial = s
    <3> DEFINE d == [Unknown EXCEPT !.serial = s]
    <3>1. d \in Device /\ d.serial = s /\ d.susy = 0
      BY RecordTypes DEF Unknown
    <3>2. /\ devices' = Append(devices, d) /\ op' = op
          /\ \A i \in 1..Len(devices) : devices[i].serial # s
      BY <1>5, <2>2, ListDomain DEF requireDevice
    <3> HIDE DEF d
    <3> QED BY <1>3, <3>1, <3>2 DEF Same, Registered, addressComplete
  <2> QED BY <2>1, <2>2
<1>6. ASSUME NEW info \in Infos, registerDevice(info) PROVE Goal
  <2>1. info \in Device /\ Registered(info) /\ isComplete(info)
    BY RecordTypes DEF AllComplete
  <2>2. CASE \E i \in DOMAIN devices : Updates(devices[i], info)
    <3>1. /\ Len(devices') = Len(devices)
          /\ \A i \in 1..Len(devices) :
                devices'[i] = IF Updates(devices[i], info) THEN info ELSE devices[i]
          /\ op' = "register"
      BY <1>6, <2>1, <2>2, OverwriteEntries DEF registerDevice
    <3> QED BY <1>1, <2>1, <3>1
  <2>3. CASE ~\E i \in DOMAIN devices : Updates(devices[i], info)
    <3>1. devices' = Append(devices, info) /\ op' = op
      BY <1>6, <2>3 DEF registerDevice
    <3>2. ASSUME NEW i \in 1..Len(devices) PROVE ~Same(devices[i], info)
      <4>1. CASE Announced(devices[i])
        BY <2>1, <4>1, AnnouncedDiffers
      <4>2. CASE Registered(devices[i])
        BY <1>1, <2>3, <4>2, ListDomain DEF Updates, Same
      <4> QED BY <4>1, <4>2 DEF EntriesInv
    <3> QED BY <1>3, <2>1, <3>1, <3>2
  <2> QED BY <2>2, <2>3
<1>7. CASE eraseNext
  <2>1. PICK j \in 1..Len(devices) :
           /\ Len(devices') = Len(devices) - 1
           /\ \A i \in 1..(Len(devices) - 1) :
                 devices'[i] = devices[IF i < j THEN i ELSE i + 1]
    BY <1>7, EraseEntry
  <2> DEFINE Old(i) == IF i < j THEN i ELSE i + 1
  <2>2. \A i \in 1..Len(devices') : Old(i) \in 1..Len(devices) /\ devices'[i] = devices[Old(i)]
    BY <2>1, ListDomain
  <2>3. \A i, l \in 1..Len(devices') : i < l => Old(i) < Old(l)
    BY <2>1, ListDomain
  <2>4. op' = op
    BY <1>7 DEF eraseNext
  <2> HIDE DEF Old
  <2> QED BY <1>1, <2>2, <2>3, <2>4
<1>8. CASE eraseDone
  <2>1. UNCHANGED devices /\ op' = "idle"
    BY <1>8 DEF eraseDone
  <2>2. op = "register" => \A i, j \in 1..Len(devices) : i < j => ~Same(devices[i], devices[j])
    <3> SUFFICES ASSUME op = "register", NEW i \in 1..Len(devices), NEW j \in 1..Len(devices),
                        i < j
                 PROVE  ~Same(devices[i], devices[j])
      OBVIOUS
    <3>1. ~ToErase(j) /\ i \in 1..(j - 1)
      BY <1>8, ListDomain DEF eraseDone
    <3> QED BY <3>1 DEF ToErase
  <2> QED BY <1>1, <2>1, <2>2
<1>9. ASSUME NEW n \in DOMAIN devices, fillInterface(n) PROVE Goal
  <2>1. /\ Len(devices') = Len(devices)
        /\ \A i \in 1..Len(devices) :
              devices'[i] = IF i = n THEN Filled(devices[i]) ELSE devices[i]
        /\ op' = op
    BY <1>9, FillEntry DEF fillInterface
  <2>2. \A i \in 1..Len(devices) :
           /\ devices'[i].susy = devices[i].susy
           /\ devices'[i].serial = devices[i].serial
           /\ devices'[i].ip = devices[i].ip
           /\ isComplete(devices[i]) => devices'[i] = devices[i]
    BY <2>1, FilledKeeps, ListDomain
  <2> QED BY <1>1, <2>1, <2>2 DEF Registered, addressComplete, Same
<1>10. ASSUME NEW info \in Given \cup Range(devices), unregisterDevice(info) PROVE Goal
  BY <1>1, <1>10 DEF unregisterDevice
<1>11. QED
  BY <1>2, <1>4, <1>5, <1>6, <1>7, <1>8, <1>9, <1>10 DEF Next, vars

-----------------------------------------------------------------------------
(* No step but the erasing of unregisterDevice loses a known device.       *)
LEMMA KnownKept ==
    ASSUME AllComplete, TypeOK, EntriesInv, KnownInv, [Next]_vars, op # "unregister",
           NEW i \in DOMAIN devices, isComplete(devices[i])
    PROVE  \E j \in DOMAIN devices' : Same(devices'[j], devices[i]) /\ isComplete(devices'[j])
<1> DEFINE Kept(j) == Same(devices'[j], devices[i]) /\ isComplete(devices'[j])
<1>1. i \in 1..Len(devices) /\ Len(devices) \in Nat /\ devices[i] \in Device
  BY ListDomain
<1>2. DOMAIN devices' = 1..Len(devices')
  <2>1. TypeOK'
    BY TypeStep
  <2> QED BY <2>1, LenProperties DEF TypeOK
<1>3. SUFFICES \E j \in 1..Len(devices') : Kept(j)
  BY <1>2
<1>4. ASSUME i \in 1..Len(devices'), devices'[i] = devices[i] PROVE \E j \in 1..Len(devices') : Kept(j)
  BY <1>4 DEF Same
<1>5. CASE UNCHANGED devices
  BY <1>1, <1>4, <1>5
<1>6. ASSUME NEW d \in Device, devices' = Append(devices, d)
      PROVE  \E j \in 1..Len(devices') : Kept(j)
  BY <1>1, <1>4, <1>6, AppendEntry
<1>7. ASSUME NEW info \in Infos, registerDevice(info)
      PROVE  \E j \in 1..Len(devices') : Kept(j)
  <2>1. info \in Device /\ Registered(info) /\ isComplete(info)
    BY RecordTypes DEF AllComplete
  <2>2. CASE \E j \in DOMAIN devices : Updates(devices[j], info)
    <3>1. /\ Len(devices') = Len(devices)
          /\ devices'[i] = IF Updates(devices[i], info) THEN info ELSE devices[i]
      BY <1>1, <1>7, <2>1, <2>2, OverwriteEntries DEF registerDevice
    <3>2. Updates(devices[i], info) => Same(info, devices[i])
      BY <1>1 DEF Updates, isComplete, hasIPAddressOnly, hasSerialNumberOnly
    <3> QED BY <1>1, <1>4, <2>1, <3>1, <3>2
  <2>3. CASE ~\E j \in DOMAIN devices : Updates(devices[j], info)
    BY <1>6, <1>7, <2>1, <2>3 DEF registerDevice
  <2> QED BY <2>2, <2>3
<1>8. CASE eraseNext
  <2>1. PICK e \in 1..Len(devices) :
           /\ ToErase(e)
           /\ Len(devices') = Len(devices) - 1
           /\ \A l \in 1..(Len(devices) - 1) :
                 devices'[l] = devices[IF l < e THEN l ELSE l + 1]
    BY <1>8, EraseEntry
  <2>2. CASE i < e
    BY <1>1, <1>4, <2>1, <2>2
  <2>3. CASE i > e
    <3>1. i - 1 \in 1..(Len(devices) - 1) /\ ~(i - 1 < e) /\ (i - 1) + 1 = i
      BY <1>1, <2>3
    <3>2. i - 1 \in 1..Len(devices') /\ devices'[i - 1] = devices[i]
      BY <2>1, <3>1
    <3> QED BY <3>2 DEF Same
  <2>4. CASE i = e
    <3>1. PICK l \in 1..(e - 1) : Same(devices[l], devices[e])
      BY <2>1 DEF ToErase
    <3>2. l \in 1..Len(devices') /\ devices'[l] = devices[l]
      BY <1>1, <2>1, <3>1
    <3>3. Registered(devices[l])
      <4>1. ~Announced(devices[l])
        BY <2>4, <3>1 DEF Same, isComplete, addressComplete, Announced
      <4> QED BY <1>1, <2>1, <3>2, <4>1 DEF EntriesInv
    <3>4. isComplete(devices[l])
      BY <1>1, <2>1, <3>2, <3>3 DEF KnownInv
    <3> QED BY <2>4, <3>1, <3>2, <3>4
  <2> QED BY <1>1, <2>1, <2>2, <2>3, <2>4
<1>9. ASSUME NEW n \in DOMAIN devices, fillInterface(n)
      PROVE  \E j \in 1..Len(devices') : Kept(j)
  BY <1>1, <1>4, <1>9, FillEntry, FilledKeeps
<1>10. ASSUME NEW ip \in IPs, preRegisterDevice(ip)
       PROVE  \E j \in 1..Len(devices') : Kept(j)
  BY <1>5, <1>6, <1>10, RecordTypes DEF preRegisterDevice
<1>11. ASSUME NEW s \in Serials, requireDevice(s)
       PROVE  \E j \in 1..Len(devices') : Kept(j)
  BY <1>5, <1>6, <1>11, RecordTypes DEF requireDevice
<1>12. QED
  BY <1>5, <1>7, <1>8, <1>9, <1>10, <1>11 DEF Next, vars, unregisterDevice, eraseDone

-----------------------------------------------------------------------------
(* What discoverDevices relies on when it changes the list.                *)

(* A registered device of unknown type is one that a user registered.      *)
TypedInv ==
    \A i \in 1..Len(devices) :
        addressComplete(devices[i]) =>
            devices[i].typed \/ \E g \in Given : devices[i] = g \/ devices[i] = Filled(g)

LEMMA TypedStep ==
    ASSUME TypeOK, TypedInv, [Next]_vars
    PROVE  TypedInv'
<1> DEFINE Typed(d) == addressComplete(d) =>
                          d.typed \/ \E g \in Given : d = g \/ d = Filled(g)
<1>1. \A i \in 1..Len(devices) : Typed(devices[i])
  BY DEF TypedInv
<1> SUFFICES \A i \in 1..Len(devices') : Typed(devices'[i])
  BY DEF TypedInv
<1>2. CASE UNCHANGED devices
  BY <1>1, <1>2
<1>3. ASSUME NEW d \in Device, devices' = Append(devices, d), Typed(d)
      PROVE  \A i \in 1..Len(devices') : Typed(devices'[i])
  BY <1>1, <1>3, AppendEntry, ListDomain
<1>4. ASSUME NEW ip \in IPs, preRegisterDevice(ip)
      PROVE  \A i \in 1..Len(devices') : Typed(devices'[i])
  <2>1. /\ [Unknown EXCEPT !.ip = ip] \in Device
        /\ ~addressComplete([Unknown EXCEPT !.ip = ip])
    BY RecordTypes DEF Unknown, addressComplete
  <2> QED BY <1>2, <1>3, <1>4, <2>1 DEF preRegisterDevice
<1>5. ASSUME NEW s \in Serials, requireDevice(s)
      PROVE  \A i \in 1..Len(devices') : Typed(devices'[i])
  <2>1. /\ [Unknown EXCEPT !.serial = s] \in Device
        /\ ~addressComplete([Unknown EXCEPT !.serial = s])
    BY RecordTypes DEF Unknown, addressComplete
  <2> QED BY <1>2, <1>3, <1>5, <2>1 DEF requireDevice
<1>6. ASSUME NEW info \in Infos, registerDevice(info)
      PROVE  \A i \in 1..Len(devices') : Typed(devices'[i])
  <2>1. info \in Device
    BY RecordTypes
  <2>2. Typed(info)
    <3>1. CASE info \in Given
      BY <3>1
    <3>2. CASE info \in Reports
      BY <3>2 DEF Reports, DeviceInfo
    <3>3. CASE info \in {Queried(Filled(d)) : d \in Given}
      <4>1. \A d \in Device : Queried(Filled(d)).typed
        BY RecordTypes DEF Queried, Device
      <4> QED BY <3>3, <4>1, GivenAssumption
    <3> QED BY <3>1, <3>2, <3>3 DEF Infos
  <2>3. CASE \E i \in DOMAIN devices : Updates(devices[i], info)
    BY <1>1, <1>6, <2>1, <2>2, <2>3, OverwriteEntries DEF registerDevice
  <2>4. CASE ~\E i \in DOMAIN devices : Updates(devices[i], info)
    BY <1>3, <1>6, <2>1, <2>2, <2>4 DEF registerDevice
  <2> QED BY <2>3, <2>4
<1>7. CASE eraseNext
  <2>1. PICK j \in 1..Len(devices) :
           /\ Len(devices') = Len(devices) - 1
           /\ \A i \in 1..(Len(devices) - 1) :
                 devices'[i] = devices[IF i < j THEN i ELSE i + 1]
    BY <1>7, EraseEntry
  <2> DEFINE Old(i) == IF i < j THEN i ELSE i + 1
  <2>2. \A i \in 1..Len(devices') : Old(i) \in 1..Len(devices) /\ devices'[i] = devices[Old(i)]
    BY <2>1, ListDomain
  <2> HIDE DEF Old
  <2> QED BY <1>1, <2>2
<1>8. ASSUME NEW n \in DOMAIN devices, fillInterface(n)
      PROVE  \A i \in 1..Len(devices') : Typed(devices'[i])
  <2>1. ASSUME NEW d \in Device, Typed(d) PROVE Typed(Filled(d))
    <3>1. Filled(d).typed = d.typed /\ (addressComplete(Filled(d)) <=> addressComplete(d))
      BY DEF Filled, Device, addressComplete
    <3>2. ASSUME NEW g \in Given, d = g \/ d = Filled(g) PROVE Filled(d) = Filled(g)
      BY <3>2, GivenAssumption DEF Filled, Device
    <3> QED BY <2>1, <3>1, <3>2
  <2>2. /\ Len(devices') = Len(devices)
        /\ \A i \in 1..Len(devices) :
              devices'[i] = IF i = n THEN Filled(devices[i]) ELSE devices[i]
    BY <1>8, FillEntry
  <2> HIDE DEF Typed
  <2> QED BY <1>1, <2>1, <2>2, ListDomain
<1>9. QED
  BY <1>2, <1>4, <1>5, <1>6, <1>7, <1>8 DEF Next, vars, unregisterDevice, eraseDone

(* The answer to queryDeviceType is one of the records that are            *)
(* registered, unless the device was fully known before.                   *)
LEMMA QueriedIsInfo ==
    ASSUME TypeOK, TypedInv, NEW i \in 1..Len(devices), ~isComplete(devices[i]),
           devices[i].interface # None, isComplete(Queried(devices[i]))
    PROVE  Queried(devices[i]) \in Infos
<1> DEFINE d == devices[i]
<1>1. d \in Device
  BY ListDomain
<1>2. addressComplete(d) /\ ~d.typed
  BY <1>1 DEF isComplete, Queried, addressComplete, Device
<1>3. PICK g \in Given : d = g \/ d = Filled(g)
  BY <1>2 DEF TypedInv
<1>4. d = Filled(g)
  BY <1>3 DEF Filled
<1> QED BY <1>3, <1>4 DEF Infos

(* Outside of unregisterDevice, an ip address that has an entry keeps one, *)
(* and no entry is announced by it if none was.                            *)
LEMMA AddressesKept ==
    ASSUME TypeOK, [Next]_vars, op # "unregister",
           NEW ip \in IPs, NEW i \in 1..Len(devices), devices[i].ip = ip
    PROVE  /\ \E j \in 1..Len(devices') : devices'[j].ip = ip
           /\ \A j \in 1..Len(devices') :
                 hasIPAddressOnly(devices'[j]) /\ devices'[j].ip = ip =>
                     \E l \in 1..Len(devices) :
                         hasIPAddressOnly(devices[l]) /\ devices[l].ip = ip
<1> DEFINE Goal == /\ \E j \in 1..Len(devices') : devices'[j].ip = ip
                   /\ \A j \in 1..Len(devices') :
                         hasIPAddressOnly(devices'[j]) /\ devices'[j].ip = ip =>
                             \E l \in 1..Len(devices) :
                                 hasIPAddressOnly(devices[l]) /\ devices[l].ip = ip
<1> SUFFICES Goal
  OBVIOUS
<1>1. CASE UNCHANGED devices
  BY <1>1
<1>2. ASSUME NEW d \in Device, devices' = Append(devices, d),
             hasIPAddressOnly(d) => d.ip # ip
      PROVE  Goal
  BY <1>2, AppendEntry, ListDomain
<1>3. ASSUME NEW new \in IPs, preRegisterDevice(new) PROVE Goal
  <2>1. [Unknown EXCEPT !.ip = new] \in Device /\ [Unknown EXCEPT !.ip = new].ip = new
    BY RecordTypes DEF Unknown
  <2>2. CASE new = ip
    BY <1>1, <1>3, <2>2, ListDomain DEF preRegisterDevice
  <2>3. CASE new # ip
    BY <1>1, <1>2, <1>3, <2>1, <2>3 DEF preRegisterDevice
  <2> QED BY <2>2, <2>3
<1>4. ASSUME NEW s \in Serials, requireDevice(s) PROVE Goal
  <2>1. /\ [Unknown EXCEPT !.serial = s] \in Device
        /\ ~hasIPAddressOnly([Unknown EXCEPT !.serial = s])
    BY RecordTypes DEF Unknown, hasIPAddressOnly
  <2> QED BY <1>1, <1>2, <1>4, <2>1 DEF requireDevice
<1>5. ASSUME NEW info \in Infos, registerDevice(info) PROVE Goal
  <2>1. info \in Device /\ ~hasIPAddressOnly(info)
    BY RecordTypes DEF Registered, hasIPAddressOnly
  <2>2. CASE \E j \in DOMAIN devices : Updates(devices[j], info)
    <3>1. /\ Len(devices') = Len(devices)
          /\ \A j \in 1..Len(devices) :
                devices'[j] = IF Updates(devices[j], info) THEN info ELSE devices[j]
      BY <1>5, <2>1, <2>2, OverwriteEntries DEF registerDevice
    <3>2. Updates(devices[i], info) => info.ip = ip
      BY NoneAssumption DEF Updates, Same, hasSerialNumberOnly
    <3>3. devices'[i].ip = ip
      BY <3>1, <3>2
    <3> QED BY <2>1, <3>1, <3>3
  <2>3. CASE ~\E j \in DOMAIN devices : Updates(devices[j], info)
    BY <1>2, <1>5, <2>1, <2>3 DEF registerDevice
  <2> QED BY <2>2, <2>3
<1>6. CASE eraseNext
  <2>1. PICK e \in 1..Len(devices) :
           /\ ToErase(e)
           /\ Len(devices') = Len(devices) - 1
           /\ \A j \in 1..(Len(devices) - 1) :
                 devices'[j] = devices[IF j < e THEN j ELSE j + 1]
    BY <1>6, EraseEntry
  <2> DEFINE Old(j) == IF j < e THEN j ELSE j + 1
  <2>2. \A j \in 1..Len(devices') : Old(j) \in 1..Len(devices) /\ devices'[j] = devices[Old(j)]
    BY <2>1, ListDomain
  <2>3. \E j \in 1..Len(devices') : devices'[j].ip = ip
    <3>1. \E l \in 1..Len(devices) : l # e /\ devices[l].ip = ip
      <4>1. PICK l \in 1..(e - 1) : Same(devices[l], devices[e])
        BY <2>1 DEF ToErase
      <4> QED BY <4>1, ListDomain DEF Same
    <3>2. PICK l \in 1..Len(devices) : l # e /\ devices[l].ip = ip
      BY <3>1
    <3>3. CASE l < e
      <4>1. l \in 1..(Len(devices) - 1) /\ devices'[l] = devices[l]
        BY <2>1, <3>2, <3>3, ListDomain
      <4> QED BY <2>1, <3>2, <4>1
    <3>4. CASE l > e
      <4>1. l - 1 \in 1..(Len(devices) - 1) /\ ~(l - 1 < e) /\ (l - 1) + 1 = l
        BY <3>4, ListDomain
      <4>2. devices'[l - 1] = devices[l]
        BY <2>1, <4>1
      <4> QED BY <2>1, <3>2, <4>1, <4>2
    <3> QED BY <3>2, <3>3, <3>4, ListDomain
  <2> HIDE DEF Old
  <2> QED BY <2>2, <2>3
<1>7. ASSUME NEW n \in DOMAIN devices, fillInterface(n) PROVE Goal
  <2>1. /\ Len(devices') = Len(devices)
        /\ \A j \in 1..Len(devices) :
              /\ devices'[j].susy = devices[j].susy
              /\ devices'[j].serial = devices[j].serial
              /\ devices'[j].ip = devices[j].ip
    BY <1>7, FillEntry, FilledKeeps, ListDomain
  <2> QED BY <2>1 DEF hasIPAddressOnly, addressComplete
<1>8. QED
  BY <1>1, <1>3, <1>4, <1>5, <1>6, <1>7 DEF Next, vars, unregisterDevice, eraseDone

-----------------------------------------------------------------------------
(* The results.                                                            *)

(* The list starts empty.                                                  *)
LEMMA InitInv == Init => IInv /\ KnownInv
<1> SUFFICES ASSUME Init PROVE IInv /\ KnownInv
  OBVIOUS
<1>1. devices \in Seq(Device) /\ Len(devices) = 0 /\ DOMAIN devices = {}
  BY DEF Init
<1>2. TypeOK
  BY <1>1, RecordTypes DEF Init, TypeOK
<1> QED BY <1>1, <1>2 DEF IInv, EntriesInv, AnnouncementsOpen, KnownInv

LEMMA IInvStep == IInv /\ [Next]_vars => IInv'
BY TypeStep, EntriesStep DEF IInv

(* Every variable keeps its type, and no announcement stays in the list of *)
(* a device that is there, whatever is registered: complete records,       *)
(* records without an interface or records of unknown type.                *)
THEOREM AnnouncementsStayOpen == Spec => [](TypeOK /\ AnnouncementsOpen)
<1>1. Init => IInv
  BY InitInv
<1>2. IInv /\ [Next]_vars => IInv'
  BY IInvStep
<1>3. IInv => TypeOK /\ AnnouncementsOpen
  BY DEF IInv
<1> QED BY <1>1, <1>2, <1>3, PTL DEF Spec

LEMMA KnownAlways == AllComplete /\ Spec => [](IInv /\ KnownInv)
<1> SUFFICES ASSUME AllComplete PROVE Spec => [](IInv /\ KnownInv)
  OBVIOUS
<1>1. Init => IInv /\ KnownInv
  BY InitInv
<1>2. IInv /\ KnownInv /\ [Next]_vars => IInv' /\ KnownInv'
  BY IInvStep, KnownStep DEF IInv
<1> QED BY <1>1, <1>2, PTL DEF Spec

(* If all records that are registered are complete, the list holds no      *)
(* device twice and no announcement of a device that is there.             *)
THEOREM ListStaysConsistent == AllComplete /\ Spec => []ListConsistent
<1>1. ASSUME IInv, KnownInv PROVE ListConsistent
  <2>1. NoDuplicates
    BY <1>1, ListDomain DEF KnownInv, NoDuplicates, IInv
  <2> QED BY <1>1, <2>1 DEF IInv, ListConsistent
<1> QED BY <1>1, KnownAlways, PTL

(* If all records that are registered are complete, no packet and no loop  *)
(* over the list loses what is known of a device that nobody unregisters.  *)
THEOREM KnownDevicesKept == AllComplete /\ Spec => KnownStaysKnown
<1> DEFINE Keeps == op # "unregister" =>
                      \A i \in DOMAIN devices : isComplete(devices[i]) =>
                          \E j \in DOMAIN devices' :
                              Same(devices'[j], devices[i]) /\ isComplete(devices'[j])
<1> SUFFICES ASSUME AllComplete PROVE Spec => KnownStaysKnown
  OBVIOUS
<1>1. IInv /\ KnownInv /\ [Next]_vars => [Keeps]_vars
  BY KnownKept DEF IInv
<1>2. Spec => [](IInv /\ KnownInv)
  BY KnownAlways
<1> QED BY <1>1, <1>2, PTL DEF Spec, KnownStaysKnown

=============================================================================
