------------------------ MODULE MeasurementProofs ------------------------
(***************************************************************************)
(* Proofs about what is measured. First RingBuffer and MeasurementValues,  *)
(* for every capacity, time width, size_t width and set of values: the     *)
(* representation invariant of the buffer, what reading yields, that it    *)
(* implements BoundedHistory, that the binary search finds the closest     *)
(* element, that the interpolation takes the two closest ones, that means, *)
(* variances and slopes are those of their definitions, and that the       *)
(* segmentation covers the values once.                                    *)
(*                                                                         *)
(* Then MeasurementPipeline, for any emeters and inverters, any packets,   *)
(* clock and averaging times, and for times of any width: the averaging    *)
(* processor on its own, fed with any times in any order, the pace of its  *)
(* timers in the chain, the decision on each packet, the expansion of      *)
(* times, the power of the household, the buffers of the powers, the       *)
(* signed values calculated of them, and what is fed to the producer.      *)
(***************************************************************************)
EXTENDS MeasurementValues, MeasurementPipeline, MeasurementLemmas

(***************************************************************************)
(* The ring buffer: the representation invariant.                          *)
(***************************************************************************)
(* The sizes stay within the range in which size_t sums do not wrap.       *)
CapacityFits == 2 * capacity < SizeMax

IInv == TypeOK /\ WritePointerFits /\ RefsFit /\ CapacityFits

(* Constructing a buffer establishes the representation invariant.         *)
LEMMA InitIInv == Init => IInv
<1> SUFFICES ASSUME Init PROVE IInv
  OBVIOUS
<1>1. capacity \in Nat /\ 2 * capacity < SizeMax
  BY CapacitiesAssumption, SizeMaxAssumption DEF Init
<1>2. ref_vector \in [0..(ref_size - 1) -> Pointer]
  BY DEF Init, NullPtr, Pointer
<1>3. data_vector \in [0..(size - 1) -> Values]
  BY DEF Init, Empty
<1> QED
  BY <1>1, <1>2, <1>3 DEF Init, IInv, TypeOK, WritePointerFits, RefsFit, CapacityFits

(* Under the invariant at(i) is the element operator[] finds.              *)
LEMMA AtIsElement ==
  ASSUME IInv, NEW i \in 0..(size - 1)
  PROVE  /\ at(i) = Index(i)
         /\ at(i) \in Values
         /\ getDataVectorIndex(i) \in 0..(size - 1)
         /\ getDataVectorIndex(i) =
               IF write_pointer + i >= size THEN write_pointer + i - size
                                            ELSE write_pointer + i
         /\ Index(i) = data_vector[getDataVectorIndex(i)]
<1> DEFINE k == write_pointer + i
<1>1. k \in 0..(2 * size - 1)
  BY DEF IInv, TypeOK, WritePointerFits
<1>2. k < SizeMax /\ SizeMax \in Nat
  BY <1>1, SizeMaxAssumption DEF IInv, TypeOK, CapacityFits
<1>3. getDataVectorIndex(i) = IF k >= size THEN k - size ELSE k
  <2>1. Wrap(k) = k
    BY <1>1, <1>2 DEF Wrap
  <2>2. k >= size => Wrap(k - size) = k - size
    BY <1>1, <1>2 DEF Wrap, IInv, TypeOK
  <2>3. i < size
    BY DEF IInv, TypeOK
  <2> QED
    BY <2>1, <2>2, <2>3 DEF getDataVectorIndex
<1>4. getDataVectorIndex(i) \in 0..(size - 1)
  BY <1>1, <1>3 DEF IInv, TypeOK
<1>5. OutOfBounds \notin 0..(size - 1)
  BY SizeMaxAssumption DEF OutOfBounds, IInv, TypeOK, CapacityFits
<1>6. Index(i) = data_vector[getDataVectorIndex(i)]
  BY <1>4, <1>5 DEF Index
<1>7. ref_vector[k] = [alloc |-> capacity, idx |-> IF k < size THEN k ELSE k - size]
  BY <1>1 DEF IInv, RefsFit
<1>8. k < ref_size
  BY <1>1 DEF IInv, TypeOK, RefsFit
<1>9. ref_vector[k].idx = getDataVectorIndex(i) /\ ref_vector[k].alloc = capacity
  BY <1>1, <1>3, <1>7 DEF IInv, TypeOK
<1>10. at(i) = data_vector[getDataVectorIndex(i)]
  BY <1>4, <1>8, <1>9 DEF at, IInv, TypeOK
<1> QED
  BY <1>3, <1>4, <1>6, <1>10 DEF IInv, TypeOK

(* RefsTo writes the pointers the invariant asks for.                      *)
LEMMA RefsToFit ==
  ASSUME NEW n \in Nat, NEW alloc \in Nat, NEW len \in Nat, 2 * n <= len, TypeOK
  PROVE  /\ RefsTo(n, alloc, len) \in [0..(len - 1) -> Pointer]
         /\ \A k \in 0..(2 * n - 1) :
               RefsTo(n, alloc, len)[k] =
                  [alloc |-> alloc, idx |-> IF k < n THEN k ELSE k - n]
<1>1. ASSUME NEW k \in 0..(len - 1)
      PROVE  RefsTo(n, alloc, len)[k] \in Pointer
  <2>1. CASE k < n
    BY <2>1 DEF RefsTo, Pointer
  <2>2. CASE ~(k < n) /\ k < 2 * n
    BY <2>2 DEF RefsTo, Pointer
  <2>3. CASE ~(k < n) /\ ~(k < 2 * n) /\ k < ref_size
    BY <2>3 DEF RefsTo, Pointer, TypeOK
  <2>4. CASE ~(k < n) /\ ~(k < 2 * n) /\ ~(k < ref_size)
    BY <2>4 DEF RefsTo, Pointer, NullPtr
  <2> QED BY <2>1, <2>2, <2>3, <2>4
<1>2. RefsTo(n, alloc, len) \in [0..(len - 1) -> Pointer]
  BY <1>1 DEF RefsTo
<1>3. ASSUME NEW k \in 0..(2 * n - 1)
      PROVE  RefsTo(n, alloc, len)[k] =
                [alloc |-> alloc, idx |-> IF k < n THEN k ELSE k - n]
  BY <1>3 DEF RefsTo
<1> QED BY <1>2, <1>3

(* addNewElement keeps the invariant, on the overwriting and on the        *)
(* growing path.                                                           *)
LEMMA AddIInv ==
  ASSUME IInv, NEW v \in Values, addNewElement(v)
  PROVE  IInv'
<1>1. CASE size > write_pointer
  <2>1. size = capacity /\ write_pointer < capacity /\ write_pointer \in 0..(size - 1)
    BY <1>1 DEF IInv, TypeOK, WritePointerFits
  <2>2. UNCHANGED <<size, capacity, ref_vector, ref_size>>
    BY <1>1 DEF addNewElement
  <2>3. data_vector' \in [0..(size - 1) -> Values]
    BY <1>1, <2>1 DEF addNewElement, IInv, TypeOK
  <2>4. write_pointer' \in Nat /\ write_pointer' < capacity
    BY <2>1, <2>2 DEF addNewElement, AdvanceWritePointer, IInv, TypeOK
  <2> QED
    BY <2>1, <2>2, <2>3, <2>4 DEF IInv, TypeOK, WritePointerFits, RefsFit, CapacityFits
<1>2. CASE ~(size > write_pointer)
  <2>1. write_pointer = size /\ (size < capacity \/ (size = 0 /\ capacity = 0))
    BY <1>2 DEF IInv, TypeOK, WritePointerFits
  <2>2. /\ size' = size + 1
        /\ capacity' = IF size < capacity THEN capacity ELSE 1
        /\ ref_size' = 2 * (size + 1)
        /\ ref_vector' = RefsTo(size + 1, capacity', ref_size')
    BY <1>2, <2>1 DEF addNewElement, PushBackCapacity, IInv, TypeOK
  <2>3. /\ capacity' \in Nat
        /\ size' \in Nat
        /\ size' <= capacity'
        /\ 2 * capacity' < SizeMax
    BY <2>1, <2>2, SizeMaxAssumption DEF IInv, TypeOK, CapacityFits
  <2>4. data_vector' \in [0..(size' - 1) -> Values]
    BY <1>2, <2>2 DEF addNewElement, IInv, TypeOK
  <2>5. /\ ref_vector' \in [0..(ref_size' - 1) -> Pointer]
        /\ \A k \in 0..(2 * size' - 1) :
              ref_vector'[k] =
                 [alloc |-> capacity', idx |-> IF k < size' THEN k ELSE k - size']
    <3>1. size + 1 \in Nat /\ ref_size' \in Nat /\ 2 * (size + 1) <= ref_size' /\ TypeOK
      BY <2>2, <2>3 DEF IInv, TypeOK
    <3>2. /\ RefsTo(size + 1, capacity', ref_size') \in [0..(ref_size' - 1) -> Pointer]
          /\ \A k \in 0..(2 * (size + 1) - 1) :
                RefsTo(size + 1, capacity', ref_size')[k] =
                   [alloc |-> capacity',
                    idx |-> IF k < size + 1 THEN k ELSE k - (size + 1)]
      BY <2>3, <3>1, RefsToFit
    <3> QED BY <2>2, <3>2
  <2>6. write_pointer' = IF size + 1 >= capacity' THEN 0 ELSE size + 1
    BY <2>1 DEF addNewElement, AdvanceWritePointer
  <2>7. WritePointerFits' /\ write_pointer' \in Nat
    BY <2>1, <2>2, <2>3, <2>6 DEF WritePointerFits, IInv, TypeOK
  <2> QED
    BY <2>2, <2>3, <2>4, <2>5, <2>7 DEF IInv, TypeOK, RefsFit, CapacityFits
<1> QED BY <1>1, <1>2

(* removeElements keeps the invariant, for arguments whose sum is a size_t.*)
LEMMA RemoveIInv ==
  ASSUME IInv, NEW offs \in Nat, NEW n \in Nat, offs + n < SizeMax,
         removeElements(offs, n)
  PROVE  IInv'
<1> DEFINE head  == IF offs < size THEN offs ELSE size
           start == Wrap(offs + n)
           tail  == IF start < size THEN size - start ELSE 0
           temp  == head + tail
<1>1. start = offs + n /\ start \in Nat
  BY SizeMaxAssumption DEF Wrap
<1>2. temp \in Nat /\ temp <= size /\ head \in Nat /\ tail \in Nat
  <2> HIDE DEF start
  <2> QED BY <1>1 DEF IInv, TypeOK
<1>3. /\ size' = temp
      /\ data_vector' = [i \in 0..(temp - 1) |->
                            IF i < head THEN at(i) ELSE at(start + (i - head))]
      /\ capacity' = capacity
      /\ write_pointer' = IF temp >= capacity THEN 0 ELSE temp
      /\ ref_vector' = RefsTo(temp, capacity, ref_size)
      /\ ref_size' = ref_size
  <2>1. /\ size' = temp
        /\ data_vector' = [i \in 0..(temp - 1) |->
                              IF i < head THEN at(i) ELSE at(start + (i - head))]
        /\ capacity' = IF temp <= capacity THEN capacity ELSE 2 * capacity
        /\ write_pointer' = IF temp >= capacity' THEN 0 ELSE temp
        /\ ref_vector' = RefsTo(temp, capacity', ref_size)
        /\ ref_size' = ref_size
    BY DEF removeElements
  <2> HIDE DEF temp, head, start
  <2>2. capacity' = capacity
    BY <1>2, <2>1 DEF IInv, TypeOK
  <2> QED BY <2>1, <2>2
<1>4. \A i \in 0..(size - 1) : at(i) \in Values
  BY AtIsElement
<1>5. data_vector' \in [0..(temp - 1) -> Values]
  <2>1. ASSUME NEW i \in 0..(temp - 1), i < head
        PROVE  at(i) \in Values
    BY <1>4, <2>1 DEF IInv, TypeOK
  <2>2. ASSUME NEW i \in 0..(temp - 1), ~(i < head)
        PROVE  at(start + (i - head)) \in Values
    <3>1. start + (i - head) \in 0..(size - 1)
      <4> HIDE DEF start
      <4> QED BY <1>1, <2>2 DEF IInv, TypeOK
    <3> QED BY <1>4, <3>1
  <2> HIDE DEF head, temp, start
  <2> QED BY <1>3, <2>1, <2>2
<1>6. /\ ref_vector' \in [0..(ref_size - 1) -> Pointer]
      /\ \A k \in 0..(2 * temp - 1) :
            ref_vector'[k] = [alloc |-> capacity, idx |-> IF k < temp THEN k ELSE k - temp]
  <2>1. 2 * temp <= ref_size
    BY <1>2 DEF IInv, TypeOK, RefsFit
  <2> HIDE DEF temp
  <2>2. TypeOK /\ capacity \in Nat /\ ref_size \in Nat
    BY DEF IInv, TypeOK
  <2>3. /\ RefsTo(temp, capacity, ref_size) \in [0..(ref_size - 1) -> Pointer]
        /\ \A k \in 0..(2 * temp - 1) :
              RefsTo(temp, capacity, ref_size)[k] =
                 [alloc |-> capacity, idx |-> IF k < temp THEN k ELSE k - temp]
    BY <1>2, <2>1, <2>2, RefsToFit
  <2> QED BY <1>3, <2>3
<1>7. WritePointerFits' /\ write_pointer' \in Nat
  <2> HIDE DEF temp
  <2> QED BY <1>2, <1>3 DEF WritePointerFits, IInv, TypeOK
<1> HIDE DEF temp
<1> QED
  BY <1>2, <1>3, <1>5, <1>6, <1>7 DEF IInv, TypeOK, RefsFit, CapacityFits

(* Emptying, resizing and copying keep the invariant: pointers into an     *)
(* older allocation may remain, but never among the first 2 * size.        *)
LEMMA ResetIInv ==
  ASSUME IInv,
         \/ clear
         \/ \E n \in Capacities : setMaximumNumberOfElements(n)
         \/ copyOfEmpty
  PROVE  IInv'
<1>1. CASE clear
  BY <1>1 DEF clear, Empty, IInv, TypeOK, WritePointerFits, RefsFit, CapacityFits
<1>2. ASSUME NEW n \in Capacities, setMaximumNumberOfElements(n)
      PROVE  IInv'
  <2>1. n \in Nat /\ 2 * n < SizeMax
    BY CapacitiesAssumption, SizeMaxAssumption
  <2> QED
    BY <1>2, <2>1 DEF setMaximumNumberOfElements, Empty, IInv, TypeOK,
                      WritePointerFits, RefsFit, CapacityFits
<1>3. CASE copyOfEmpty
  <2>1. ref_vector' \in [0..(ref_size - 1) -> Pointer]
    BY <1>3 DEF copyOfEmpty, NullPtr, Pointer
  <2> QED
    BY <1>3, <2>1, SizeMaxAssumption DEF copyOfEmpty, IInv, TypeOK, WritePointerFits,
                                         RefsFit, CapacityFits
<1> QED BY <1>1, <1>2, <1>3

(* Every step keeps the invariant.                                         *)
LEMMA NextIInv == IInv /\ [Next]_vars => IInv'
<1> SUFFICES ASSUME IInv, [Next]_vars PROVE IInv'
  OBVIOUS
<1>1. ASSUME NEW v \in Values, addNewElement(v) PROVE IInv'
  BY <1>1, AddIInv
<1>2. ASSUME NEW offs \in Args, NEW n \in Args, offs + n < SizeMax, removeElements(offs, n)
      PROVE  IInv'
  <2>1. offs \in Nat /\ n \in Nat
    BY ArgsAssumption
  <2> QED BY <1>2, <2>1, RemoveIInv
<1>3. CASE UNCHANGED vars
  BY <1>3 DEF vars, IInv, TypeOK, WritePointerFits, RefsFit, CapacityFits
<1> QED BY <1>1, <1>2, <1>3, ResetIInv DEF Next

(* The representation invariant always holds.                              *)
THEOREM RepresentationInvariant == Spec => []IInv
  BY InitIInv, NextIInv, PTL DEF Spec

(* The type invariant, the place of the write pointer and the pointers of  *)
(* ref_vector are right in every reachable state of every buffer.          *)
THEOREM TypeCorrect == Spec => []BufferConsistent
<1>1. IInv => BufferConsistent
  BY DEF IInv, BufferConsistent
<1> QED BY <1>1, RepresentationInvariant, PTL

(* at() follows a valid pointer to the element operator[] returns, for     *)
(* every valid index of every reachable buffer.                            *)
THEOREM AtCorrect == Spec => []AtAgreesWithIndex
<1>1. ASSUME IInv PROVE AtAgreesWithIndex
  <2>1. \A i \in 0..(size - 1) : at(i) = Index(i) /\ at(i) # Garbage
    BY <1>1, AtIsElement, GarbageAssumption
  <2>2. size \in Nat /\ size < SizeMax /\ SizeMax \in Nat /\ ~(OutOfBounds < size)
    BY <1>1, SizeMaxAssumption DEF IInv, TypeOK, CapacityFits, OutOfBounds
  <2>3. CASE size = 0
    <3>1. Wrap(size - 1) = OutOfBounds
      BY <2>2, <2>3 DEF Wrap, OutOfBounds
    <3>2. getDataVectorIndex(0) = OutOfBounds /\ getDataVectorIndex(OutOfBounds) = OutOfBounds
      BY <2>2, <2>3 DEF getDataVectorIndex
    <3> QED
      BY <2>1, <2>3, <3>1, <3>2 DEF AtAgreesWithIndex, getOldestElement, getNewestElement, Index
  <2>4. CASE size # 0
    <3>1. Wrap(size - 1) = size - 1 /\ size - 1 \in 0..(size - 1) /\ 0 \in 0..(size - 1)
      BY <2>2, <2>4 DEF Wrap
    <3> QED
      BY <2>1, <2>4, <3>1 DEF AtAgreesWithIndex, getOldestElement, getNewestElement
  <2> QED BY <2>3, <2>4
<1> QED BY <1>1, RepresentationInvariant, PTL

(* The two index conversions are inverse to each other in every reachable  *)
(* buffer.                                                                 *)
THEOREM ConversionsCorrect == Spec => []IndexConversionsInverse
<1>1. ASSUME IInv PROVE IndexConversionsInverse
  <2> USE <1>1
  <2>1. size \in Nat /\ write_pointer \in 0..size /\ 2 * size < SizeMax /\ SizeMax \in Nat
    BY SizeMaxAssumption DEF IInv, TypeOK, CapacityFits, WritePointerFits
  <2>2. ASSUME NEW d \in 0..(size - 1)
        PROVE  getRingBufferIndex(d) = IF d < write_pointer THEN (d - write_pointer) + size
                                                            ELSE d - write_pointer
    <3>1. CASE d < write_pointer
      <4>1. Wrap(d - write_pointer) = d - write_pointer + SizeMax
        BY <2>1, <3>1 DEF Wrap
      <4>2. Wrap((d - write_pointer + SizeMax) + size) = (d - write_pointer) + size
        BY <2>1, <3>1 DEF Wrap
      <4>3. d - write_pointer + SizeMax >= size /\ d < size
        BY <2>1
      <4> QED BY <3>1, <4>1, <4>2, <4>3 DEF getRingBufferIndex
    <3>2. CASE ~(d < write_pointer)
      <4>1. Wrap(d - write_pointer) = d - write_pointer
        BY <2>1, <3>2 DEF Wrap
      <4>2. ~(d - write_pointer >= size) /\ d < size
        BY <2>1, <3>2
      <4> QED BY <3>2, <4>1, <4>2 DEF getRingBufferIndex
    <3> QED BY <3>1, <3>2
  <2>3. ASSUME NEW i \in 0..(size - 1)
        PROVE  /\ getDataVectorIndex(i) \in 0..(size - 1)
               /\ getDataVectorIndex(i) =
                     IF write_pointer + i >= size THEN write_pointer + i - size
                                                  ELSE write_pointer + i
    BY AtIsElement
  <2>4. ASSUME NEW i \in 0..(size - 1)
        PROVE  getRingBufferIndex(getDataVectorIndex(i)) = i
    <3> DEFINE d == getDataVectorIndex(i)
    <3>1. d \in 0..(size - 1) /\ d = IF write_pointer + i >= size
                                     THEN write_pointer + i - size ELSE write_pointer + i
      BY <2>3
    <3> HIDE DEF d
    <3>2. getRingBufferIndex(d) = IF d < write_pointer THEN (d - write_pointer) + size
                                                       ELSE d - write_pointer
      BY <2>2, <3>1
    <3>3. getRingBufferIndex(d) = i
      BY <2>1, <3>1, <3>2
    <3> QED BY <3>3 DEF d
  <2>5. ASSUME NEW i \in 0..(size - 1)
        PROVE  getDataVectorIndex(getRingBufferIndex(i)) = i
    <3> DEFINE r == getRingBufferIndex(i)
    <3>1. r = IF i < write_pointer THEN (i - write_pointer) + size ELSE i - write_pointer
      BY <2>2
    <3> HIDE DEF r
    <3>2. r \in 0..(size - 1)
      BY <2>1, <3>1
    <3>3. getDataVectorIndex(r) = IF write_pointer + r >= size THEN write_pointer + r - size
                                                               ELSE write_pointer + r
      BY <2>3, <3>2
    <3>4. getDataVectorIndex(r) = i
      BY <2>1, <3>1, <3>2, <3>3
    <3> QED BY <3>4 DEF r
  <2> QED BY <2>3, <2>4, <2>5 DEF IndexConversionsInverse
<1> QED BY <1>1, RepresentationInvariant, PTL

-----------------------------------------------------------------------------
(***************************************************************************)
(* Refinement of BoundedHistory.                                           *)
(***************************************************************************)

(* The history a buffer stands for.                                        *)
Hist == [i \in 0..(size - 1) |-> Index(i)]

(* The empty buffer stands for the empty history.                          *)
LEMMA EmptyHist == size = 0 => Hist = [i \in 0..(size - 1) |-> 0]
<1> SUFFICES ASSUME size = 0 PROVE Hist = [i \in 0..(size - 1) |-> 0]
  OBVIOUS
<1>1. 0..(size - 1) = {}
  OBVIOUS
<1> QED BY <1>1 DEF Hist

(* A constructed buffer is an empty history.                               *)
LEMMA InitHistory == Init => History!Init
  BY EmptyHist DEF Init, History!Init, Hist

(* Where the element at a ring buffer index is stored.                     *)
Slot(i) == IF write_pointer + i >= size THEN write_pointer + i - size
                                        ELSE write_pointer + i

ReadsSlots == \A i \in 0..(size - 1) : Hist[i] = data_vector[Slot(i)]

(* Reading the buffer from index 0 on walks through the slots, starting at *)
(* the write pointer, before and after a step.                             *)
LEMMA HistReadsSlots == IInv => ReadsSlots
  BY AtIsElement DEF Hist, Slot, ReadsSlots

LEMMA HistReadsSlotsPrimed == IInv' => ReadsSlots'
  BY HistReadsSlots, PTL

(* addNewElement appends to the history and drops the oldest value of a    *)
(* full one.                                                               *)
LEMMA AddHistory ==
  ASSUME IInv, IInv', NEW v \in Values, addNewElement(v)
  PROVE  History!Add(v)
<1>1. /\ \A i \in 0..(size - 1) : Hist[i] = data_vector[Slot(i)]
      /\ \A i \in 0..(size' - 1) : Hist'[i] = data_vector'[Slot(i)']
  BY HistReadsSlots, HistReadsSlotsPrimed DEF ReadsSlots
<1>2. CASE size > write_pointer
  <2>1. size = capacity /\ capacity # 0 /\ write_pointer \in 0..(size - 1) /\ size \in Nat
    BY <1>2 DEF IInv, TypeOK, WritePointerFits
  <2>2. /\ UNCHANGED <<size, capacity>>
        /\ data_vector' = [data_vector EXCEPT ![write_pointer] = v]
        /\ write_pointer' = IF write_pointer + 1 >= size THEN 0 ELSE write_pointer + 1
        /\ data_vector \in [0..(size - 1) -> Values]
    BY <1>2, <2>1 DEF addNewElement, AdvanceWritePointer, IInv, TypeOK
  <2>3. ASSUME NEW i \in 0..(size - 1)
        PROVE  Hist'[i] = IF i = size - 1 THEN v ELSE Hist[i + 1]
    <3>1. CASE i = size - 1
      <4>1. Slot(i)' = write_pointer
        BY <2>1, <2>2, <3>1 DEF Slot
      <4> QED BY <1>1, <2>1, <2>2, <3>1, <4>1
    <3>2. CASE i # size - 1
      <4>1. Slot(i)' = Slot(i + 1) /\ Slot(i + 1) # write_pointer
            /\ Slot(i + 1) \in 0..(size - 1) /\ i + 1 \in 0..(size - 1)
        BY <2>1, <2>2, <3>2 DEF Slot
      <4>2. Hist'[i] = data_vector[Slot(i + 1)]
        BY <1>1, <2>1, <2>2, <4>1
      <4> QED BY <1>1, <3>2, <4>1, <4>2
    <3> QED BY <3>1, <3>2
  <2>4. Hist' = [i \in 0..(size - 1) |-> IF i = size - 1 THEN v ELSE Hist[i + 1]]
    <3>1. Hist' = [i \in 0..(size' - 1) |-> Hist'[i]]
      BY DEF Hist
    <3> QED BY <2>2, <2>3, <3>1
  <2> QED
    BY <2>1, <2>2, <2>4 DEF History!Add, Hist
<1>3. CASE ~(size > write_pointer)
  <2>1. /\ write_pointer = size /\ size \in Nat /\ capacity \in Nat
        /\ size < capacity \/ (size = 0 /\ capacity = 0)
    BY <1>3 DEF IInv, TypeOK, WritePointerFits
  <2>2. /\ size' = size + 1
        /\ capacity' = IF capacity = 0 THEN 1 ELSE capacity
        /\ data_vector' = [i \in 0..size |-> IF i = size THEN v ELSE data_vector[i]]
        /\ write_pointer' = IF size + 1 >= capacity' THEN 0 ELSE size + 1
    BY <1>3, <2>1 DEF addNewElement, PushBackCapacity, AdvanceWritePointer
  <2>3. ASSUME NEW i \in 0..size
        PROVE  Hist'[i] = IF i = size THEN v ELSE Hist[i]
    <3>1. Slot(i)' = i /\ i \in 0..(size' - 1)
      BY <2>1, <2>2 DEF Slot
    <3>2. i # size => Slot(i) = i /\ i \in 0..(size - 1)
      BY <2>1 DEF Slot
    <3> QED BY <1>1, <2>2, <3>1, <3>2
  <2>4. Hist' = [i \in 0..size |-> IF i = size THEN v ELSE Hist[i]]
    <3>1. Hist' = [i \in 0..(size' - 1) |-> Hist'[i]] /\ size' - 1 = size
      BY <2>1, <2>2 DEF Hist
    <3> QED BY <2>3, <3>1
  <2>5. size < capacity'
    BY <2>1, <2>2
  <2> QED
    BY <2>2, <2>4, <2>5 DEF History!Add, Hist
<1> QED BY <1>2, <1>3

(* removeElements cuts the range out of the history and keeps the order of *)
(* what remains.                                                           *)
LEMMA RemoveHistory ==
  ASSUME IInv, IInv', NEW offs \in Nat, NEW n \in Nat, offs + n < SizeMax,
         removeElements(offs, n)
  PROVE  History!Remove(offs, n)
<1> DEFINE head  == History!KeptBefore(offs)
           start == offs + n
           tail  == History!KeptBehind(start)
           temp  == head + tail
<1>1. Wrap(offs + n) = start /\ start \in Nat
  BY SizeMaxAssumption DEF Wrap
<1>2. temp \in Nat /\ temp <= size /\ head \in Nat /\ tail \in Nat /\ size \in Nat
  BY DEF IInv, TypeOK, History!KeptBefore, History!KeptBehind
<1>3. /\ size' = temp
      /\ data_vector' = [i \in 0..(temp - 1) |->
                            IF i < head THEN at(i) ELSE at(start + (i - head))]
      /\ capacity' = IF temp <= capacity THEN capacity ELSE 2 * capacity
      /\ write_pointer' = IF temp >= capacity' THEN 0 ELSE temp
  BY <1>1 DEF removeElements, History!KeptBefore, History!KeptBehind
<1>4. capacity' = capacity /\ capacity \in Nat /\ size <= capacity
  <2> HIDE DEF temp
  <2> QED BY <1>2, <1>3 DEF IInv, TypeOK
<1>5. \A i \in 0..(size - 1) : Hist[i] = at(i)
  BY AtIsElement DEF Hist
<1>6. \A i \in 0..(size' - 1) : Hist'[i] = data_vector'[Slot(i)']
  BY HistReadsSlotsPrimed DEF ReadsSlots
<1>7. ASSUME NEW i \in 0..(temp - 1)
      PROVE  Hist'[i] = IF i < head THEN Hist[i] ELSE Hist[start + (i - head)]
  <2>1. Slot(i)' = i
    <3> HIDE DEF temp
    <3> QED BY <1>2, <1>3, <1>4 DEF Slot
  <2>2. Hist'[i] = IF i < head THEN at(i) ELSE at(start + (i - head))
    <3> HIDE DEF temp, head, start
    <3> QED BY <1>3, <1>6, <2>1
  <2>3. i < head => i \in 0..(size - 1)
    BY <1>2
  <2>4. ~(i < head) => start + (i - head) \in 0..(size - 1)
    BY <1>1, <1>2 DEF History!KeptBefore, History!KeptBehind
  <2> HIDE DEF temp, head, start
  <2> QED BY <1>5, <2>2, <2>3, <2>4
<1>8. Hist' = [i \in 0..(temp - 1) |-> Hist'[i]]
  BY <1>3 DEF Hist
<1>9. Hist' = History!Cut(Hist, head, start, temp)
  <2> HIDE DEF head, start, temp
  <2> QED BY <1>7, <1>8 DEF History!Cut
<1> QED
  BY <1>3, <1>4, <1>9 DEF History!Remove, Hist

(* Every step of the buffer is a step of the history or leaves it alone.   *)
LEMMA NextHistory == IInv /\ IInv' /\ [Next]_vars => [History!Next]_(History!vars)
<1> SUFFICES ASSUME IInv, IInv', [Next]_vars PROVE [History!Next]_(History!vars)
  OBVIOUS
<1>1. ASSUME NEW v \in Values, addNewElement(v) PROVE History!Next
  BY <1>1, AddHistory DEF History!Next
<1>2. ASSUME NEW offs \in Args, NEW n \in Args, offs + n < SizeMax, removeElements(offs, n)
      PROVE  History!Next
  <2>1. offs \in Nat /\ n \in Nat
    BY ArgsAssumption
  <2>2. History!Remove(offs, n)
    BY <1>2, <2>1, RemoveHistory
  <2> QED BY <2>2 DEF History!Next
<1>3. size' = 0 => Hist' = [i \in 0..(size' - 1) |-> 0]
  <2> SUFFICES ASSUME size' = 0 PROVE Hist' = [i \in 0..(size' - 1) |-> 0]
    OBVIOUS
  <2>1. 0..(size' - 1) = {}
    OBVIOUS
  <2> QED BY <2>1 DEF Hist
<1>4. CASE clear
  <2>1. History!Clear
    BY <1>3, <1>4 DEF clear, History!Clear, Hist
  <2> QED BY <2>1 DEF History!Next
<1>5. ASSUME NEW n \in Capacities, setMaximumNumberOfElements(n) PROVE History!Next
  <2>1. History!Resize(n)
    BY <1>3, <1>5 DEF setMaximumNumberOfElements, History!Resize, Hist
  <2> QED BY <2>1 DEF History!Next
<1>6. CASE copyOfEmpty
  <2>1. size = 0 /\ size' = 0 /\ capacity' = 0
    BY <1>6 DEF copyOfEmpty
  <2>2. Hist' = Hist
    BY <1>3, <2>1, EmptyHist
  <2>3. History!CopyOfEmpty
    BY <2>1, <2>2 DEF History!CopyOfEmpty, Hist
  <2> QED BY <2>3 DEF History!Next
<1>7. CASE UNCHANGED vars
  <2>1. Hist' = Hist
    BY <1>7 DEF vars, Hist, Index, getDataVectorIndex
  <2> QED BY <1>7, <2>1 DEF vars, History!vars, Hist
<1> QED BY <1>1, <1>2, <1>4, <1>5, <1>6, <1>7 DEF Next

(* The ring buffer implements the bounded history, for every capacity:     *)
(* what users read is the most recent values in the order they were added. *)
THEOREM RingBufferImplementsHistory == Spec => ImplementsHistory
  BY InitHistory, NextHistory, RepresentationInvariant, PTL
     DEF Spec, ImplementsHistory, History!Spec

(***************************************************************************)
(* The binary search.                                                      *)
(***************************************************************************)
Occupied == 0..(size - 1)
Ranges == Occupied \X Occupied

(* What the search finds in a range, when f is what it finds in others.    *)
Step(f, time, range) ==
    LET low  == range[1]
        high == range[2]
        mid  == (low + high) \div 2
    IN  IF low + 1 < high
        THEN IF calculateTimeDifference(time, at(mid).time) > 0
             THEN f[<<mid, high>>] ELSE f[<<low, mid>>]
        ELSE IF Distance(time, low) < Distance(time, high) THEN low ELSE high

IsSearch(f, time) == f = [r \in Ranges |-> Step(f, time, r)]

(* The middle of a range of more than two elements lies strictly inside.   *)
LEMMA Middle ==
  ASSUME NEW low \in Int, NEW high \in Int, low + 1 < high
  PROVE  /\ (low + high) \div 2 \in Int
         /\ low < (low + high) \div 2 /\ (low + high) \div 2 < high
  OBVIOUS

(* A step reads what is found in smaller ranges only.                      *)
LEMMA StepReadsSmaller ==
  ASSUME NEW time, NEW f \in [Ranges -> Occupied], NEW g \in [Ranges -> Occupied],
         NEW r \in Ranges, size \in Nat,
         \A s \in Ranges : s[2] - s[1] < r[2] - r[1] => f[s] = g[s]
  PROVE  Step(f, time, r) = Step(g, time, r) /\ Step(f, time, r) \in Occupied
<1> DEFINE low == r[1]
           high == r[2]
           mid == (low + high) \div 2
<1>1. low \in Occupied /\ high \in Occupied /\ low \in Int /\ high \in Int
  BY DEF Ranges, Occupied
<1>2. CASE low + 1 < high
  <2>1. mid \in Int /\ low < mid /\ mid < high
    BY <1>1, <1>2, Middle
  <2> HIDE DEF mid, low, high
  <2>2. mid \in Occupied
    BY <1>1, <2>1 DEF Occupied
  <2>3. <<mid, high>> \in Ranges /\ <<low, mid>> \in Ranges
    BY <1>1, <2>2 DEF Ranges
  <2>4. high - mid < high - low /\ mid - low < high - low
    BY <1>1, <2>1
  <2>5. f[<<mid, high>>] = g[<<mid, high>>] /\ f[<<low, mid>>] = g[<<low, mid>>]
    BY <2>3, <2>4 DEF low, high
  <2>6. f[<<mid, high>>] \in Occupied /\ f[<<low, mid>>] \in Occupied
    BY <2>3
  <2> QED
    BY <1>2, <2>5, <2>6 DEF Step, low, high, mid
<1>3. CASE ~(low + 1 < high)
  BY <1>1, <1>3 DEF Step
<1> QED
  BY <1>2, <1>3

(* There is a function that the recursive definition of search defines.    *)
LEMMA SearchExists ==
  ASSUME NEW time, size \in Nat
  PROVE  \E f : IsSearch(f, time)
<1> DEFINE Upto(f, k) == \A r \in Ranges : r[2] - r[1] < k => f[r] = Step(f, time, r)
           S == {k \in Nat : \E f \in [Ranges -> Occupied] : Upto(f, k)}
<1>0. \A r \in Ranges : r[1] \in Occupied /\ r[2] \in Occupied /\ r[1] \in Int /\ r[2] \in Int
  BY DEF Ranges, Occupied
<1>1. 0 \in S
  <2> DEFINE f == [r \in Ranges |-> IF Distance(time, r[1]) < Distance(time, r[2]) THEN r[1] ELSE r[2]]
  <2>1. f \in [Ranges -> Occupied]
    BY <1>0
  <2>2. ASSUME NEW r \in Ranges, r[2] - r[1] < 0
        PROVE  f[r] = Step(f, time, r)
    <3>1. ~(r[1] + 1 < r[2])
      BY <1>0, <2>2
    <3>2. Step(f, time, r) = IF Distance(time, r[1]) < Distance(time, r[2]) THEN r[1] ELSE r[2]
      BY <3>1 DEF Step
    <3> QED
      BY <3>2
  <2> HIDE DEF f
  <2> QED
    BY <2>1, <2>2
<1>2. ASSUME NEW k \in S
      PROVE  k + 1 \in S
  <2>1. k \in Nat /\ k + 1 \in Nat
    OBVIOUS
  <2>2. PICK f \in [Ranges -> Occupied] : Upto(f, k)
    OBVIOUS
  <2> DEFINE g == [r \in Ranges |-> Step(f, time, r)]
  <2>3. \A r \in Ranges : Step(f, time, r) \in Occupied
    BY StepReadsSmaller
  <2>4. g \in [Ranges -> Occupied] /\ \A r \in Ranges : g[r] = Step(f, time, r)
    BY <2>3
  <2> HIDE DEF g
  <2>5. ASSUME NEW r \in Ranges, r[2] - r[1] < k + 1
        PROVE  g[r] = Step(g, time, r)
    <3>1. ASSUME NEW s \in Ranges, s[2] - s[1] < r[2] - r[1]
          PROVE  f[s] = g[s]
      <4>1. s[2] - s[1] < k
        <5>1. r[1] \in Int /\ r[2] \in Int /\ s[1] \in Int /\ s[2] \in Int
          BY <1>0
        <5> QED
          BY <2>1, <2>5, <3>1, <5>1
      <4> QED
        BY <2>2, <2>4, <4>1
    <3>2. Step(f, time, r) = Step(g, time, r)
      BY <2>4, <3>1, StepReadsSmaller
    <3> QED
      BY <2>4, <3>2
  <2> QED
    BY <2>1, <2>4, <2>5
<1>3. size \in S
  <2>1. S \in SUBSET Nat
    OBVIOUS
  <2> HIDE DEF S
  <2> QED
    BY <1>1, <1>2, <2>1, Induction
<1>4. PICK f \in [Ranges -> Occupied] : Upto(f, size)
  BY <1>3
<1>5. \A r \in Ranges : r[2] - r[1] < size
  BY DEF Ranges, Occupied
<1> QED
  BY <1>4, <1>5 DEF IsSearch

(* findClosestIndex of a buffer that is not empty is what such a function  *)
(* finds in the range of all elements.                                     *)
LEMMA ClosestIsSearched ==
  ASSUME NEW time, size \in Nat \ {0}
  PROVE  \E f : IsSearch(f, time) /\ findClosestIndex(time) = f[<<0, size - 1>>]
<1> DEFINE f == CHOOSE f : f = [r \in Ranges |-> Step(f, time, r)]
<1>1. findClosestIndex(time) = f[<<0, size - 1>>]
  BY DEF findClosestIndex, Step, Ranges, Occupied
<1>2. PICK g : IsSearch(g, time)
  BY SearchExists
<1>3. f = [r \in Ranges |-> Step(f, time, r)]
  BY <1>2 DEF IsSearch
<1> QED
  BY <1>1, <1>3 DEF IsSearch

(* Times that increase from one element to the next increase over all.     *)
LEMMA Increasing ==
  ASSUME NEW n \in Nat, NEW t \in [0..(n - 1) -> Int],
         \A i \in 1..(n - 1) : t[i - 1] < t[i]
  PROVE  \A i, j \in 0..(n - 1) : i < j => t[i] < t[j]
<1> DEFINE S == {k \in Nat : \A i \in 0..(n - 1) : i + (k + 1) \in 0..(n - 1) => t[i] < t[i + (k + 1)]}
<1>1. 0 \in S
  <2> SUFFICES ASSUME NEW i \in 0..(n - 1), i + 1 \in 0..(n - 1)
               PROVE  t[i] < t[i + 1]
    OBVIOUS
  <2>1. i + 1 \in 1..(n - 1) /\ (i + 1) - 1 = i
    OBVIOUS
  <2> QED
    BY <2>1
<1>2. ASSUME NEW k \in S
      PROVE  k + 1 \in S
  <2>1. k \in Nat /\ k + 1 \in Nat
    OBVIOUS
  <2> SUFFICES ASSUME NEW i \in 0..(n - 1), i + ((k + 1) + 1) \in 0..(n - 1)
               PROVE  t[i] < t[i + ((k + 1) + 1)]
    BY <2>1
  <2> DEFINE j == i + (k + 1)
  <2>2. j \in 0..(n - 1) /\ j + 1 \in 1..(n - 1) /\ (j + 1) - 1 = j /\ i + ((k + 1) + 1) = j + 1
    BY <2>1
  <2>3. t[i] < t[j]
    BY <2>2
  <2> HIDE DEF j, S
  <2>4. t[j] < t[j + 1]
    BY <2>2
  <2>5. t[i] \in Int /\ t[j] \in Int /\ t[j + 1] \in Int
    BY <2>2
  <2> QED
    BY <2>2, <2>3, <2>4, <2>5
<1>3. \A k \in Nat : k \in S
  <2>1. S \in SUBSET Nat
    OBVIOUS
  <2> HIDE DEF S
  <2> QED
    BY <1>1, <1>2, <2>1, Induction
<1> SUFFICES ASSUME NEW i \in 0..(n - 1), NEW j \in 0..(n - 1), i < j
             PROVE  t[i] < t[j]
  OBVIOUS
<1>4. (j - i) - 1 \in Nat /\ i + (((j - i) - 1) + 1) = j
  OBVIOUS
<1> QED
  BY <1>3, <1>4

(* Of the elements on the near side of the middle none is closer than the  *)
(* middle.                                                                 *)
LEMMA NearSide ==
  ASSUME NEW a \in Int, NEW b \in Int, NEW x \in Int
  PROVE  /\ Gap(a, x) \in Nat
         /\ a <= b /\ b <= x => Gap(b, x) <= Gap(a, x)
         /\ x <= b /\ b <= a => Gap(b, x) <= Gap(a, x)
         /\ a < b /\ b <= x => Gap(b, x) < Gap(a, x)
         /\ x <= b /\ b < a => Gap(b, x) < Gap(a, x)
  BY DEF Gap

(* The search in a range finds an element of the range that no other one   *)
(* of it is closer to the time than.                                       *)
LEMMA SearchFinds ==
  ASSUME size \in Nat, NEW time, NEW f, IsSearch(f, time),
         NEW x \in Int, NEW t \in [Occupied -> Int],
         \A i, j \in Occupied : i < j => t[i] < t[j],
         \A i \in Occupied : Distance(time, i) = Gap(t[i], x),
         \A i \in Occupied : calculateTimeDifference(time, at(i).time) > 0 <=> t[i] < x,
         NEW low \in Occupied, NEW high \in Occupied, low <= high
  PROVE  /\ f[<<low, high>>] \in low..high
         /\ \A i \in low..high : Gap(t[f[<<low, high>>]], x) <= Gap(t[i], x)
<1> DEFINE Found(l, h) == /\ f[<<l, h>>] \in l..h
                          /\ \A i \in l..h : Gap(t[f[<<l, h>>]], x) <= Gap(t[i], x)
           S == {k \in Nat : \A l, h \in Occupied : l <= h /\ h - l <= k => Found(l, h)}
<1>0. /\ \A a, b \in Int : a < b /\ b < x => Gap(b, x) <= Gap(a, x)
      /\ \A a, b \in Int : ~(b < x) /\ b < a => Gap(b, x) <= Gap(a, x)
  BY DEF Gap
<1>1. \A l, h \in Occupied : <<l, h>> \in Ranges /\ f[<<l, h>>] = Step(f, time, <<l, h>>)
  BY DEF IsSearch, Ranges
<1>2. ASSUME NEW l \in Occupied, NEW h \in Occupied, l <= h, ~(l + 1 < h)
      PROVE  Found(l, h)
  <2>1. l \in Int /\ h \in Int /\ l..h = {l, h}
    BY <1>2 DEF Occupied
  <2>2. f[<<l, h>>] = IF Distance(time, l) < Distance(time, h) THEN l ELSE h
    BY <1>1, <1>2 DEF Step
  <2>3. /\ Distance(time, l) = Gap(t[l], x) /\ Distance(time, h) = Gap(t[h], x)
        /\ Gap(t[l], x) \in Nat /\ Gap(t[h], x) \in Nat
    BY NearSide
  <2> QED
    BY <2>1, <2>2, <2>3
<1>3. 0 \in S
  <2> SUFFICES ASSUME NEW l \in Occupied, NEW h \in Occupied, l <= h, h - l <= 0
               PROVE  Found(l, h)
    OBVIOUS
  <2>1. ~(l + 1 < h)
    BY DEF Occupied
  <2> HIDE DEF Found
  <2> QED
    BY <1>2, <2>1
<1>4. ASSUME NEW k \in S
      PROVE  k + 1 \in S
  <2>1. k \in Nat /\ \A l, h \in Occupied : l <= h /\ h - l <= k => Found(l, h)
    OBVIOUS
  <2> HIDE DEF Found, S
  <2>2. ASSUME NEW l \in Occupied, NEW h \in Occupied, l <= h, h - l <= k + 1
        PROVE  Found(l, h)
    <3>1. CASE ~(l + 1 < h)
      BY <1>2, <2>2, <3>1
    <3>2. CASE l + 1 < h
      <4> DEFINE mid == (l + h) \div 2
      <4>1. l \in Int /\ h \in Int
        BY DEF Occupied
      <4>2. mid \in Int /\ l < mid /\ mid < h
        BY <3>2, <4>1, Middle
      <4>3. f[<<l, h>>] = IF calculateTimeDifference(time, at(mid).time) > 0
                          THEN f[<<mid, h>>] ELSE f[<<l, mid>>]
        BY <1>1, <3>2 DEF Step
      <4> HIDE DEF mid
      <4>4. mid \in Occupied /\ h - mid <= k /\ mid - l <= k
        BY <2>1, <2>2, <4>1, <4>2 DEF Occupied
      <4>5. f[<<l, h>>] = IF t[mid] < x THEN f[<<mid, h>>] ELSE f[<<l, mid>>]
        BY <4>3, <4>4
      <4>6. Found(mid, h) /\ Found(l, mid)
        BY <2>1, <4>2, <4>4
      <4>7. \A i \in l..h : i \in Occupied /\ i \in Int /\ (i < mid \/ i = mid \/ mid < i)
        BY <4>1, <4>2 DEF Occupied
      <4>8. t[mid] \in Int /\ \A i \in l..h : t[i] \in Int
        BY <4>4, <4>7
      <4>9. CASE t[mid] < x
        <5> DEFINE c == f[<<mid, h>>]
        <5>1. c \in mid..h /\ \A i \in mid..h : Gap(t[c], x) <= Gap(t[i], x)
          BY <4>6 DEF Found
        <5>2. f[<<l, h>>] = c
          BY <4>5, <4>9
        <5> HIDE DEF c
        <5>3. c \in l..h /\ mid \in mid..h /\ mid \in l..h
          BY <4>1, <4>2, <5>1
        <5>4. ASSUME NEW i \in l..h
              PROVE  Gap(t[c], x) <= Gap(t[i], x)
          <6>1. CASE i < mid
            <7>1. t[i] < t[mid] /\ t[i] \in Int
              BY <4>4, <4>7, <4>8, <6>1
            <7>2. Gap(t[mid], x) <= Gap(t[i], x)
              BY <1>0, <4>8, <4>9, <7>1
            <7>3. Gap(t[c], x) <= Gap(t[mid], x)
              BY <5>1, <5>3
            <7>4. Gap(t[c], x) \in Nat /\ Gap(t[mid], x) \in Nat /\ Gap(t[i], x) \in Nat
              BY <4>8, <5>3, NearSide
            <7> QED
              BY <7>2, <7>3, <7>4
          <6>2. CASE ~(i < mid)
            <7>1. i \in mid..h
              BY <4>1, <4>2, <4>7, <6>2
            <7> QED
              BY <5>1, <7>1
          <6> QED
            BY <6>1, <6>2
        <5> QED
          BY <5>2, <5>3, <5>4 DEF Found
      <4>10. CASE ~(t[mid] < x)
        <5> DEFINE c == f[<<l, mid>>]
        <5>1. c \in l..mid /\ \A i \in l..mid : Gap(t[c], x) <= Gap(t[i], x)
          BY <4>6 DEF Found
        <5>2. f[<<l, h>>] = c
          BY <4>5, <4>10
        <5> HIDE DEF c
        <5>3. c \in l..h /\ mid \in l..mid /\ mid \in l..h
          BY <4>1, <4>2, <5>1
        <5>4. ASSUME NEW i \in l..h
              PROVE  Gap(t[c], x) <= Gap(t[i], x)
          <6>1. CASE mid < i
            <7>1. t[mid] < t[i] /\ t[i] \in Int
              BY <4>4, <4>7, <4>8, <6>1
            <7>2. Gap(t[mid], x) <= Gap(t[i], x)
              BY <1>0, <4>8, <4>10, <7>1
            <7>3. Gap(t[c], x) <= Gap(t[mid], x)
              BY <5>1, <5>3
            <7>4. Gap(t[c], x) \in Nat /\ Gap(t[mid], x) \in Nat /\ Gap(t[i], x) \in Nat
              BY <4>8, <5>3, NearSide
            <7> QED
              BY <7>2, <7>3, <7>4
          <6>2. CASE ~(mid < i)
            <7>1. i \in l..mid
              BY <4>1, <4>2, <4>7, <6>2
            <7> QED
              BY <5>1, <7>1
          <6> QED
            BY <6>1, <6>2
        <5> QED
          BY <5>2, <5>3, <5>4 DEF Found
      <4> QED
        BY <4>9, <4>10
    <3> QED
      BY <3>1, <3>2
  <2> QED
    BY <2>1, <2>2 DEF S
<1>5. \A k \in Nat : k \in S
  <2>1. S \in SUBSET Nat
    OBVIOUS
  <2> HIDE DEF S
  <2> QED
    BY <1>3, <1>4, <2>1, Induction
<1>6. high - low \in Nat /\ high - low <= high - low
  BY DEF Occupied
<1>7. Found(low, high)
  <2> HIDE DEF Found
  <2> QED
    BY <1>5, <1>6
<1> QED
  BY <1>7

-----------------------------------------------------------------------------
(***************************************************************************)
(* Searching by time.                                                      *)
(***************************************************************************)

(* Two times at distances u and v from a base, both less than half a turn, *)
(* differ by u - v, whatever turns over between them.                      *)
LEMMA TimesDiffer ==
  ASSUME NEW a \in Times, NEW b \in Times, NEW base \in Times,
         From(base, a) < Half, From(base, b) < Half
  PROVE  /\ From(base, a) \in Nat /\ From(base, b) \in Nat
         /\ calculateTimeDifference(a, b) = From(base, a) - From(base, b)
<1> DEFINE u == From(base, a)
           v == From(base, b)
           p == (a - base) \div TimeMax
           q == (b - base) \div TimeMax
<1>1. /\ TimeMax \in Nat \ {0} /\ TimeMax % 2 = 0 /\ TimeMax \div 2 = Half
      /\ Half \in Nat \ {0} /\ a \in Int /\ b \in Int /\ base \in Int
  BY Words, TimeAssumption DEF Half, Times
<1>2. p \in Int /\ u \in 0..(TimeMax - 1) /\ a - base = (p * TimeMax) + u
  <2>1. a - base \in Int
    BY <1>1
  <2> QED
    BY <1>1, <2>1, Division DEF From
<1>3. q \in Int /\ v \in 0..(TimeMax - 1) /\ b - base = (q * TimeMax) + v
  <2>1. b - base \in Int
    BY <1>1
  <2> QED
    BY <1>1, <2>1, Division DEF From
<1>4. u < Half /\ v < Half
  OBVIOUS
<1> DEFINE k == p - q
           x == u - v
<1>5. k \in Int /\ x \in Int /\ -Half <= x /\ x < Half /\ a - b = x + (k * TimeMax)
  <2> HIDE DEF p, q, u, v
  <2>1. u \in Int /\ v \in Int /\ k \in Int /\ x \in Int
    BY <1>1, <1>2, <1>3
  <2>2. k * TimeMax = (p * TimeMax) - (q * TimeMax)
    BY <1>1, <1>2, <1>3
  <2>3. p * TimeMax \in Int /\ q * TimeMax \in Int
    BY <1>1, <1>2, <1>3
  <2>4. a - b = x + (k * TimeMax)
    BY <1>1, <1>2, <1>3, <2>1, <2>2, <2>3
  <2>5. -Half <= x /\ x < Half
    BY <1>1, <1>2, <1>3, <1>4
  <2> QED
    BY <2>1, <2>4, <2>5
<1> HIDE DEF k, x, u, v
<1>6. SignedDifference(a, b, TimeMax) = x
  BY <1>1, <1>5, Difference
<1> QED
  BY <1>1, <1>2, <1>3, <1>6 DEF calculateTimeDifference, x, u, v

(* The distances of the elements from a base time increase, Distance is    *)
(* the distance of two of them, and findClosestIndex finds an element with *)
(* the least one.                                                          *)
LEMMA ClosestIndex ==
  ASSUME IInv, size # 0, NEW time \in Times, NEW base \in Bases(time),
         NEW t, t = [i \in Occupied |-> From(base, at(i).time)]
  PROVE  LET x == From(base, time)
             c == findClosestIndex(time)
         IN  /\ x \in Nat /\ t \in [Occupied -> Nat]
             /\ \A i, j \in Occupied : i < j => t[i] < t[j]
             /\ \A i \in Occupied : Distance(time, i) = Gap(t[i], x)
             /\ c \in Occupied /\ c # OutOfBounds
             /\ \A i \in Occupied : Gap(t[c], x) <= Gap(t[i], x)
<1> DEFINE x == From(base, time)
           c == findClosestIndex(time)
<1>1. size \in Nat \ {0} /\ OutOfBounds \notin Occupied
  BY SizeMaxAssumption DEF IInv, TypeOK, CapacityFits, OutOfBounds, Occupied
<1>2. base \in Times /\ x < Half /\ \A i \in Occupied : From(base, at(i).time) < Half
  BY DEF Bases, Occupied
<1>3. \A i \in Occupied : at(i).time \in Times
  BY AtIsElement, ValuesAssumption DEF Occupied
<1>4. \A i \in Occupied : /\ x \in Nat /\ t[i] \in Nat
                          /\ calculateTimeDifference(time, at(i).time) = x - t[i]
  BY <1>2, <1>3, TimesDiffer
<1>5. t \in [Occupied -> Nat]
  BY <1>4
<1>6. 0 \in Occupied /\ size - 1 \in Occupied /\ 0 <= size - 1
  BY <1>1 DEF Occupied
<1>7. x \in Nat
  BY <1>4, <1>6
<1>8. \A i, j \in Occupied : i < j => t[i] < t[j]
  <2>1. \A i \in 1..(size - 1) : From(base, at(i - 1).time) < From(base, at(i).time)
    BY DEF Bases
  <2>2. \A i \in 1..(size - 1) : i \in Occupied /\ i - 1 \in Occupied
    BY <1>1 DEF Occupied
  <2>3. \A i \in 1..(size - 1) : t[i - 1] < t[i]
    BY <2>1, <2>2
  <2>4. t \in [0..(size - 1) -> Int]
    BY <1>5 DEF Occupied
  <2> QED
    BY <1>1, <2>3, <2>4, Increasing DEF Occupied
<1> HIDE DEF x, c
<1>9. \A i \in Occupied : /\ Distance(time, i) = Gap(t[i], x)
                          /\ calculateTimeDifference(time, at(i).time) > 0 <=> t[i] < x
  <2> SUFFICES ASSUME NEW i \in Occupied
               PROVE  /\ Distance(time, i) = Gap(t[i], x)
                      /\ calculateTimeDifference(time, at(i).time) > 0 <=> t[i] < x
    OBVIOUS
  <2>1. /\ calculateTimeDifference(time, at(i).time) = x - t[i] /\ x \in Int /\ t[i] \in Int
    BY <1>4
  <2>2. Distance(time, i) = IF x - t[i] >= 0 THEN x - t[i] ELSE -(x - t[i])
    BY <2>1 DEF Distance, calculateAbsTimeDifference
  <2> QED
    BY <2>1, <2>2 DEF Gap
<1>10. PICK f : IsSearch(f, time) /\ c = f[<<0, size - 1>>]
  BY <1>1, ClosestIsSearched DEF c
<1>11. /\ f[<<0, size - 1>>] \in 0..(size - 1)
       /\ \A i \in 0..(size - 1) : Gap(t[f[<<0, size - 1>>]], x) <= Gap(t[i], x)
  BY <1>1, <1>5, <1>6, <1>7, <1>8, <1>9, <1>10, SearchFinds
<1>12. c \in Occupied /\ \A i \in Occupied : Gap(t[c], x) <= Gap(t[i], x)
  BY <1>10, <1>11 DEF Occupied
<1> QED
  BY <1>1, <1>5, <1>7, <1>8, <1>9, <1>12 DEF x, c

(* findClosestIndex finds the element that is closest to the time in every *)
(* reachable buffer, of any capacity and for times of any width, wherever  *)
(* the ring and the time turn over.                                        *)
THEOREM ClosestFound == Spec => []FindsClosest
<1>1. ASSUME IInv PROVE FindsClosest
  <2> SUFFICES ASSUME NEW time \in Times, NEW base \in Bases(time), NEW i \in 0..(size - 1)
               PROVE  Gap(From(base, findClosestMeasurement(time).time), From(base, time))
                        <= Gap(From(base, at(i).time), From(base, time))
    BY DEF FindsClosest
  <2> DEFINE t == [k \in Occupied |-> From(base, at(k).time)]
             c == findClosestIndex(time)
  <2>1. size # 0 /\ i \in Occupied
    BY <1>1 DEF IInv, TypeOK, Occupied
  <2>2. c \in Occupied /\ c # OutOfBounds /\ Gap(t[c], From(base, time)) <= Gap(t[i], From(base, time))
    BY <1>1, <2>1, ClosestIndex
  <2>3. findClosestMeasurement(time) = at(c)
    BY <2>2 DEF findClosestMeasurement
  <2> HIDE DEF c
  <2> QED
    BY <2>1, <2>2, <2>3
<1> QED
  BY <1>1, RepresentationInvariant, PTL

-----------------------------------------------------------------------------
(***************************************************************************)
(* Interpolation.                                                          *)
(***************************************************************************)

(* The element before and the element behind the closest one: of the two   *)
(* that are taken, none of the others is closer to the time than either.   *)
LEMMA TwoClosest ==
  ASSUME NEW n \in Nat, NEW x \in Int, NEW t \in [0..(n - 1) -> Int],
         \A i, j \in 0..(n - 1) : i < j => t[i] < t[j],
         NEW c \in 0..(n - 1), \A i \in 0..(n - 1) : Gap(t[c], x) <= Gap(t[i], x),
         NEW i \in 0..(n - 2),
         \/ /\ i = c - 1
            /\ c = n - 1 \/ Gap(t[c - 1], x) <= Gap(t[c + 1], x)
         \/ /\ i = c
            /\ c = 0 \/ Gap(t[c + 1], x) <= Gap(t[c - 1], x)
  PROVE  \A k \in (0..(n - 1)) \ {i, i + 1} : \A d \in {i, i + 1} :
            Gap(t[d], x) <= Gap(t[k], x)
<1> SUFFICES ASSUME NEW k \in (0..(n - 1)) \ {i, i + 1}
             PROVE  Gap(t[i], x) <= Gap(t[k], x) /\ Gap(t[i + 1], x) <= Gap(t[k], x)
  OBVIOUS
<1>0. /\ \A a, b \in Int : a < b /\ b <= x => Gap(b, x) <= Gap(a, x)
      /\ \A a, b \in Int : x <= b /\ b < a => Gap(b, x) <= Gap(a, x)
      /\ \A a, b \in Int : x < a /\ a < b => Gap(a, x) < Gap(b, x)
      /\ \A a, b \in Int : a < b /\ b < x => Gap(b, x) < Gap(a, x)
      /\ \A a \in Int : Gap(a, x) \in Nat
  BY DEF Gap
<1>1. \A j \in 0..(n - 1) : t[j] \in Int /\ j \in Int /\ Gap(t[j], x) \in Nat
  <2>1. \A j \in 0..(n - 1) : t[j] \in Int /\ j \in Int
    OBVIOUS
  <2> QED
    BY <1>0, <2>1
<1>2. /\ i \in 0..(n - 1) /\ i + 1 \in 0..(n - 1) /\ k \in 0..(n - 1)
      /\ k < i \/ i + 1 < k
  OBVIOUS
(* What lies before the closest one is not behind the time, and what lies  *)
(* behind it not before.                                                   *)
<1>3. \A j \in 0..(n - 1) : /\ j < c => t[j] <= x
                            /\ c < j => x <= t[j]
  <2> SUFFICES ASSUME NEW j \in 0..(n - 1)
               PROVE  /\ j < c => t[j] <= x
                      /\ c < j => x <= t[j]
    OBVIOUS
  <2>1. t[j] \in Int /\ t[c] \in Int /\ Gap(t[c], x) <= Gap(t[j], x)
        /\ Gap(t[c], x) \in Nat /\ Gap(t[j], x) \in Nat
    BY <1>1
  <2>2. ASSUME j < c, ~(t[j] <= x)
        PROVE  FALSE
    <3>1. t[j] < t[c]
      BY <2>2
    <3>2. Gap(t[j], x) < Gap(t[c], x)
      BY <1>0, <2>1, <2>2, <3>1
    <3> QED
      BY <2>1, <3>2
  <2>3. ASSUME c < j, ~(x <= t[j])
        PROVE  FALSE
    <3>1. t[c] < t[j]
      BY <2>3
    <3>2. Gap(t[j], x) < Gap(t[c], x)
      BY <1>0, <2>1, <2>3, <3>1
    <3> QED
      BY <2>1, <3>2
  <2> QED
    BY <2>2, <2>3
(* Seen from the closest one, elements that are farther away are not       *)
(* closer to the time.                                                     *)
<1>4. ASSUME NEW j \in 0..(n - 1), NEW l \in 0..(n - 1)
      PROVE  /\ l < j /\ j < c => Gap(t[j], x) <= Gap(t[l], x)
             /\ c < j /\ j < l => Gap(t[j], x) <= Gap(t[l], x)
  <2>1. t[j] \in Int /\ t[l] \in Int
    BY <1>1
  <2>2. ASSUME l < j, j < c
        PROVE  Gap(t[j], x) <= Gap(t[l], x)
    <3>1. t[l] < t[j] /\ t[j] <= x
      BY <1>3, <2>2
    <3> QED
      BY <1>0, <2>1, <3>1
  <2>3. ASSUME c < j, j < l
        PROVE  Gap(t[j], x) <= Gap(t[l], x)
    <3>1. t[j] < t[l] /\ x <= t[j]
      BY <1>3, <2>3
    <3> QED
      BY <1>0, <2>1, <3>1
  <2> QED
    BY <2>2, <2>3
<1>5. CASE i = c - 1 /\ (c = n - 1 \/ Gap(t[c - 1], x) <= Gap(t[c + 1], x))
  <2>1. i + 1 = c /\ i < c /\ Gap(t[i + 1], x) <= Gap(t[k], x)
    BY <1>1, <1>2, <1>5
  <2>2. CASE k < i
    <3>1. k \in 0..(n - 1) /\ i \in 0..(n - 1) /\ k < i /\ i < c
      BY <1>2, <2>1, <2>2
    <3>2. Gap(t[i], x) <= Gap(t[k], x)
      BY <1>4, <3>1
    <3> QED
      BY <2>1, <3>2
  <2>3. CASE i + 1 < k
    <3>1. c < k /\ c + 1 \in 0..(n - 1) /\ c # n - 1 /\ (k = c + 1 \/ c + 1 < k) /\ c < c + 1
      BY <1>1, <1>2, <2>1, <2>3
    <3>2. Gap(t[c + 1], x) <= Gap(t[k], x)
      <4>1. CASE k = c + 1
        <5>1. Gap(t[k], x) \in Nat
          BY <1>1, <1>2
        <5> QED
          BY <4>1, <5>1
      <4>2. CASE c + 1 < k
        BY <1>2, <1>4, <3>1, <4>2
      <4> QED
        BY <3>1, <4>1, <4>2
    <3>3. Gap(t[i], x) <= Gap(t[c + 1], x)
      BY <1>5, <3>1
    <3>4. Gap(t[i], x) \in Nat /\ Gap(t[c + 1], x) \in Nat /\ Gap(t[k], x) \in Nat
      BY <1>1, <1>2, <3>1
    <3> QED
      BY <2>1, <3>2, <3>3, <3>4
  <2> QED
    BY <1>2, <2>1, <2>2, <2>3
<1>6. CASE i = c /\ (c = 0 \/ Gap(t[c + 1], x) <= Gap(t[c - 1], x))
  <2>1. c < i + 1 /\ Gap(t[i], x) <= Gap(t[k], x)
    BY <1>1, <1>2, <1>6
  <2>2. CASE i + 1 < k
    <3>1. Gap(t[i + 1], x) <= Gap(t[k], x)
      BY <1>2, <1>4, <2>1, <2>2
    <3> QED
      BY <2>1, <3>1
  <2>3. CASE k < i
    <3>1. k < c /\ c - 1 \in 0..(n - 1) /\ c # 0 /\ (k = c - 1 \/ k < c - 1) /\ c - 1 < c
      BY <1>1, <1>2, <1>6, <2>3
    <3>2. Gap(t[c - 1], x) <= Gap(t[k], x)
      <4>1. CASE k = c - 1
        <5>1. Gap(t[k], x) \in Nat
          BY <1>1, <1>2
        <5> QED
          BY <4>1, <5>1
      <4>2. CASE k < c - 1
        <5>1. k \in 0..(n - 1) /\ c - 1 \in 0..(n - 1) /\ k < c - 1 /\ c - 1 < c
          BY <1>2, <3>1, <4>2
        <5> QED
          BY <1>4, <5>1
      <4> QED
        BY <3>1, <4>1, <4>2
    <3>3. Gap(t[i + 1], x) <= Gap(t[c - 1], x)
      BY <1>6, <3>1
    <3>4. Gap(t[i + 1], x) \in Nat /\ Gap(t[c - 1], x) \in Nat /\ Gap(t[k], x) \in Nat
      BY <1>1, <1>2, <3>1
    <3> QED
      BY <2>1, <3>2, <3>3, <3>4
  <2> QED
    BY <1>2, <2>1, <2>2, <2>3
<1> QED
  BY <1>5, <1>6

(* A mean with weights that are not negative and not both 0 lies between   *)
(* the smaller and the greater value.                                      *)
LEMMA MeanBetween ==
  ASSUME NEW p \in Nat, NEW q \in Nat, NEW u \in Int, NEW v \in Int
  PROVE  p * u + q * v \in ((q + p) * Lesser(u, v))..((q + p) * Greater(u, v))
<1>1. CASE u < v
  <2>1. p * u <= p * v /\ q * u <= q * v
    BY <1>1
  <2>2. (q + p) * u = q * u + p * u /\ (q + p) * v = q * v + p * v
    OBVIOUS
  <2>3. p * u \in Int /\ q * u \in Int /\ p * v \in Int /\ q * v \in Int
    OBVIOUS
  <2> QED
    BY <1>1, <2>1, <2>2, <2>3 DEF Lesser, Greater
<1>2. CASE ~(u < v)
  <2>1. p * v <= p * u /\ q * v <= q * u
    BY <1>2
  <2>2. (q + p) * u = q * u + p * u /\ (q + p) * v = q * v + p * v
    OBVIOUS
  <2>3. p * u \in Int /\ q * u \in Int /\ p * v \in Int /\ q * v \in Int
    OBVIOUS
  <2> QED
    BY <1>2, <2>1, <2>2, <2>3 DEF Lesser, Greater
<1> QED
  BY <1>1, <1>2

(* interpolateClosestValues takes the two elements of a reachable buffer   *)
(* that are closest to the time and stays on the line through them between *)
(* them, and within their values outside, without a division by zero.      *)
THEOREM InterpolationCorrect == Spec => []InterpolatesTwoClosest
<1>1. ASSUME IInv PROVE InterpolatesTwoClosest
  <2> SUFFICES ASSUME NEW time \in Times, size > 1, NEW base \in Bases(time)
               PROVE  \E i \in 0..(size - 2) :
            LET t(k) == From(base, at(k).time)
                x    == From(base, time)
                f    == interpolateClosestValues(time)
                u    == at(i).value
                v    == at(i + 1).value
            IN  /\ \A k \in (0..(size - 1)) \ {i, i + 1} :
                      \A c \in {i, i + 1} : Gap(t(c), x) <= Gap(t(k), x)
                /\ f.den > 0
                /\ f.num \in (f.den * Lesser(u, v))..(f.den * Greater(u, v))
                /\ x \in t(i)..t(i + 1) =>
                      Equal(f, Fraction(u * (t(i + 1) - x) + v * (x - t(i)), t(i + 1) - t(i)))
    BY DEF InterpolatesTwoClosest
  <2> DEFINE t == [k \in Occupied |-> From(base, at(k).time)]
             x == From(base, time)
             c == findClosestIndex(time)
             f == interpolateClosestValues(time)
  <2>1. size \in Nat /\ size # 0
    BY <1>1 DEF IInv, TypeOK
  <2>2. /\ x \in Nat /\ t \in [Occupied -> Nat]
        /\ \A i, j \in Occupied : i < j => t[i] < t[j]
        /\ \A i \in Occupied : Distance(time, i) = Gap(t[i], x)
        /\ c \in Occupied /\ c # OutOfBounds
        /\ \A i \in Occupied : Gap(t[c], x) <= Gap(t[i], x)
    BY <1>1, <2>1, ClosestIndex
  <2>3. \A k \in Occupied : t[k] = From(base, at(k).time)
    OBVIOUS
  <2>4. \A k \in Occupied : at(k).value \in Int
    BY <1>1, AtIsElement, ValuesAssumption DEF Occupied
  <2> DEFINE pair(i) ==
        \/ /\ i = c - 1
           /\ c = size - 1 \/ Gap(t[c - 1], x) <= Gap(t[c + 1], x)
        \/ /\ i = c
           /\ c = 0 \/ Gap(t[c + 1], x) <= Gap(t[c - 1], x)
  <2>5. \E i \in 0..(size - 2) : pair(i) /\ f = Interpolated(time, i, i + 1)
    <3> HIDE DEF t, x, c
    <3>1. c \in 0..(size - 1)
      BY <2>2 DEF Occupied
    <3>2. \A k \in Occupied : Gap(t[k], x) \in Nat
      BY <2>2 DEF Gap
    <3>3. CASE c = size - 1
      <4>1. f = Interpolated(time, c - 1, c)
        BY <2>1, <2>2, <3>1, <3>3 DEF interpolateClosestValues, c
      <4>2. c - 1 \in 0..(size - 2) /\ (c - 1) + 1 = c
        BY <2>1, <3>3
      <4> HIDE DEF f
      <4> QED
        BY <3>3, <4>1, <4>2
    <3>4. CASE c # size - 1 /\ c = 0
      <4>1. f = Interpolated(time, c, c + 1)
        BY <2>1, <2>2, <3>1, <3>4 DEF interpolateClosestValues, c
      <4>2. c \in 0..(size - 2)
        BY <2>1, <3>1, <3>4
      <4> HIDE DEF f
      <4> QED
        BY <3>4, <4>1, <4>2
    <3>5. CASE c # size - 1 /\ c # 0
      <4>1. /\ c - 1 \in Occupied /\ c + 1 \in Occupied
            /\ c - 1 \in 0..(size - 2) /\ c \in 0..(size - 2) /\ (c - 1) + 1 = c
        BY <2>1, <3>1, <3>5 DEF Occupied
      <4>2. /\ Distance(time, c - 1) = Gap(t[c - 1], x) /\ Gap(t[c - 1], x) \in Nat
            /\ Distance(time, c + 1) = Gap(t[c + 1], x) /\ Gap(t[c + 1], x) \in Nat
        BY <2>2, <3>2, <4>1
      <4>3. f = IF Distance(time, c - 1) <= Distance(time, c + 1)
                THEN Interpolated(time, c - 1, c) ELSE Interpolated(time, c, c + 1)
        BY <2>1, <2>2, <3>1, <3>5 DEF interpolateClosestValues, c
      <4> HIDE DEF f
      <4> QED
        BY <4>1, <4>2, <4>3
    <3> QED
      BY <3>3, <3>4, <3>5
  <2>6. PICK i \in 0..(size - 2) : pair(i) /\ f = Interpolated(time, i, i + 1)
    BY <2>5
  <2>7. /\ i \in Occupied /\ i + 1 \in Occupied /\ i < i + 1 /\ i \in Int
    BY <2>1 DEF Occupied
  <2> DEFINE u == at(i).value
             v == at(i + 1).value
             p == Gap(t[i], x)
             q == Gap(t[i + 1], x)
  <2>8. /\ t[i] \in Nat /\ t[i + 1] \in Nat /\ t[i] < t[i + 1] /\ x \in Nat
        /\ u \in Int /\ v \in Int
        /\ Distance(time, i) = p /\ Distance(time, i + 1) = q
    <3> HIDE DEF t, x
    <3> QED
      BY <2>2, <2>4, <2>7
  <2>9. \A k \in (0..(size - 1)) \ {i, i + 1} : \A d \in {i, i + 1} : Gap(t[d], x) <= Gap(t[k], x)
    <3> HIDE DEF t, x, c
    <3>1. /\ t \in [0..(size - 1) -> Int] /\ x \in Int /\ c \in 0..(size - 1)
          /\ \A a, b \in 0..(size - 1) : a < b => t[a] < t[b]
          /\ \A a \in 0..(size - 1) : Gap(t[c], x) <= Gap(t[a], x)
      BY <2>2 DEF Occupied
    <3> QED
      BY <2>1, <2>6, <3>1, TwoClosest
  <2>10. f = Fraction(q * u + p * v, p + q)
    BY <2>6, <2>8 DEF Interpolated
  <2>11. p \in Nat /\ q \in Nat /\ p + q > 0
    <3> HIDE DEF t, x
    <3> QED
      BY <2>8 DEF Gap
  <2>12. f.num = q * u + p * v /\ f.den = p + q
    BY <2>10 DEF Fraction
  <2>13. f.num \in (f.den * Lesser(u, v))..(f.den * Greater(u, v))
    <3> HIDE DEF f, p, q, u, v
    <3>1. q * u + p * v \in ((p + q) * Lesser(u, v))..((p + q) * Greater(u, v))
      BY <2>8, <2>11, MeanBetween
    <3> QED
      BY <2>12, <3>1
  <2>14. x \in t[i]..t[i + 1] =>
           Equal(f, Fraction(u * (t[i + 1] - x) + v * (x - t[i]), t[i + 1] - t[i]))
    <3> HIDE DEF t, x, f, u, v
    <3> SUFFICES ASSUME x \in t[i]..t[i + 1]
                 PROVE  Equal(f, Fraction(u * (t[i + 1] - x) + v * (x - t[i]), t[i + 1] - t[i]))
      OBVIOUS
    <3>1. p = x - t[i] /\ q = t[i + 1] - x
      BY <2>8 DEF Gap
    <3>2. t[i + 1] - t[i] = p + q /\ t[i + 1] - t[i] # 0
      BY <2>8, <3>1
    <3> HIDE DEF p, q
    <3>3. u * q + v * p = q * u + p * v
      BY <2>8, <2>11
    <3>4. Fraction(u * (t[i + 1] - x) + v * (x - t[i]), t[i + 1] - t[i]) = f
      BY <2>10, <3>1, <3>2, <3>3
    <3> QED
      BY <2>11, <2>12, <3>4 DEF Equal
  <2>15. t[i] = From(base, at(i).time) /\ t[i + 1] = From(base, at(i + 1).time)
    BY <2>3, <2>7
  <2>16. \A k \in (0..(size - 1)) \ {i, i + 1} : \A d \in {i, i + 1} :
            Gap(From(base, at(d).time), x) <= Gap(From(base, at(k).time), x)
    <3>1. \A k \in 0..(size - 1) : t[k] = From(base, at(k).time)
      BY <2>3 DEF Occupied
    <3>2. i \in 0..(size - 1) /\ i + 1 \in 0..(size - 1)
      BY <2>7 DEF Occupied
    <3> HIDE DEF t
    <3> QED
      BY <2>9, <3>1, <3>2
  <2>17. f.den > 0
    BY <2>11, <2>12
  <2> HIDE DEF t, f
  <2> QED
    BY <2>13, <2>14, <2>15, <2>16, <2>17 DEF f
<1> QED
  BY <1>1, RepresentationInvariant, PTL

-----------------------------------------------------------------------------
(***************************************************************************)
(* The estimates. Sums are compared turn by turn of the loops.             *)
(***************************************************************************)

(* What a loop over n terms has added up after each turn.                  *)
Sums(s, term, from, n) == s[0] = 0 /\ \A k \in 1..n : s[k] = s[k - 1] + term[from + k - 1]

(* The recursion of SumOver defines a function, that of these sums.        *)
LEMMA SumsExist ==
  ASSUME NEW from \in Int, NEW to \in Int, to - from + 1 \in Nat,
         NEW term \in [from..to -> Int]
  PROVE  \E s \in [0..(to - from + 1) -> Int] :
            Sums(s, term, from, to - from + 1) /\ SumOver(term, from, to) = s[to - from + 1]
<1> DEFINE n == to - from + 1
           g == [ku \in (1..n) \X Int |-> ku[2] + term[from + ku[1] - 1]]
           Good(f) == f = [k \in 0..n |-> IF k = 0 THEN 0 ELSE f[k - 1] + term[from + k - 1]]
           c == CHOOSE f : Good(f)
<1>1. n \in Nat /\ \A k \in 1..n : term[from + k - 1] \in Int
  <2>1. \A k \in 1..n : from + k - 1 \in from..to
    OBVIOUS
  <2> HIDE DEF n
  <2> QED
    BY <2>1 DEF n
<1>2. SumOver(term, from, to) = c[n]
  BY DEF SumOver
<1> HIDE DEF n
<1>3. g \in [(1..n) \X Int -> Int] /\ \A k \in 1..n, u \in Int : g[<<k, u>>] = u + term[from + k - 1]
  <2>1. ASSUME NEW ku \in (1..n) \X Int
        PROVE  ku[2] + term[from + ku[1] - 1] \in Int
    <3>1. ku[1] \in 1..n /\ ku[2] \in Int
      OBVIOUS
    <3>2. term[from + ku[1] - 1] \in Int
      BY <1>1, <3>1
    <3> QED
      BY <3>1, <3>2
  <2> QED
    BY <2>1
<1>4. PICK f \in [0..n -> Int] : Recursion(f, n, 0, g)
  <2>1. 0 \in Int
    OBVIOUS
  <2> HIDE DEF g
  <2> QED
    BY <1>1, <1>3, <2>1, RecursionExists, Zenon
<1>5. f[0] = 0 /\ \A k \in 1..n : f[k] = g[<<k, f[k - 1]>>]
  BY <1>4 DEF Recursion
<1>6. \A k \in 1..n : f[k] = f[k - 1] + term[from + k - 1]
  <2>1. \A k \in 1..n : k - 1 \in 0..n /\ f[k - 1] \in Int
    BY <1>1
  <2> HIDE DEF g
  <2> QED
    BY ZenonT(60), <1>3, <1>5, <2>1
<1>7. Good(f)
  <2>1. \A k \in 0..n : k # 0 => k \in 1..n
    BY <1>1
  <2> QED
    BY <1>5, <1>6, <2>1
<1>8. Good(c)
  BY ZenonT(60), <1>7
<1> HIDE DEF c, g
<1>9. c = [k \in 0..n |-> IF k = 0 THEN 0 ELSE c[k - 1] + term[from + k - 1]]
  BY <1>8
<1>10. Sums(c, term, from, n)
  <2>1. 0 \in 0..n /\ \A k \in 1..n : k \in 0..n /\ k # 0
    BY <1>1
  <2>2. c[0] = 0
    BY <1>9, <2>1
  <2>3. \A k \in 1..n : c[k] = c[k - 1] + term[from + k - 1]
    BY <1>9, <2>1
  <2> QED
    BY <2>2, <2>3 DEF Sums
<1>11. \A k \in 0..n : c[k] = f[k]
  <2> DEFINE S == {k \in Nat : k \in 0..n => c[k] = f[k]}
  <2>1. 0 \in S
    BY <1>5, <1>10 DEF Sums
  <2>2. ASSUME NEW k \in S
        PROVE  k + 1 \in S
    <3>1. SUFFICES ASSUME k + 1 \in 0..n
                   PROVE  c[k + 1] = f[k + 1]
      OBVIOUS
    <3>2. k \in 0..n /\ k + 1 \in 1..n /\ (k + 1) - 1 = k
      BY <1>1, <3>1
    <3>3. c[k] = f[k]
      BY <3>2
    <3> HIDE DEF S
    <3>4. c[k + 1] = c[k] + term[from + (k + 1) - 1]
      BY <1>10, <3>2 DEF Sums
    <3>5. f[k + 1] = f[k] + term[from + (k + 1) - 1]
      BY <1>6, <3>2
    <3> QED
      BY <3>3, <3>4, <3>5
  <2>3. S \in SUBSET Nat
    OBVIOUS
  <2> HIDE DEF S
  <2>4. \A k \in Nat : k \in S
    BY <2>1, <2>2, <2>3, Induction
  <2> QED
    BY <2>4 DEF S
<1>12. c \in [0..n -> Int]
  <2>1. \A k \in 0..n : c[k] \in Int
    BY <1>11
  <2>2. DOMAIN c = 0..n /\ c = [k \in 0..n |-> c[k]]
    BY <1>9
  <2> QED
    BY <2>1, <2>2
<1> QED
  BY <1>2, <1>10, <1>12 DEF n

(* The sum d of (2 * j - m) * v, from that of v * j and that of v.         *)
Covariance(d, c, a, m) == d = 2 * c - m * a

CovarianceAdds(dNext, cNext, aNext, d, c, a, v, j, m) ==
    aNext = a + v /\ cNext = c + v * j /\ dNext = d + (2 * j - m) * v

(* The steps of the inductions below: what is added on both sides.         *)
LEMMA CovarianceTurn ==
  ASSUME NEW a \in Int, NEW c \in Int, NEW d \in Int, NEW v \in Int, NEW j \in Int, NEW m \in Int,
         Covariance(d, c, a, m),
         NEW aNext, NEW cNext, NEW dNext, CovarianceAdds(dNext, cNext, aNext, d, c, a, v, j, m)
  PROVE  Covariance(dNext, cNext, aNext, m)
  BY DEF Covariance, CovarianceAdds

(* Three times the sum of the squares of -m, 2 - m, ..., 2 * (j - 1) - m.  *)
SquaresUpto(m, j) == (2 * j - 2) * (j * (2 * j - 1)) - (6 * m) * (j * (j - 1)) + 3 * (m * m) * j

(* One more square.                                                        *)
LEMMA SquaresTurn ==
  ASSUME NEW e \in Int, NEW j \in Int, NEW m \in Int, 3 * e = SquaresUpto(m, j)
  PROVE  3 * (e + (2 * j - m) * (2 * j - m)) = SquaresUpto(m, j + 1)
  BY DEF SquaresUpto

(* The squares f of n * v - s of j values v, from their squares b and sum. *)
Deviations(f, b, a, j, n, s) == f = n * n * b - 2 * n * s * a + j * s * s

DeviationsAdds(fNext, bNext, aNext, f, b, a, v, n, s) ==
    aNext = a + v /\ bNext = b + v * v /\ fNext = f + (n * v - s) * (n * v - s)

(* One more deviation.                                                     *)
LEMMA DeviationsTurn ==
  ASSUME NEW f \in Int, NEW n \in Int, NEW b \in Int, NEW a \in Int, NEW s \in Int, NEW j \in Int,
         NEW v \in Int, Deviations(f, b, a, j, n, s),
         NEW aNext, NEW bNext, NEW fNext, DeviationsAdds(fNext, bNext, aNext, f, b, a, v, n, s)
  PROVE  Deviations(fNext, bNext, aNext, j + 1, n, s)
  BY DEF Deviations, DeviationsAdds

(* The sum of the squares of -m, 2 - m, ..., m.                            *)
LEMMA SquaresOfAll ==
  ASSUME NEW m \in Int, NEW e \in Int, 3 * e = SquaresUpto(m, m + 1)
  PROVE  /\ 3 * e = m * (m + 1) * (m + 2)
         /\ m * (m + 1) * (2 * m + 1) * 4 - m * m * (m + 1) * 6 = 6 * e
  BY DEF SquaresUpto

(* Twice the covariance of the values with their places.                   *)
LEMMA CovarianceSums ==
  ASSUME NEW n \in Nat, NEW m \in Int, NEW v \in [1..n -> Int],
         NEW a \in [0..n -> Int], NEW c \in [0..n -> Int], NEW d \in [0..n -> Int],
         a[0] = 0, c[0] = 0, d[0] = 0,
         \A k \in 1..n : a[k] = a[k - 1] + v[k],
         \A k \in 1..n : c[k] = c[k - 1] + v[k] * (k - 1),
         \A k \in 1..n : d[k] = d[k - 1] + (2 * (k - 1) - m) * v[k]
  PROVE  Covariance(d[n], c[n], a[n], m)
<1> DEFINE S == {k \in Nat : k \in 0..n => Covariance(d[k], c[k], a[k], m)}
<1>1. 0 \in S
  BY DEF Covariance, CovarianceAdds
<1>2. ASSUME NEW k \in S
      PROVE  k + 1 \in S
  <2>1. SUFFICES ASSUME k + 1 \in 0..n
                 PROVE  Covariance(d[k + 1], c[k + 1], a[k + 1], m)
    OBVIOUS
  <2>2. k \in Int /\ k \in 0..n /\ k + 1 \in 1..n /\ (k + 1) - 1 = k
    BY <2>1
  <2>3. Covariance(d[k], c[k], a[k], m)
    BY <2>2
  <2> HIDE DEF S
  <2>4. CovarianceAdds(d[k + 1], c[k + 1], a[k + 1], d[k], c[k], a[k], v[k + 1], k, m)
    BY <2>2 DEF CovarianceAdds
  <2>5. a[k] \in Int /\ c[k] \in Int /\ d[k] \in Int /\ v[k + 1] \in Int
    BY <2>2
  <2> QED
    BY <2>2, <2>3, <2>4, <2>5, Zenon, CovarianceTurn
<1>3. S \in SUBSET Nat
  OBVIOUS
<1> HIDE DEF S
<1>4. n \in S
  BY <1>1, <1>2, <1>3, Induction
<1> QED
  BY <1>4 DEF S

(* The sum of the squares of twice the distances from the middle.          *)
LEMMA SquaresSums ==
  ASSUME NEW n \in Nat, NEW m \in Int, NEW e \in [0..n -> Int], e[0] = 0,
         \A k \in 1..n : e[k] = e[k - 1] + (2 * (k - 1) - m) * (2 * (k - 1) - m)
  PROVE  3 * e[n] = SquaresUpto(m, n)
<1> DEFINE S == {k \in Nat : k \in 0..n => 3 * e[k] = SquaresUpto(m, k)}
<1>1. 0 \in S
  BY DEF SquaresUpto
<1>2. ASSUME NEW k \in S
      PROVE  k + 1 \in S
  <2>1. SUFFICES ASSUME k + 1 \in 0..n
                 PROVE  3 * e[k + 1] = SquaresUpto(m, k + 1)
    OBVIOUS
  <2>2. k \in Int /\ k \in 0..n /\ k + 1 \in 1..n /\ (k + 1) - 1 = k
    BY <2>1
  <2>3. 3 * e[k] = SquaresUpto(m, k)
    BY <2>2
  <2> HIDE DEF S
  <2>4. e[k + 1] = e[k] + (2 * k - m) * (2 * k - m)
    BY <2>2
  <2>5. e[k] \in Int
    BY <2>2
  <2>6. 3 * (e[k] + (2 * k - m) * (2 * k - m)) = SquaresUpto(m, k + 1)
    BY <2>2, <2>3, <2>5, SquaresTurn
  <2> QED
    BY <2>4, <2>6
<1>3. S \in SUBSET Nat
  OBVIOUS
<1> HIDE DEF S
<1>4. n \in S
  BY <1>1, <1>2, <1>3, Induction
<1> QED
  BY <1>4 DEF S

(* The sum of the squares of n times the distances from the mean s / n.    *)
LEMMA DeviationsSums ==
  ASSUME NEW n \in Nat, NEW s \in Int, NEW v \in [1..n -> Int],
         NEW a \in [0..n -> Int], NEW b \in [0..n -> Int], NEW f \in [0..n -> Int],
         a[0] = 0, b[0] = 0, f[0] = 0,
         \A k \in 1..n : a[k] = a[k - 1] + v[k],
         \A k \in 1..n : b[k] = b[k - 1] + v[k] * v[k],
         \A k \in 1..n : f[k] = f[k - 1] + (n * v[k] - s) * (n * v[k] - s)
  PROVE  Deviations(f[n], b[n], a[n], n, n, s)
<1> DEFINE S == {k \in Nat : k \in 0..n => Deviations(f[k], b[k], a[k], k, n, s)}
<1>1. 0 \in S
  BY DEF Deviations, DeviationsAdds
<1>2. ASSUME NEW k \in S
      PROVE  k + 1 \in S
  <2>1. SUFFICES ASSUME k + 1 \in 0..n
                 PROVE  Deviations(f[k + 1], b[k + 1], a[k + 1], k + 1, n, s)
    OBVIOUS
  <2>2. n \in Int /\ k \in Int /\ k \in 0..n /\ k + 1 \in 1..n /\ (k + 1) - 1 = k
    BY <2>1
  <2>3. Deviations(f[k], b[k], a[k], k, n, s)
    BY <2>2
  <2> HIDE DEF S
  <2>4. DeviationsAdds(f[k + 1], b[k + 1], a[k + 1], f[k], b[k], a[k], v[k + 1], n, s)
    BY <2>2 DEF DeviationsAdds
  <2>5. a[k] \in Int /\ b[k] \in Int /\ f[k] \in Int /\ v[k + 1] \in Int
    BY <2>2
  <2> QED
    BY <2>2, <2>3, <2>4, <2>5, Zenon, DeviationsTurn
<1>3. S \in SUBSET Nat
  OBVIOUS
<1> HIDE DEF S
<1>4. n \in S
  BY <1>1, <1>2, <1>3, Induction
<1> QED
  BY <1>4 DEF S

(* Two sums of the same terms, one of which starts in the middle and turns *)
(* over at the end, are equal.                                             *)
LEMMA RotatedSums ==
  ASSUME NEW n \in Nat, NEW w \in 0..n,
         NEW x \in [0..(n - 1) -> Int], NEW y \in [0..(n - 1) -> Int],
         \A i \in 0..(n - 1) : y[i] = x[IF w + i >= n THEN w + i - n ELSE w + i],
         NEW p \in [0..n -> Int], NEW r \in [0..n -> Int],
         Sums(p, x, 0, n), Sums(r, y, 0, n)
  PROVE  r[n] = p[n]
<1> DEFINE Upto(k) == IF w + k <= n THEN p[w + k] - p[w] ELSE (p[n] - p[w]) + p[w + k - n]
           S == {k \in Nat : k \in 0..n => r[k] = Upto(k)}
<1>1. p[0] = 0 /\ \A k \in 0..(n - 1) : p[k + 1] = p[k] + x[k]
  <2>1. \A k \in 0..(n - 1) : k + 1 \in 1..n /\ (k + 1) - 1 = k /\ 0 + (k + 1) - 1 = k
    OBVIOUS
  <2> QED
    BY <2>1 DEF Sums
<1>2. r[0] = 0 /\ \A k \in 0..(n - 1) : r[k + 1] = r[k] + y[k]
  <2>1. \A k \in 0..(n - 1) : k + 1 \in 1..n /\ (k + 1) - 1 = k /\ 0 + (k + 1) - 1 = k
    OBVIOUS
  <2> QED
    BY <2>1 DEF Sums
<1>3. 0 \in S
  BY <1>2
<1>4. ASSUME NEW k \in S
      PROVE  k + 1 \in S
  <2>1. SUFFICES ASSUME k + 1 \in 0..n
                 PROVE  r[k + 1] = Upto(k + 1)
    OBVIOUS
  <2>2. k \in 0..(n - 1) /\ k \in 0..n
    BY <2>1
  <2>3. r[k] = Upto(k)
    BY <2>2
  <2> HIDE DEF S
  <2>4. r[k + 1] = r[k] + x[IF w + k >= n THEN w + k - n ELSE w + k]
    BY <1>2, <2>2
  <2>5. CASE w + k < n
    <3>1. w + k \in 0..(n - 1)
      BY <2>2, <2>5
    <3>2. p[w + k + 1] = p[w + k] + x[w + k]
      BY Zenon, <1>1, <3>1
    <3>3. p[w + k] \in Int /\ p[w] \in Int /\ x[w + k] \in Int /\ r[k] \in Int
      BY <2>2, <3>1
    <3>4. r[k] = p[w + k] - p[w] /\ r[k + 1] = r[k] + x[w + k]
      BY <2>2, <2>3, <2>4, <2>5
    <3>5. Upto(k + 1) = p[w + k + 1] - p[w]
      BY <2>2, <2>5
    <3> HIDE DEF Upto
    <3> QED
      <4>1. r[k + 1] = p[w + k + 1] - p[w]
        <5> DEFINE next == p[w + k + 1]
                   this == p[w + k]
                   term == x[w + k]
        <5>1. next = this + term /\ r[k] = this - p[w] /\ r[k + 1] = r[k] + term
          BY <3>2, <3>4
        <5>2. this \in Int /\ term \in Int /\ p[w] \in Int
          BY <3>3
        <5> HIDE DEF next, this, term
        <5>3. r[k + 1] = next - p[w]
          BY <5>1, <5>2
        <5> QED
          BY <5>3 DEF next
      <4> QED
        BY <3>5, <4>1, Zenon
  <2>6. CASE w + k >= n
    <3>1. w + k - n \in 0..(n - 1)
      BY <2>2, <2>6
    <3>2. p[w + k - n + 1] = p[w + k - n] + x[w + k - n]
      BY Zenon, <1>1, <3>1
    <3>3. /\ p[w + k - n] \in Int /\ p[w] \in Int /\ p[n] \in Int
          /\ x[w + k - n] \in Int /\ r[k] \in Int
      BY <2>2, <3>1
    <3>4. r[k] = (p[n] - p[w]) + p[w + k - n]
      <4>1. CASE w + k = n
        <5>1. Upto(k) = p[n] - p[w]
          <6>1. w + k <= n
            BY <2>2, <4>1
          <6>2. Upto(k) = p[w + k] - p[w]
            BY <6>1
          <6> HIDE DEF Upto
          <6> QED
            BY <4>1, <6>2, Zenon
        <5>0. w + k - n = 0
          BY <2>2, <4>1
        <5> HIDE DEF Upto
        <5>2. p[w + k - n] = 0
          BY <1>1, <5>0
        <5> QED
          BY <2>3, <3>3, <5>1, <5>2
      <4>2. CASE w + k # n
        <5>1. ~(w + k <= n)
          BY <2>2, <2>6, <4>2
        <5> QED
          BY <2>3, <5>1
      <4> QED
        BY <4>1, <4>2
    <3>5. Upto(k + 1) = (p[n] - p[w]) + p[w + k - n + 1]
      <4>1. ~(w + (k + 1) <= n) /\ w + (k + 1) - n = w + k - n + 1
        BY <2>2, <2>6
      <4> QED
        BY <4>1
    <3>6. r[k + 1] = r[k] + x[w + k - n]
      BY <2>4, <2>6
    <3> HIDE DEF Upto
    <3> QED
      <4>1. r[k + 1] = (p[n] - p[w]) + p[w + k - n + 1]
        BY <3>2, <3>3, <3>4, <3>6
      <4> QED
        BY <3>5, <4>1, Zenon
  <2> QED
    BY <2>2, <2>5, <2>6
<1>5. S \in SUBSET Nat
  OBVIOUS
<1>6. n \in S
  <2> HIDE DEF S
  <2> QED
    BY <1>3, <1>4, <1>5, Induction
<1>7. r[n] = Upto(n)
  BY <1>6
<1>8. CASE w = 0
  <2>1. Upto(n) = p[n] - p[0]
    BY <1>8
  <2> HIDE DEF Upto, S
  <2>2. p[n] \in Int
    OBVIOUS
  <2> QED
    BY <1>1, <1>7, <2>1, <2>2
<1>9. CASE w # 0
  <2>1. ~(w + n <= n) /\ w + n - n = w
    BY <1>9
  <2>2. Upto(n) = (p[n] - p[w]) + p[w]
    BY <2>1
  <2> HIDE DEF Upto, S
  <2>3. p[n] \in Int /\ p[w] \in Int
    OBVIOUS
  <2> QED
    BY <1>7, <2>2, <2>3
<1> QED
  BY <1>8, <1>9

(* The mean of all elements, in either order.                              *)
LEMMA MeansAgree ==
  ASSUME IInv, size > 0
  PROVE  Equal(estimateMean, estimateMeanOf(0, size - 1))
<1> DEFINE n == size
           x == [d \in 0..(n - 1) |-> data_vector[d].value]
           y == ValuesOf(0, n - 1)
<1>1. n \in Nat \ {0} /\ data_vector \in [0..(n - 1) -> Values]
  BY DEF IInv, TypeOK
<1>2. \A v \in Values : v.value \in Int
  BY ValuesAssumption
<1>3. write_pointer \in 0..n
  BY <1>1 DEF IInv, TypeOK, WritePointerFits
<1>4. x \in [0..(n - 1) -> Int]
  <2>1. \A d \in 0..(n - 1) : data_vector[d].value \in Int
    BY <1>1, <1>2
  <2> QED
    BY <2>1
<1>5. ASSUME NEW i \in 0..(n - 1)
      PROVE  /\ y[i] \in Int
             /\ y[i] = x[IF write_pointer + i >= n THEN write_pointer + i - n ELSE write_pointer + i]
  <2>1. /\ at(i) \in Values
        /\ at(i) = data_vector[getDataVectorIndex(i)]
        /\ getDataVectorIndex(i) \in 0..(n - 1)
        /\ getDataVectorIndex(i) =
              IF write_pointer + i >= n THEN write_pointer + i - n ELSE write_pointer + i
    BY AtIsElement
  <2>2. y[i] = at(i).value
    BY DEF ValuesOf
  <2>3. x[getDataVectorIndex(i)] = data_vector[getDataVectorIndex(i)].value
    BY <2>1
  <2> HIDE DEF x, y, n
  <2> QED
    BY <1>2, <2>1, <2>2, <2>3
<1>6. y \in [0..(n - 1) -> Int]
  <2>1. y = [i \in 0..(n - 1) |-> y[i]]
    BY DEF ValuesOf
  <2> HIDE DEF y
  <2> QED
    BY <1>5, <2>1
<1>7. (n - 1) - 0 + 1 = n
  BY <1>1
<1>8. estimateMean.num = SumOver(x, 0, n - 1) /\ estimateMean.den = n
  BY DEF estimateMean, Fraction
<1>9. estimateMeanOf(0, n - 1).num = SumOver(y, 0, n - 1) /\ estimateMeanOf(0, n - 1).den = n
  BY <1>7 DEF estimateMeanOf, Fraction
<1> HIDE DEF x, y, n
<1>10. n - 1 \in Int /\ 0 \in Int /\ (n - 1) - 0 + 1 \in Nat
  BY <1>1
<1>11. PICK p \in [0..n -> Int] : Sums(p, x, 0, n) /\ SumOver(x, 0, n - 1) = p[n]
  BY <1>4, <1>7, <1>10, SumsExist
<1>12. PICK r \in [0..n -> Int] : Sums(r, y, 0, n) /\ SumOver(y, 0, n - 1) = r[n]
  BY <1>6, <1>7, <1>10, SumsExist
<1>13. \A i \in 0..(n - 1) :
          y[i] = x[IF write_pointer + i >= n THEN write_pointer + i - n ELSE write_pointer + i]
  BY <1>5
<1>14. n \in Nat
  BY <1>1
<1>15. r[n] = p[n]
  BY <1>3, <1>4, <1>6, <1>11, <1>12, <1>13, <1>14, RotatedSums
<1> QED
  BY <1>1, <1>8, <1>9, <1>11, <1>12, <1>15 DEF Equal, n

(* The terms of the loops over a window, and of the definitions that the   *)
(* estimates are compared with.                                            *)
SquaresOf(from, to) == [i \in from..to |-> at(i).value * at(i).value]
PlacedOf(from, to) == [i \in from..to |-> at(i).value * (i - from)]
PlacesOf(from, to) ==
    [i \in from..to |-> (2 * (i - from) - ((to - from + 1) - 1))
                           * (2 * (i - from) - ((to - from + 1) - 1))]
CenteredOf(from, to) ==
    [i \in from..to |-> (2 * (i - from) - ((to - from + 1) - 1)) * at(i).value]
DeviationsOf(from, to) ==
    [i \in from..to |-> ((to - from + 1) * at(i).value - estimateMeanOf(from, to).num)
                           * ((to - from + 1) * at(i).value - estimateMeanOf(from, to).num)]

(* The terms of a window by their place in it.                             *)
LEMMA WindowTerms ==
  ASSUME IInv, NEW from \in 0..(size - 1), NEW to \in 0..(size - 1), from <= to
  PROVE  \E v \in [1..(to - from + 1) -> Int] :
            \A k \in 1..(to - from + 1) :
               from + k - 1 \in from..to /\ v[k] = at(from + k - 1).value /\ (from + k - 1) - from = k - 1
<1> DEFINE n == to - from + 1
           v == [k \in 1..n |-> at(from + k - 1).value]
<1>1. from \in Int /\ to \in Int /\ size \in Nat
  BY DEF IInv, TypeOK
<1>2. ASSUME NEW k \in 1..n
      PROVE  /\ from + k - 1 \in from..to /\ from + k - 1 \in 0..(size - 1)
             /\ (from + k - 1) - from = k - 1
  BY <1>1
<1>3. \A k \in 1..n : at(from + k - 1).value \in Int
  <2> SUFFICES ASSUME NEW k \in 1..n
               PROVE  at(from + k - 1).value \in Int
    OBVIOUS
  <2>1. at(from + k - 1) \in Values
    BY <1>2, AtIsElement
  <2> QED
    BY <2>1, ValuesAssumption
<1>4. v \in [1..n -> Int] /\ \A k \in 1..n : v[k] = at(from + k - 1).value
  BY <1>3
<1> HIDE DEF v, n
<1>5. \A k \in 1..n : from + k - 1 \in from..to /\ v[k] = at(from + k - 1).value
                         /\ (from + k - 1) - from = k - 1
  BY <1>2, <1>4
<1> QED
  BY <1>4, <1>5 DEF n

(* The square of a deviation is a number.                                  *)
LEMMA DeviationTyped ==
  ASSUME NEW n \in Int, NEW v \in Int, NEW s \in Int
  PROVE  (n * v - s) * (n * v - s) \in Int
  OBVIOUS

(* What the loops over a window add up, and what the definitions do.       *)
LEMMA WindowSums ==
  ASSUME IInv, NEW from \in 0..(size - 1), NEW to \in 0..(size - 1), from <= to
  PROVE  \E y, yy, xy, d, e, f \in Int :
            /\ y = SumOver(ValuesOf(from, to), from, to)
            /\ yy = SumOver(SquaresOf(from, to), from, to)
            /\ xy = SumOver(PlacedOf(from, to), from, to)
            /\ d = SumOver(CenteredOf(from, to), from, to)
            /\ e = SumOver(PlacesOf(from, to), from, to)
            /\ f = SumOver(DeviationsOf(from, to), from, to)
            /\ Covariance(d, xy, y, to - from)
            /\ 3 * e = SquaresUpto(to - from, to - from + 1)
            /\ Deviations(f, yy, y, to - from + 1, to - from + 1, y)
<1> DEFINE n == to - from + 1
           m == to - from
           s == SumOver(ValuesOf(from, to), from, to)
<1>1. from \in Int /\ to \in Int /\ m \in Nat /\ n \in Nat /\ n - 1 = m /\ n = m + 1
  BY DEF IInv, TypeOK
<1>2. PICK v \in [1..n -> Int] :
         \A k \in 1..n : from + k - 1 \in from..to /\ v[k] = at(from + k - 1).value
                            /\ (from + k - 1) - from = k - 1
  BY WindowTerms
<1>3. ASSUME NEW i \in from..to
      PROVE  at(i).value \in Int /\ i - from \in Int
  <2>1. i \in 0..(size - 1)
    BY <1>1 DEF IInv, TypeOK
  <2>2. at(i) \in Values
    BY <2>1, AtIsElement
  <2> QED
    BY <1>1, <2>2, ValuesAssumption
<1>4. estimateMeanOf(from, to).num = s
  BY DEF estimateMeanOf, Fraction
<1> HIDE DEF m, s
<1>5. PICK a \in [0..n -> Int] : Sums(a, ValuesOf(from, to), from, n) /\ s = a[n]
  <2>1. ValuesOf(from, to) \in [from..to -> Int]
    BY <1>3 DEF ValuesOf
  <2> QED
    BY <1>1, <2>1, SumsExist DEF s
<1>6. s \in Int
  BY <1>1, <1>5
<1>7. PICK b \in [0..n -> Int] :
         Sums(b, SquaresOf(from, to), from, n) /\ SumOver(SquaresOf(from, to), from, to) = b[n]
  <2>1. SquaresOf(from, to) \in [from..to -> Int]
    BY <1>3 DEF SquaresOf
  <2> QED
    BY <1>1, <2>1, SumsExist
<1>8. PICK c \in [0..n -> Int] :
         Sums(c, PlacedOf(from, to), from, n) /\ SumOver(PlacedOf(from, to), from, to) = c[n]
  <2>1. PlacedOf(from, to) \in [from..to -> Int]
    BY <1>3 DEF PlacedOf
  <2> QED
    BY <1>1, <2>1, SumsExist
<1>9. PICK d \in [0..n -> Int] :
         Sums(d, CenteredOf(from, to), from, n) /\ SumOver(CenteredOf(from, to), from, to) = d[n]
  <2>1. CenteredOf(from, to) \in [from..to -> Int]
    BY <1>1, <1>3 DEF CenteredOf
  <2> QED
    BY <1>1, <2>1, SumsExist
<1>10. PICK e \in [0..n -> Int] :
         Sums(e, PlacesOf(from, to), from, n) /\ SumOver(PlacesOf(from, to), from, to) = e[n]
  <2>1. PlacesOf(from, to) \in [from..to -> Int]
    BY <1>1, <1>3 DEF PlacesOf
  <2> QED
    BY <1>1, <2>1, SumsExist
<1>11. PICK f \in [0..n -> Int] :
         Sums(f, DeviationsOf(from, to), from, n) /\ SumOver(DeviationsOf(from, to), from, to) = f[n]
  <2>1. DeviationsOf(from, to) \in [from..to -> Int]
    <3>1. ASSUME NEW i \in from..to
          PROVE  (n * at(i).value - s) * (n * at(i).value - s) \in Int
      <4>1. n \in Int /\ at(i).value \in Int
        BY <1>1, <1>3
      <4> HIDE DEF n
      <4> QED
        BY <1>6, <4>1, DeviationTyped, Zenon
    <3>2. DeviationsOf(from, to) = [i \in from..to |-> (n * at(i).value - s) * (n * at(i).value - s)]
      BY <1>4, Zenon DEF DeviationsOf
    <3> QED
      BY <3>1, <3>2
  <2> QED
    BY <1>1, <2>1, SumsExist
<1>12. a[0] = 0 /\ \A k \in 1..n : a[k] = a[k - 1] + v[k]
  BY <1>2, <1>5 DEF Sums, ValuesOf
<1>13. b[0] = 0 /\ \A k \in 1..n : b[k] = b[k - 1] + v[k] * v[k]
  BY <1>2, <1>7 DEF Sums, SquaresOf
<1>14. c[0] = 0 /\ \A k \in 1..n : c[k] = c[k - 1] + v[k] * (k - 1)
  BY <1>2, <1>8 DEF Sums, PlacedOf
<1>15. d[0] = 0 /\ \A k \in 1..n : d[k] = d[k - 1] + (2 * (k - 1) - m) * v[k]
  BY <1>1, <1>2, <1>9 DEF Sums, CenteredOf
<1>16. e[0] = 0 /\ \A k \in 1..n : e[k] = e[k - 1] + (2 * (k - 1) - m) * (2 * (k - 1) - m)
  BY <1>1, <1>2, <1>10 DEF Sums, PlacesOf
<1>17. f[0] = 0 /\ \A k \in 1..n : f[k] = f[k - 1] + (n * v[k] - s) * (n * v[k] - s)
  BY <1>2, <1>4, <1>11 DEF Sums, DeviationsOf
<1> HIDE DEF n
<1>18. Covariance(d[n], c[n], a[n], m)
  <2>1. n \in Nat /\ m \in Int
    BY <1>1
  <2> QED
    BY <1>12, <1>14, <1>15, <2>1, CovarianceSums, Zenon
<1>19. 3 * e[n] = SquaresUpto(m, n)
  <2>1. n \in Nat /\ m \in Int
    BY <1>1
  <2> QED
    BY <1>16, <2>1, SquaresSums, Zenon
<1>20. Deviations(f[n], b[n], a[n], n, n, s)
  BY <1>1, <1>6, <1>12, <1>13, <1>17, DeviationsSums
<1>21. a[n] \in Int /\ b[n] \in Int /\ c[n] \in Int /\ d[n] \in Int /\ e[n] \in Int /\ f[n] \in Int
  BY <1>1
<1> QED
  <2>1. \E y, yy, xy, dd, ee, ff \in Int :
            /\ y = s
            /\ yy = SumOver(SquaresOf(from, to), from, to)
            /\ xy = SumOver(PlacedOf(from, to), from, to)
            /\ dd = SumOver(CenteredOf(from, to), from, to)
            /\ ee = SumOver(PlacesOf(from, to), from, to)
            /\ ff = SumOver(DeviationsOf(from, to), from, to)
            /\ Covariance(dd, xy, y, m)
            /\ 3 * ee = SquaresUpto(m, n)
            /\ Deviations(ff, yy, y, n, n, y)
    <3> a[n] \in Int /\ b[n] \in Int /\ c[n] \in Int /\ d[n] \in Int /\ e[n] \in Int /\ f[n] \in Int
      BY <1>21
    <3> WITNESS a[n] \in Int, b[n] \in Int, c[n] \in Int, d[n] \in Int, e[n] \in Int, f[n] \in Int
    <3>1. Covariance(d[n], c[n], a[n], m) /\ Deviations(f[n], b[n], a[n], n, n, a[n])
      BY <1>5, <1>18, <1>20, Zenon
    <3> QED
      BY <1>5, <1>7, <1>8, <1>9, <1>10, <1>11, <1>19, <3>1, Zenon
  <2> QED
    BY <2>1, Zenon DEF m, n, s

(* The slope, from twice the covariance and the squares of the places.     *)
LEMMA SlopeOfSums ==
  ASSUME NEW m \in Nat \ {0}, NEW d \in Int, NEW e \in Int, 3 * e = SquaresUpto(m, m + 1),
         NEW x, x = m * (m + 1) * (2 * m + 1) * 4 - m * m * (m + 1) * 6
  PROVE  /\ x * 2 * (m + 1) # 0
         /\ Equal(Fraction(d * (24 * (m + 1)), x * (2 * (m + 1))), Fraction(2 * d, e))
<1>1. 3 * e = m * (m + 1) * (m + 2) /\ x = 6 * e
  BY SquaresOfAll
<1>2. e > 0
  <2>1. m * (m + 1) > 0
    OBVIOUS
  <2> DEFINE q == m * (m + 1)
  <2>2. q \in Int
    OBVIOUS
  <2> HIDE DEF q
  <2>3. q * (m + 2) > 0
    BY <2>1, <2>2 DEF q
  <2> QED
    BY <1>1, <2>3 DEF q
<1>3. x * (2 * (m + 1)) > 0 /\ x * 2 * (m + 1) = x * (2 * (m + 1))
  BY <1>1, <1>2
<1>4. (d * (24 * (m + 1))) * e = (2 * d) * (x * (2 * (m + 1)))
  BY <1>1
<1> QED
  BY <1>2, <1>3, <1>4 DEF Equal, Fraction

(* The variance, from the deviations.                                      *)
LEMMA VarianceOfSums ==
  ASSUME NEW n \in Nat \ {0, 1}, NEW f \in Int, NEW b \in Int, NEW s \in Int, Deviations(f, b, s, n, n, s)
  PROVE  Equal(Fraction(n * b - s * s, n * (n - 1)), Fraction(f, n * n * (n - 1)))
<1>1. f = n * (n * b - s * s)
  BY DEF Deviations
<1> DEFINE q == n * b - s * s
<1>2. q \in Int
  OBVIOUS
<1> HIDE DEF q
<1>3. q * (n * n * (n - 1)) = f * (n * (n - 1))
  BY <1>1, <1>2 DEF q
<1>4. n * (n - 1) > 0
  OBVIOUS
<1>5. n * n * (n - 1) > 0
  OBVIOUS
<1> QED
  BY <1>3, <1>4, <1>5 DEF Equal, Fraction, q

(* The estimates of a window are those of the definitions.                 *)
LEMMA WindowExact ==
  ASSUME IInv, NEW from \in 0..(size - 1), NEW to \in 0..(size - 1), from < to
  PROVE  /\ Equal(estimateLinearRegression(from, to),
                  Fraction(2 * SumOver(CenteredOf(from, to), from, to),
                           SumOver(PlacesOf(from, to), from, to)))
         /\ Equal(estimateMeanAndVariance(from, to).variance,
                  Fraction(SumOver(DeviationsOf(from, to), from, to),
                           (to - from + 1) * (to - from + 1) * ((to - from + 1) - 1)))
<1> DEFINE n == to - from + 1
           m == to - from
<1>1. from <= to /\ n \in Nat \ {0, 1} /\ m \in Nat \ {0} /\ n = m + 1
  BY DEF IInv, TypeOK
<1>2. PICK y, yy, xy, d, e, f \in Int :
         /\ y = SumOver(ValuesOf(from, to), from, to)
         /\ yy = SumOver(SquaresOf(from, to), from, to)
         /\ xy = SumOver(PlacedOf(from, to), from, to)
         /\ d = SumOver(CenteredOf(from, to), from, to)
         /\ e = SumOver(PlacesOf(from, to), from, to)
         /\ f = SumOver(DeviationsOf(from, to), from, to)
         /\ Covariance(d, xy, y, m)
         /\ 3 * e = SquaresUpto(m, n)
         /\ Deviations(f, yy, y, n, n, y)
  BY <1>1, WindowSums, Zenon
<1>3. Equal(estimateLinearRegression(from, to), Fraction(2 * d, e))
  <2> DEFINE x == m * (m + 1) * (2 * m + 1) * 4 - m * m * (m + 1) * 6
  <2>1. estimateLinearRegression(from, to) =
           IF x * 2 * (m + 1) = 0 THEN NoValue
           ELSE Fraction((xy * 2 - m * y) * (24 * (m + 1)), x * (2 * (m + 1)))
    BY <1>2, Zenon DEF estimateLinearRegression, PlacedOf
  <2>2. 3 * e = SquaresUpto(m, m + 1)
    BY <1>1, <1>2, Zenon
  <2>3. xy * 2 - m * y = d
    BY <1>1, <1>2 DEF Covariance
  <2> HIDE DEF m
  <2>4. x * 2 * (m + 1) # 0 /\ Equal(Fraction(d * (24 * (m + 1)), x * (2 * (m + 1))), Fraction(2 * d, e))
    BY <1>1, <1>2, <2>2, SlopeOfSums, Zenon
  <2> HIDE DEF x
  <2> QED
    BY <2>1, <2>3, <2>4, Zenon
<1>4. Equal(estimateMeanAndVariance(from, to).variance, Fraction(f, n * n * (n - 1)))
  <2>1. estimateMeanAndVariance(from, to).variance = Fraction(n * yy - y * y, n * (n - 1))
    BY <1>2 DEF estimateMeanAndVariance, SquaresOf
  <2> HIDE DEF n
  <2> QED
    BY <1>1, <1>2, <2>1, VarianceOfSums, ZenonT(60)
<1> QED
  BY <1>2, <1>3, <1>4, Zenon

(* EstimatesExact: the estimates are what their definitions say, for every *)
(* buffer and window: the mean in the order of the vector is that in the   *)
(* order of the ring, the slope is that of least squares, and the variance *)
(* is that of the deviations from the mean.                                *)
THEOREM EstimatesCorrect == Spec => []EstimatesExact
<1>1. IInv => EstimatesExact
  <2> SUFFICES ASSUME IInv PROVE EstimatesExact
    OBVIOUS
  <2>1. size > 0 => Equal(estimateMean, estimateMeanOf(0, size - 1))
    BY MeansAgree
  <2>2. ASSUME NEW from \in 0..(size - 1), NEW to \in 0..(size - 1), from < to
        PROVE  /\ Equal(estimateLinearRegression(from, to),
                        Fraction(2 * SumOver(CenteredOf(from, to), from, to),
                                 SumOver(PlacesOf(from, to), from, to)))
               /\ Equal(estimateMeanAndVariance(from, to).variance,
                        Fraction(SumOver(DeviationsOf(from, to), from, to),
                                 (to - from + 1) * (to - from + 1) * ((to - from + 1) - 1)))
    BY <2>2, WindowExact
  <2> QED
    BY <2>1, <2>2, Zenon DEF EstimatesExact, CenteredOf, PlacesOf, DeviationsOf
<1> QED
  BY <1>1, RepresentationInvariant, PTL

-----------------------------------------------------------------------------
(***************************************************************************)
(* Segmentation.                                                           *)
(***************************************************************************)

(* The values around one that estimateStatistics reads are all there.      *)
LEMMA StatisticsInBounds ==
  ASSUME NEW n \in Nat \ {0}, NEW w \in Nat, 4 * w <= n, NEW i \in 0..(n - 1)
  PROVE  StatisticsWindow(n, w, i) \subseteq 0..(n - 1)
<1> DEFINE t == IF i > n - w - 1 THEN n - i - 1 ELSE IF i < w THEN i ELSE w
<1>1. t \in Int /\ 0 <= i - t /\ i + t <= n - 1
  OBVIOUS
<1>2. StatisticsWindow(n, w, i) = (i - t)..(i + t)
  BY DEF StatisticsWindow
<1> HIDE DEF t
<1> QED
  BY <1>1, <1>2

(* What the turns of the two segmentations read is there.                  *)
LEMMA TurnsInBounds ==
  ASSUME NEW n \in Nat \ {0}, NEW w \in Nat
  PROVE  /\ \A c \in MeanTurns(n, w) : MeanReads(w, c) \subseteq 0..(n - 1)
         /\ \A c \in RegressionTurns(n, w) : RegressionReads(w, c) \subseteq 0..(n - 1)
<1>1. ASSUME NEW c \in MeanTurns(n, w)
      PROVE  MeanReads(w, c) \subseteq 0..(n - 1)
  <2>1. c \in 1..n /\ c + 2 * w + 1 < n - 1
    BY DEF MeanTurns
  <2>2. /\ (c - 1)..(c + 1) \subseteq 0..(n - 1)
        /\ (c + 2 * w)..(c + 2 * w + 2) \subseteq 0..(n - 1)
    BY <2>1
  <2> QED
    BY <2>2 DEF MeanReads
<1>2. ASSUME NEW c \in RegressionTurns(n, w)
      PROVE  RegressionReads(w, c) \subseteq 0..(n - 1)
  <2>1. c \in 0..n /\ c + 2 * w + 1 < n
    BY DEF RegressionTurns
  <2> QED
    BY <2>1 DEF RegressionReads
<1> QED
  BY <1>1, <1>2

(* The two segmentations of n values, and what they read.                  *)
LEMMA SegmentationSound ==
  ASSUME NEW n \in 1..MaxValues
  PROVE  Partitions[n] /\ SpansWindows[n] /\ ReadsInBounds[n]
<1>0. n \in Nat \ {0}
  BY MaxValuesAssumption
<1>1. Partitions[n]
  <2>1. ASSUME NEW segments \in findPiecewiseConstantIntervals(n) \cup findPiecewiseLinearIntervals(n)
        PROVE  \E changes \in SUBSET (0..(n - 2)) : segments = Intervals(n, changes)
    BY <1>0, MeanChanges, RegressionChanges DEF findPiecewiseConstantIntervals, findPiecewiseLinearIntervals
  <2>2. ASSUME NEW segments \in findPiecewiseConstantIntervals(n) \cup findPiecewiseLinearIntervals(n)
        PROVE  /\ \A s \in segments : s.start_index <= s.end_index
               /\ UNION {s.start_index..s.end_index : s \in segments} = 0..(n - 1)
               /\ \A s, t \in segments : s = t \/ s.end_index < t.start_index \/ t.end_index < s.start_index
    BY <1>0, <2>1, IntervalsPartition
  <2> QED
    BY <2>2, Zenon DEF Partitions
<1>2. SpansWindows[n]
  <2> DEFINE w == WindowSize(n, RegressionWindow)
  <2>1. ASSUME NEW segments \in findPiecewiseLinearIntervals(n), NEW s \in segments
        PROVE  s.start_index = 0 \/ s.end_index = n - 1 \/ s.end_index - s.start_index >= 2 * w
    <3>1. PICK changes \in findChangePointsOfLinearRegressionValues(n) : segments = Intervals(n, changes)
      BY DEF findPiecewiseLinearIntervals
    <3>2. /\ changes \in SUBSET (0..(n - 2))
          /\ \A c, d \in changes : c < d => c + 2 * w < d
      BY <1>0, RegressionChanges
    <3>3. PICK start \in {0} \cup {c + 1 : c \in changes} :
             s = [start_index |-> start, end_index |-> NextEnd(n, changes, start)]
      BY <3>1 DEF Intervals
    <3>4. CASE start = 0
      BY <3>3, <3>4
    <3>5. CASE start # 0
      <4>1. PICK c \in changes : start = c + 1
        BY <3>3, <3>5
      <4>2. c \in 0..(n - 2) /\ start \in 0..(n - 1) /\ c \in Int
        BY <1>0, <3>2, <4>1
      <4> DEFINE e == NextEnd(n, changes, start)
      <4>3. e \in start..(n - 1) /\ (e = n - 1 \/ e \in changes)
        BY <1>0, <3>2, <4>2, NextEndFacts
      <4>4. s.start_index = start /\ s.end_index = e
        BY <3>3
      <4> HIDE DEF e
      <4>5. w \in Nat
        BY <1>0, WindowFits DEF RegressionWindow
      <4> HIDE DEF w
      <4>6. e = n - 1 \/ c + 2 * w < e
        <5>1. c < e
          BY <4>1, <4>2, <4>3
        <5> QED
          BY <3>2, <4>3, <5>1
      <4> QED
        BY <1>0, <4>1, <4>2, <4>3, <4>4, <4>5, <4>6
    <3> QED
      BY <3>4, <3>5
  <2> QED
    BY <2>1, Zenon DEF SpansWindows
<1>3. ReadsInBounds[n]
  <2>1. /\ WindowSize(n, MeanWindow) \in Nat /\ 4 * WindowSize(n, MeanWindow) <= n
        /\ WindowSize(n, RegressionWindow) \in Nat /\ 4 * WindowSize(n, RegressionWindow) <= n
    BY <1>0, WindowFits DEF MeanWindow, RegressionWindow
  <2>2. \A i \in 0..(n - 1) :
           StatisticsWindow(n, WindowSize(n, MeanWindow), i)
             \cup StatisticsWindow(n, WindowSize(n, RegressionWindow), i) \subseteq 0..(n - 1)
    BY <1>0, <2>1, StatisticsInBounds
  <2>3. \A c \in MeanTurns(n, WindowSize(n, MeanWindow)) :
           MeanReads(WindowSize(n, MeanWindow), c) \subseteq 0..(n - 1)
    BY <1>0, <2>1, TurnsInBounds
  <2>4. \A c \in RegressionTurns(n, WindowSize(n, RegressionWindow)) :
           RegressionReads(WindowSize(n, RegressionWindow), c) \subseteq 0..(n - 1)
    BY <1>0, <2>1, TurnsInBounds
  <2> QED
    BY <2>2, <2>3, <2>4, Zenon DEF ReadsInBounds
<1> QED
  BY <1>1, <1>2, <1>3

(* However the comparisons of variances come out, the segmentation of a    *)
(* buffer of any size reads inside of its vectors, covers the values once, *)
(* and keeps change points of the regression two windows apart.            *)
THEOREM SegmentationCorrect == Spec => []SegmentsSound
<1>1. ASSUME IInv PROVE SegmentsSound
  <2>1. \A n \in Sizes : n \in 1..MaxValues
    <3>1. size \in Nat
      BY <1>1 DEF IInv, TypeOK
    <3> QED
      BY <3>1, MaxValuesAssumption DEF Sizes, Greater
  <2>2. SegmentsPartition /\ RegressionSegmentsSpanWindows /\ EstimatesReadInBounds
    BY <2>1, SegmentationSound DEF SegmentsPartition, RegressionSegmentsSpanWindows, EstimatesReadInBounds
  <2> QED
    BY <2>2 DEF SegmentsSound
<1> QED
  BY <1>1, RepresentationInvariant, PTL

(***************************************************************************)
(* The averaging processor.                                                *)
(***************************************************************************)

(* The state of one device, with less than one averaging time left over.   *)
AveragingState ==
    [averagingTime : Nat, remainder : Nat, currentTimestamp : Times,
     currentTimestampIsValid : BOOLEAN, averagingTimeReached : BOOLEAN]

Fits(s) == s \in AveragingState /\ (s.averagingTime # 0 => s.remainder < s.averagingTime)

(* A new device starts with nothing left over.                             *)
LEMMA InitialFits ==
  ASSUME NEW serial PROVE Fits(initializeState(serial))
<1>1. 0 \in Times
  BY TimeAssumption DEF Times
<1>2. averagingTimeSpeedwireData \div MsPerSecond \in Nat
  BY AveragingAssumption, TimeAssumption
<1> QED
  BY <1>1, <1>2, AveragingAssumption DEF Fits, AveragingState, initializeState

(* Every element leaves less than one averaging time over.                 *)
LEMMA ProcessedFits ==
  ASSUME NEW s, Fits(s), NEW time \in Times
  PROVE  Fits(Processed(s, time))
<1> DEFINE total == s.remainder + ((time - s.currentTimestamp) % TimeMax)
<1>1. s \in AveragingState /\ time \in Int /\ s.currentTimestamp \in Int
  BY DEF Fits, AveragingState, Times
<1>2. (time - s.currentTimestamp) % TimeMax \in Nat
  BY <1>1, TimeAssumption, ModBounds
<1>3. total \in Nat
  BY <1>1, <1>2 DEF AveragingState
<1>4. s.averagingTime # 0 => LeftOver(s, total) \in Nat /\ LeftOver(s, total) < s.averagingTime
  <2> HIDE DEF total
  <2>1. s.averagingTime \in Nat
    BY <1>1 DEF AveragingState
  <2>2. s.averagingTime # 0 => total % s.averagingTime \in Nat /\ total % s.averagingTime < s.averagingTime
    BY <1>3, <2>1, ModBounds
  <2> QED
    BY <1>3, <2>1, <2>2 DEF LeftOver
<1> DEFINE t == Processed(s, time)
<1>5. /\ DOMAIN t = DOMAIN s
      /\ t.averagingTime = s.averagingTime
      /\ t.currentTimestamp = time
      /\ t.currentTimestampIsValid = TRUE
      /\ t.averagingTimeReached \in BOOLEAN
      /\ t.remainder = IF NewBlock(s, time) THEN LeftOver(s, total) ELSE s.remainder
  BY <1>1 DEF Processed, AveragingState, NewBlock
<1>6. t \in AveragingState
  <2>1. NewBlock(s, time) => s.averagingTime # 0
    BY DEF NewBlock
  <2> QED
    BY <1>1, <1>4, <1>5, <2>1 DEF Processed, AveragingState, NewBlock
<1>7. t.averagingTime # 0 => t.remainder < t.averagingTime
  BY <1>4, <1>5 DEF Fits
<1> QED
  BY <1>6, <1>7 DEF Fits

(* All states fit.                                                         *)
AllFit == DOMAIN states \subseteq Devices /\ \A serial \in DOMAIN states : Fits(states[serial])

(* An element of any device with any time keeps them so.                   *)
LEMMA ProcessKeepsFit ==
  ASSUME AllFit, NEW serial \in Devices, NEW time \in Times, process(serial, time)
  PROVE  AllFit'
<1>1. Fits(StateOf(serial))
  BY InitialFits DEF StateOf, AllFit
<1>2. Fits(Processed(StateOf(serial), time))
  BY <1>1, ProcessedFits
<1>3. DOMAIN states' = DOMAIN states \cup {serial}
  BY DEF process
<1>4. \A d \in DOMAIN states' :
         states'[d] = IF d = serial THEN Processed(StateOf(serial), time) ELSE states[d]
  BY DEF process
<1> QED
  BY <1>2, <1>3, <1>4 DEF AllFit

(* The timers of any set of devices, with any averaging times, have their  *)
(* types, and less than one averaging time is ever left over (process).    *)
THEOREM AveragingCorrect == AveragingSpec => [](AveragingTypeOK /\ RemainderSmall)
<1>1. InitStates => AllFit
  BY DEF InitStates, AllFit
<1>2. AllFit /\ [\E serial \in Devices, time \in Times : process(serial, time)]_states => AllFit'
  <2>1. AllFit /\ UNCHANGED states => AllFit'
    BY DEF AllFit
  <2> QED
    BY <2>1, ProcessKeepsFit
<1>3. AllFit => AveragingTypeOK /\ RemainderSmall
  BY DEF AllFit, Fits, AveragingState, AveragingTypeOK, RemainderSmall
<1> QED
  BY <1>1, <1>2, <1>3, PTL DEF AveragingSpec

-----------------------------------------------------------------------------
(***************************************************************************)
(* The inductive invariant.                                                *)
(***************************************************************************)
SignedKeys == {Signed(p) : p \in Phases}

(* The current time on the clock of a device.                              *)
EpochOf(d) == IF d \in Emeters THEN clock ELSE clock \div MsPerSecond

ClockInv == clock \in Epochs

(* The values of inverters are not from the future.                        *)
MapInv == speedwireMap \in [Keys -> {-1} \cup 0..(clock \div MsPerSecond)]

(* Measurements of the past in the order of their times.                   *)
IsHistory(buffer, now) ==
    /\ buffer \in Seq(0..now)
    /\ Len(buffer) <= MaxElements
    /\ \A i, j \in 1..Len(buffer) : i <= j => buffer[i] <= buffer[j]

(* Neither are those that emeters sent.                                    *)
BuffersInv ==
    /\ DOMAIN filterMap \subseteq ObisKeys
    /\ \A k \in DOMAIN filterMap \ SignedKeys : IsHistory(filterMap[k], clock)

(* The calculated ones are calculated where all three of a phase are there.*)
SignedInv ==
    \A p \in Phases : Signed(p) \in DOMAIN filterMap =>
        \/ filterMap[Signed(p)] = << >>
        \/ Calculated(p) /\ Len(filterMap[Signed(p)]) <= MaxElements

TypesInv == last_time \in Times /\ decided \subseteq BOOLEAN

(* What is still to come of a sequence of elements.                        *)
Occurs(key, elements) == \E i \in 1..Len(elements) : elements[i] = key
OccursOnce(key, elements) ==
    \A i, j \in 1..Len(elements) : elements[i] = key /\ elements[j] = key => i = j

Powers == {Positive(p) : p \in Phases} \cup {Negative(p) : p \in Phases}

(* Emeters send no calculated values, and each power once; what the        *)
(* producer got is dropped when a packet begins.                           *)
PacketInv ==
    packet # << >> =>
        /\ DOMAIN packet[1] = {"serial", "rest"}
        /\ packet[1].serial \in Devices
        /\ packet[1].serial \in Emeters =>
              /\ packet[1].rest \in Seq(ObisKeys \ SignedKeys)
              /\ \A key \in Powers : OccursOnce(key, packet[1].rest)
        /\ produced = {}

(* The buffer of a power when the packet in work will have been consumed.  *)
Missing(key) == InWork(Emeters) /\ Occurs(key, packet[1].rest)

Completed(key) == IF Missing(key) THEN Added(filterMap[key], clock) ELSE filterMap[key]

(* The buffers of the positive and the negative power of a phase will then *)
(* be the same, and not empty once the power has passed.                   *)
PowersInv ==
    \A p \in Phases : Calculated(p) =>
        /\ Completed(Positive(p)) = Completed(Negative(p))
        /\ InWork(Emeters) /\ ~Missing(Positive(p)) => filterMap[Positive(p)] # << >>

(* Before the first packet, while filters are set up, there is no timer    *)
(* and no measurement.                                                     *)
StartInv ==
    /\ received \in Nat
    /\ received = 0 => /\ packet = << >> /\ DOMAIN states = {} /\ produced = {}
                       /\ \A k \in DOMAIN filterMap : filterMap[k] = << >>

TimersInv ==
    /\ AllFit
    /\ DOMAIN latest = DOMAIN states /\ DOMAIN began = DOMAIN states
    /\ \A d \in DOMAIN states : latest[d] \in 0..EpochOf(d) /\ began[d] \in Nat

(* The timer of a device stands at the device's latest element, and keeps  *)
(* the pace of its clock unless the device was late.                       *)
TimerPaced(d) ==
    /\ states[d].averagingTime = 0 => states[d].averagingTimeReached
    /\ states[d].currentTimestampIsValid
    /\ states[d].currentTimestamp = latest[d] % TimeMax
    /\ d \notin late /\ states[d].averagingTime # 0 =>
          states[d].remainder = (latest[d] - began[d]) % states[d].averagingTime

PaceInv == NumericOnly => \A d \in DOMAIN states : TimerPaced(d)

(* Time stands still between the elements of a packet, so all of them get  *)
(* the decision that the timer of the device remembers.                    *)
DecidedInv ==
    NumericOnly /\ packet # << >> /\ decided # {} =>
        /\ packet[1].serial \in DOMAIN states
        /\ latest[packet[1].serial] = EpochOf(packet[1].serial)
        /\ decided = {states[packet[1].serial].averagingTimeReached}

PipelineIInv ==
    /\ ClockInv
    /\ MapInv
    /\ BuffersInv
    /\ SignedInv
    /\ TypesInv
    /\ PacketInv
    /\ PowersInv
    /\ StartInv
    /\ TimersInv
    /\ PaceInv
    /\ DecidedInv
    /\ HouseholdMatched

-----------------------------------------------------------------------------
(***************************************************************************)
(* Buffers and timers.                                                     *)
(***************************************************************************)

(* A measurement that is added is the newest one.                          *)
LEMMA AddedNewest ==
  ASSUME NEW n \in Nat, NEW buffer \in Seq(0..n)
  PROVE  Added(buffer, n) \in Seq(0..n) /\ NewestTime(Added(buffer, n)) = n % TimeMax
<1> DEFINE kept == IF Len(buffer) < MaxElements THEN buffer ELSE Tail(buffer)
<1>1. Len(buffer) \in Nat
  BY LenProperties
<1>2. MaxElements \in Nat \ {0}
  BY FilterAssumption DEF MaxElements
<1>3. kept \in Seq(0..n)
  <2>1. CASE Len(buffer) < MaxElements
    BY <2>1
  <2>2. CASE ~(Len(buffer) < MaxElements)
    <3>1. buffer # << >>
      BY <1>1, <1>2, <2>2, EmptySeq
    <3>2. Tail(buffer) \in Seq(0..n)
      BY <3>1, HeadTailProperties
    <3> QED
      BY <2>2, <3>2
  <2> QED
    BY <2>1, <2>2
<1> HIDE DEF kept
<1>4. n \in 0..n
  OBVIOUS
<1>5. /\ Append(kept, n) \in Seq(0..n)
      /\ Append(kept, n) # << >>
      /\ Append(kept, n)[Len(Append(kept, n))] = n
  <2>1. /\ Append(kept, n) \in Seq(0..n) /\ Len(Append(kept, n)) = Len(kept) + 1
        /\ Append(kept, n)[Len(kept) + 1] = n /\ Append(kept, n) # << >>
    BY <1>3, <1>4, AppendProperties
  <2> QED
    BY <2>1
<1> QED
  BY <1>5 DEF Added, NewestTime, kept

(* The newest time of a buffer is a time of 32 bits.                       *)
LEMMA NewestIsTime ==
  ASSUME NEW n \in Nat, NEW buffer \in Seq(0..n)
  PROVE  NewestTime(buffer) \in Times
<1>1. CASE buffer = << >>
  BY <1>1, TimeAssumption DEF NewestTime, Times
<1>2. CASE buffer # << >>
  <2>1. Len(buffer) \in 1..Len(buffer)
    BY <1>2, LenProperties, EmptySeq
  <2>2. buffer[Len(buffer)] \in 0..n
    BY <2>1, ElementOfSeq
  <2>3. \A e \in 0..n : e % TimeMax \in 0..(TimeMax - 1)
    BY TimeAssumption, Division
  <2> QED
    BY <1>2, <2>2, <2>3 DEF NewestTime, Times
<1> QED
  BY <1>1, <1>2

(* They stay so when the present is added, and as time goes on.            *)
LEMMA AddedIsHistory ==
  ASSUME NEW n \in Nat, NEW buffer, IsHistory(buffer, n)
  PROVE  IsHistory(Added(buffer, n), n) /\ Added(buffer, n) # << >>
<1> DEFINE kept == IF Len(buffer) < MaxElements THEN buffer ELSE Tail(buffer)
<1>1. Len(buffer) \in Nat /\ buffer \in Seq(0..n) /\ Len(buffer) <= MaxElements
  BY LenProperties DEF IsHistory
<1>2. MaxElements \in Nat \ {0}
  BY FilterAssumption DEF MaxElements
<1>3. /\ kept \in Seq(0..n) /\ Len(kept) < MaxElements
      /\ \A i, j \in 1..Len(kept) : i <= j => kept[i] <= kept[j]
  <2>1. CASE Len(buffer) < MaxElements
    BY <1>1, <2>1 DEF IsHistory
  <2>2. CASE ~(Len(buffer) < MaxElements)
    <3>1. buffer # << >>
      BY <1>1, <1>2, <2>2, EmptySeq
    <3>2. /\ Tail(buffer) \in Seq(0..n) /\ Len(Tail(buffer)) = Len(buffer) - 1
          /\ \A i \in 1..Len(Tail(buffer)) : Tail(buffer)[i] = buffer[i + 1]
      BY <1>1, <3>1, HeadTailProperties
    <3>3. \A i \in 1..Len(Tail(buffer)) : i \in Int /\ i + 1 \in 1..Len(buffer)
      BY <1>1, <3>2
    <3>4. ASSUME NEW i \in 1..Len(Tail(buffer)), NEW j \in 1..Len(Tail(buffer)), i <= j
          PROVE  Tail(buffer)[i] <= Tail(buffer)[j]
      <4>1. i + 1 <= j + 1
        BY <3>3, <3>4
      <4>2. buffer[i + 1] <= buffer[j + 1]
        BY <3>3, <4>1 DEF IsHistory
      <4> QED
        BY <3>2, <4>2
    <3> QED
      BY <1>1, <1>2, <2>2, <3>2, <3>4
  <2> QED
    BY <2>1, <2>2
<1> HIDE DEF kept
<1>4. n \in 0..n
  OBVIOUS
<1> DEFINE after == Append(kept, n)
<1>5. /\ after \in Seq(0..n) /\ Len(after) = Len(kept) + 1 /\ after # << >>
      /\ after[Len(kept) + 1] = n
      /\ \A i \in 1..Len(kept) : after[i] = kept[i]
  BY <1>3, <1>4, AppendProperties
<1>6. Len(kept) \in Nat
  BY <1>3, LenProperties
<1>7. \A i \in 1..Len(kept) : kept[i] \in 0..n
  BY <1>3, ElementOfSeq
<1> HIDE DEF after
<1>8. \A i, j \in 1..Len(after) : i <= j => after[i] <= after[j]
  <2> SUFFICES ASSUME NEW i \in 1..Len(after), NEW j \in 1..Len(after), i <= j
               PROVE  after[i] <= after[j]
    OBVIOUS
  <2>1. CASE j \in 1..Len(kept)
    <3>1. i \in 1..Len(kept)
      BY <1>5, <1>6, <2>1
    <3> QED
      BY <1>3, <1>5, <2>1, <3>1
  <2>2. CASE j = Len(kept) + 1
    <3>1. after[i] \in 0..n
      BY <1>5, ElementOfSeq
    <3> QED
      BY <1>5, <2>2, <3>1
  <2> QED
    BY <1>5, <1>6, <2>1, <2>2
<1>9. IsHistory(after, n)
  BY <1>2, <1>3, <1>5, <1>6, <1>8 DEF IsHistory
<1> QED
  BY <1>5, <1>9 DEF Added, after, kept

(* A history stays one as time goes on.                                    *)
LEMMA HistoryLasts ==
  ASSUME NEW m \in Nat, NEW n \in Nat, m <= n, NEW buffer, IsHistory(buffer, m)
  PROVE  IsHistory(buffer, n)
<1>1. 0..m \subseteq 0..n
  OBVIOUS
<1>2. buffer \in Seq(0..n)
  BY <1>1, SeqMonotonic DEF IsHistory
<1> QED
  BY <1>2 DEF IsHistory

(* The buffer of a new filter is one.                                      *)
LEMMA EmptyHistory ==
  ASSUME NEW n \in Nat
  PROVE  IsHistory(<< >>, n)
<1>1. << >> \in Seq(0..n) /\ Len(<< >>) = 0
  BY EmptySeq
<1>2. MaxElements \in Nat
  BY FilterAssumption DEF MaxElements
<1>3. 1..0 = {}
  OBVIOUS
<1> QED
  BY <1>1, <1>2, <1>3 DEF IsHistory

(* The first element is the one that does not come any more.               *)
LEMMA NoMoreInTail ==
  ASSUME NEW S, NEW elements \in Seq(S), elements # << >>, NEW key, OccursOnce(key, elements)
  PROVE  /\ OccursOnce(key, Tail(elements))
         /\ Occurs(key, Tail(elements)) <=> Occurs(key, elements) /\ key # Head(elements)
<1> DEFINE rest == Tail(elements)
<1>1. /\ Len(rest) = Len(elements) - 1
      /\ \A i \in 1..Len(rest) : rest[i] = elements[i + 1]
  BY HeadTailProperties
<1>2. Len(elements) \in Nat \ {0} /\ Head(elements) = elements[1]
  BY EmptySeq
<1> HIDE DEF rest
<1>3. \A i \in 1..Len(rest) : i + 1 \in 1..Len(elements) /\ i + 1 # 1 /\ i \in Int
  BY <1>1, <1>2
<1>4. 1 \in 1..Len(elements)
  BY <1>2
<1>5. \A i \in 1..Len(elements) : i = 1 \/ (i - 1 \in 1..Len(rest) /\ (i - 1) + 1 = i)
  BY <1>1, <1>2
<1>6. OccursOnce(key, rest)
  <2> SUFFICES ASSUME NEW i \in 1..Len(rest), NEW j \in 1..Len(rest), rest[i] = key, rest[j] = key
               PROVE  i = j
    BY DEF OccursOnce
  <2>1. i + 1 = j + 1
    BY <1>1, <1>3 DEF OccursOnce
  <2> QED
    BY <1>3, <2>1
<1>7. Occurs(key, rest) => Occurs(key, elements) /\ key # elements[1]
  BY <1>1, <1>3, <1>4 DEF Occurs, OccursOnce
<1>8. ASSUME Occurs(key, elements), key # elements[1]
      PROVE  Occurs(key, rest)
  <2>1. PICK i \in 1..Len(elements) : elements[i] = key
    BY <1>8 DEF Occurs
  <2>2. i - 1 \in 1..Len(rest) /\ (i - 1) + 1 = i
    BY <1>5, <1>8, <2>1
  <2>3. rest[i - 1] = key
    BY <1>1, <2>1, <2>2
  <2> QED
    BY <2>2, <2>3 DEF Occurs
<1> QED
  BY <1>2, <1>6, <1>7, <1>8 DEF rest

(* What an element leaves of the timer's state; an element with the time   *)
(* of the one before changes nothing.                                      *)
LEMMA ProcessedTimer ==
  ASSUME NEW s \in AveragingState, NEW time
  PROVE  LET t == Processed(s, time)
         IN  /\ t.averagingTime = s.averagingTime
             /\ t.currentTimestamp = time
             /\ t.currentTimestampIsValid
             /\ t.averagingTimeReached \in BOOLEAN
             /\ s.averagingTime = 0 => t.averagingTimeReached
             /\ ~s.currentTimestampIsValid => t.remainder = s.remainder
             /\ time = s.currentTimestamp => t.remainder = s.remainder
             /\ s.currentTimestampIsValid /\ time = s.currentTimestamp /\ s.averagingTime # 0 =>
                    t.averagingTimeReached = s.averagingTimeReached
BY DEF Processed, AveragingState, NewBlock

(* The timer keeps the pace: its remainder is the time since the first     *)
(* element less whole averaging times, before the element and after it.    *)
LEMMA ProcessedPace ==
  ASSUME NEW s, Fits(s), NEW first \in Nat, NEW last \in Nat, NEW epoch \in Nat,
         last <= epoch, epoch - last < TimeMax,
         s.currentTimestampIsValid, s.currentTimestamp = last % TimeMax,
         s.averagingTime # 0, s.remainder = (last - first) % s.averagingTime
  PROVE  Processed(s, epoch % TimeMax).remainder = (epoch - first) % s.averagingTime
<1> DEFINE n == s.averagingTime
           rem == s.remainder
           time == epoch % TimeMax
           step == epoch - last
<1>1. n \in Nat \ {0} /\ rem \in 0..(n - 1) /\ s \in AveragingState
  BY DEF Fits, AveragingState
<1>2. step \in 0..(TimeMax - 1)
  BY TimeAssumption
<1>3. (time - s.currentTimestamp) % TimeMax = step
  <2>1. ((epoch % TimeMax) - (last % TimeMax)) % TimeMax = (epoch - last) % TimeMax
    <3>1. epoch \in Int /\ last \in Int
      OBVIOUS
    <3> QED
      BY <3>1, TimeAssumption, ModSum
  <2>2. step % TimeMax = step
    BY <1>2, TimeAssumption, ModSmall
  <2>3. time - s.currentTimestamp = (epoch % TimeMax) - (last % TimeMax)
    OBVIOUS
  <2> HIDE DEF time, step
  <2> QED
    BY <2>1, <2>2, <2>3 DEF step
<1>4. (rem + step) % n = (epoch - first) % n
  <2> DEFINE a == last - first
  <2>1. a \in Int /\ step \in Int /\ rem = a % n
    BY <1>2
  <2> HIDE DEF a, n, rem, step
  <2>2. ((a % n) + step) % n = (a + step) % n
    BY <1>1, <2>1, ModSum
  <2>3. a + step = epoch - first
    BY DEF a, step
  <2> QED
    BY <2>1, <2>2, <2>3
<1>5. CASE time = s.currentTimestamp
  <2>1. step = 0
    <3>1. last % TimeMax \in Int
      BY TimeAssumption, Division
    <3>2. (time - s.currentTimestamp) = 0
      BY <1>5, <3>1
    <3>3. 0 % TimeMax = 0
      BY TimeAssumption, ModSmall
    <3> QED
      BY <1>3, <3>2, <3>3
  <2>2. rem % n = rem
    BY <1>1, ModSmall
  <2>3. rem + step = rem
    BY <1>1, <2>1
  <2>4. Processed(s, time).remainder = rem
    BY <1>1, <1>5, ProcessedTimer
  <2> QED
    BY <1>4, <2>2, <2>3, <2>4
<1>6. CASE time # s.currentTimestamp
  <2>1. NewBlock(s, time)
    BY <1>6 DEF NewBlock
  <2>2. Processed(s, time).remainder = LeftOver(s, rem + step)
    BY <1>1, <1>3, <2>1 DEF Processed, AveragingState
  <2>3. LeftOver(s, rem + step) = (rem + step) % n
    <3> DEFINE total == rem + step
    <3>1. total \in Nat
      BY <1>1, <1>2
    <3>2. total < n => total % n = total
      BY <1>1, <3>1, ModSmall
    <3> HIDE DEF total, n, rem, step
    <3>3. LeftOver(s, total) = IF total >= n THEN total % n ELSE total
      BY DEF LeftOver, n
    <3> QED
      BY <1>1, <3>1, <3>2, <3>3 DEF total
  <2> QED
    BY <1>4, <2>2, <2>3
<1> QED
  BY <1>5, <1>6

-----------------------------------------------------------------------------
(***************************************************************************)
(* Steps. An element of the packet goes through the averaging processor,   *)
(* with any time of 32 bits.                                               *)
(***************************************************************************)
LEMMA AverageKeepsTimers ==
  ASSUME TimersInv, packet[1].serial \in Devices, clock' = clock,
         NEW time \in Times, NEW epoch \in Nat, epoch = EpochOf(packet[1].serial),
         average(time, epoch)
  PROVE  TimersInv'
<1> DEFINE serial == packet[1].serial
<1>1. AllFit'
  BY ProcessKeepsFit DEF average, TimersInv
<1>2. DOMAIN states' = DOMAIN states \cup {serial}
  BY DEF average, process
<1>3. /\ DOMAIN latest' = DOMAIN states'
      /\ \A d \in DOMAIN states' : latest'[d] = IF d = serial THEN epoch ELSE latest[d]
  BY <1>2 DEF average, TimersInv
<1>4. /\ DOMAIN began' = DOMAIN states'
      /\ \A d \in DOMAIN states' : began'[d] = IF d \in DOMAIN states THEN began[d] ELSE epoch
  BY <1>3 DEF average, TimersInv
<1>5. \A d \in DOMAIN states' : latest'[d] \in 0..EpochOf(d)' /\ began'[d] \in Nat
  BY <1>2, <1>3, <1>4 DEF TimersInv, EpochOf
<1> QED
  BY <1>1, <1>3, <1>4, <1>5 DEF TimersInv

(* With the current time of the device every timer keeps its pace, and the *)
(* decision is the one that the elements before in the packet got.         *)
LEMMA AverageKeepsPace ==
  ASSUME TimersInv, packet[1].serial \in Devices, clock' = clock,
         NEW epoch \in Nat, epoch = EpochOf(packet[1].serial),
         average(epoch % TimeMax, epoch),
         \A d \in DOMAIN states : TimerPaced(d)
  PROVE  /\ \A d \in DOMAIN states' : TimerPaced(d)'
         /\ packet[1].serial \in DOMAIN states' /\ latest'[packet[1].serial] = epoch
         /\ \/ decided = {}
            \/ /\ packet[1].serial \in DOMAIN states
               /\ latest[packet[1].serial] = EpochOf(packet[1].serial)
               /\ decided = {states[packet[1].serial].averagingTimeReached}
            => decided' = {states'[packet[1].serial].averagingTimeReached}
<1> DEFINE serial == packet[1].serial
           s == StateOf(serial)
           time == epoch % TimeMax
<1>1. /\ DOMAIN states' = DOMAIN states \cup {serial}
      /\ \A d \in DOMAIN states' : states'[d] = IF d = serial THEN Processed(s, time) ELSE states[d]
  BY DEF average, process
<1>2. Fits(s) /\ s \in AveragingState
  <2>1. Fits(s)
    BY InitialFits DEF StateOf, AllFit, TimersInv
  <2> QED
    BY <2>1 DEF Fits
<1>3. /\ \A d \in DOMAIN states' : latest'[d] = IF d = serial THEN epoch ELSE latest[d]
      /\ \A d \in DOMAIN states' : began'[d] = IF d \in DOMAIN states THEN began[d] ELSE epoch
  <2>1. DOMAIN latest' = DOMAIN states'
    BY <1>1 DEF average, TimersInv
  <2> QED
    BY <1>1, <2>1 DEF average, TimersInv
<1>4. late' = IF serial \in DOMAIN states /\ epoch - latest[serial] >= TimeMax
              THEN late \cup {serial} ELSE late
  BY DEF average, TimersInv
<1>5. LET t == Processed(s, time)
      IN  /\ t.averagingTime = s.averagingTime
          /\ t.currentTimestamp = time
          /\ t.currentTimestampIsValid
          /\ t.averagingTimeReached \in BOOLEAN
          /\ s.averagingTime = 0 => t.averagingTimeReached
          /\ ~s.currentTimestampIsValid => t.remainder = s.remainder
          /\ s.currentTimestampIsValid /\ time = s.currentTimestamp /\ s.averagingTime # 0 =>
                 t.averagingTimeReached = s.averagingTimeReached
  BY <1>2, ProcessedTimer
<1> HIDE DEF s, time
<1>6. ASSUME NEW d \in DOMAIN states', d # serial
      PROVE  TimerPaced(d)'
  <2>1. d \in DOMAIN states /\ states'[d] = states[d] /\ latest'[d] = latest[d] /\ began'[d] = began[d]
    BY <1>1, <1>3, <1>6
  <2>2. d \notin late' => d \notin late
    BY <1>4
  <2>3. TimerPaced(d)
    BY <2>1
  <2> QED
    BY <2>1, <2>2, <2>3 DEF TimerPaced
<1>7. serial \in DOMAIN states' /\ states'[serial] = Processed(s, time) /\ latest'[serial] = epoch
  BY <1>1, <1>3
<1>8. ASSUME serial \notin late', states'[serial].averagingTime # 0
      PROVE  states'[serial].remainder = (epoch - began'[serial]) % states'[serial].averagingTime
  <2>1. CASE serial \in DOMAIN states
    <3>1. s = states[serial] /\ TimerPaced(serial)
      BY <2>1 DEF s, StateOf
    <3>2. /\ latest[serial] \in Nat /\ began[serial] \in Nat /\ latest[serial] <= epoch
      BY <2>1 DEF TimersInv, EpochOf
    <3>3. ~(epoch - latest[serial] >= TimeMax) /\ serial \notin late
      BY <1>4, <1>8, <2>1
    <3>4. epoch - latest[serial] < TimeMax
      BY <3>2, <3>3, TimeAssumption
    <3>5. s.averagingTime # 0
      BY <1>5, <1>7, <1>8
    <3>6. /\ s.currentTimestampIsValid /\ s.currentTimestamp = latest[serial] % TimeMax
          /\ s.remainder = (latest[serial] - began[serial]) % s.averagingTime
      BY <3>1, <3>3, <3>5 DEF TimerPaced
    <3>7. Processed(s, epoch % TimeMax).remainder = (epoch - began[serial]) % s.averagingTime
      BY <1>2, <3>2, <3>4, <3>5, <3>6, ProcessedPace
    <3> QED
      BY <1>3, <1>5, <1>7, <2>1, <3>7 DEF time
  <2>2. CASE serial \notin DOMAIN states
    <3>1. ~s.currentTimestampIsValid /\ s.remainder = 0
      BY <2>2 DEF s, StateOf, initializeState
    <3>2. states'[serial].remainder = 0
      BY <1>5, <1>7, <3>1
    <3>3. began'[serial] = epoch
      BY <1>3, <1>7, <2>2
    <3>4. s.averagingTime \in Nat \ {0} /\ states'[serial].averagingTime = s.averagingTime
      BY <1>2, <1>5, <1>7, <1>8 DEF AveragingState
    <3>5. 0 % s.averagingTime = 0
      BY <3>4, ModSmall
    <3> QED
      BY <3>2, <3>3, <3>4, <3>5
  <2> QED
    BY <2>1, <2>2
<1>9. ASSUME NEW d \in DOMAIN states', d = serial
      PROVE  TimerPaced(d)'
  <2>1. /\ states'[d].averagingTime = 0 => states'[d].averagingTimeReached
        /\ states'[d].currentTimestampIsValid
        /\ states'[d].currentTimestamp = latest'[d] % TimeMax
    BY <1>5, <1>7, <1>9 DEF time
  <2>2. d \notin late' /\ states'[d].averagingTime # 0 =>
           states'[d].remainder = (latest'[d] - began'[d]) % states'[d].averagingTime
    BY <1>7, <1>8, <1>9
  <2> QED
    BY <2>1, <2>2 DEF TimerPaced
<1>10. ASSUME \/ decided = {}
              \/ /\ serial \in DOMAIN states
                 /\ latest[serial] = EpochOf(serial)
                 /\ decided = {states[serial].averagingTimeReached}
       PROVE  decided' = {states'[serial].averagingTimeReached}
  <2>1. decided' = decided \cup {states'[serial].averagingTimeReached}
    BY DEF average
  <2>2. ASSUME serial \in DOMAIN states, latest[serial] = EpochOf(serial)
        PROVE  states'[serial].averagingTimeReached = states[serial].averagingTimeReached
    <3>1. s = states[serial] /\ TimerPaced(serial)
      BY <2>2 DEF s, StateOf
    <3>2. s.currentTimestampIsValid /\ s.currentTimestamp = time
          /\ (s.averagingTime = 0 => s.averagingTimeReached)
      BY <2>2, <3>1 DEF TimerPaced, time
    <3>3. s.averagingTimeReached \in BOOLEAN
      BY <1>2 DEF AveragingState
    <3> QED
      BY <1>5, <1>7, <3>1, <3>2, <3>3
  <2> QED
    BY <1>10, <2>1, <2>2
<1> QED
  BY <1>6, <1>7, <1>9, <1>10

-----------------------------------------------------------------------------
(***************************************************************************)
(* The signed values of two buffers that agree, and what is fed of them.   *)
(***************************************************************************)

(* Each measurement with itself.                                           *)
PairsUpto(buffer, k) == [i \in 1..k |-> <<buffer[i], buffer[i]>>]

(* The next pair is added behind the ones before.                          *)
LEMMA PairAdded ==
  ASSUME NEW n \in Nat, NEW buffer, IsHistory(buffer, n), NEW k \in 1..Len(buffer)
  PROVE  Added(PairsUpto(buffer, k - 1), <<buffer[k], buffer[k]>>) = PairsUpto(buffer, k)
<1> DEFINE S == (0..n) \X (0..n)
           before == PairsUpto(buffer, k - 1)
           pair == <<buffer[k], buffer[k]>>
<1>1. Len(buffer) \in Nat /\ Len(buffer) <= MaxElements /\ MaxElements \in Nat
      /\ \A i \in 1..Len(buffer) : buffer[i] \in 0..n
  BY LenProperties, ElementOfSeq, FilterAssumption DEF IsHistory, MaxElements
<1>2. k \in Nat /\ k - 1 \in Nat /\ \A i \in 1..k : i \in 1..Len(buffer)
  BY <1>1
<1>3. \A m \in 0..k : /\ PairsUpto(buffer, m) \in Seq(S) /\ Len(PairsUpto(buffer, m)) = m
                      /\ \A i \in 1..m : PairsUpto(buffer, m)[i] = <<buffer[i], buffer[i]>>
  <2> SUFFICES ASSUME NEW m \in 0..k
               PROVE  /\ PairsUpto(buffer, m) \in Seq(S) /\ Len(PairsUpto(buffer, m)) = m
                      /\ \A i \in 1..m : PairsUpto(buffer, m)[i] = <<buffer[i], buffer[i]>>
    OBVIOUS
  <2>1. m \in Nat /\ \A i \in 1..m : i \in 1..Len(buffer)
    BY <1>2
  <2>2. PairsUpto(buffer, m) \in [1..m -> S]
    BY <1>1, <2>1 DEF PairsUpto
  <2>3. PairsUpto(buffer, m) \in Seq(S) /\ DOMAIN PairsUpto(buffer, m) = 1..m
    BY <2>1, <2>2, SeqDef
  <2>4. Len(PairsUpto(buffer, m)) = m
    <3>1. Len(PairsUpto(buffer, m)) \in Nat /\ DOMAIN PairsUpto(buffer, m) = 1..Len(PairsUpto(buffer, m))
      BY <2>3, LenProperties
    <3> QED
      BY <2>1, <2>3, <3>1
  <2> QED
    BY <2>3, <2>4 DEF PairsUpto
<1>4. before \in Seq(S) /\ Len(before) = k - 1
      /\ \A i \in 1..(k - 1) : before[i] = <<buffer[i], buffer[i]>>
  <2>1. k - 1 \in 0..k
    BY <1>2
  <2> HIDE DEF S
  <2> QED
    BY <1>3, <2>1
<1>5. pair \in S
  BY <1>1
<1> HIDE DEF before, pair, S
<1>6. Added(before, pair) = Append(before, pair)
  BY <1>1, <1>2, <1>4 DEF Added
<1>7. /\ Append(before, pair) \in Seq(S) /\ Len(Append(before, pair)) = k
      /\ Append(before, pair)[k] = pair
      /\ \A i \in 1..(k - 1) : Append(before, pair)[i] = before[i]
  <2>1. (k - 1) + 1 = k
    OBVIOUS
  <2> QED
    BY <1>4, <1>5, <2>1, AppendProperties
<1>8. \A i \in 1..k : i = k \/ i \in 1..(k - 1)
  BY <1>2
<1>9. \A i \in 1..k : Append(before, pair)[i] = <<buffer[i], buffer[i]>>
  BY <1>4, <1>7, <1>8 DEF pair
<1>10. k \in 0..k
  BY <1>2
<1>11. Append(before, pair) = PairsUpto(buffer, k)
  <2> DEFINE a == Append(before, pair)
             b == PairsUpto(buffer, k)
  <2>1. a \in Seq(S) /\ b \in Seq(S) /\ Len(a) = k /\ Len(b) = k
        /\ \A i \in 1..k : a[i] = b[i]
    BY <1>3, <1>7, <1>9, <1>10
  <2> HIDE DEF a, b
  <2>2. a = b
    BY <2>1, SeqEqual
  <2> QED
    BY <2>2 DEF a, b
<1> QED
  BY <1>6, <1>11 DEF before, pair

(* The differences of two buffers that agree are those of all their        *)
(* measurements.                                                           *)
LEMMA DiffsOfSame ==
  ASSUME NEW n \in Nat, NEW buffer, IsHistory(buffer, n)
  PROVE  calculateValueDiffs(buffer, buffer) = PairsUpto(buffer, Len(buffer))
<1> DEFINE len == Len(buffer)
           IsDiff(f) ==
             f = [i \in 0..len |->
                    IF i = 0 THEN << >>
                    ELSE IF TimeAt(buffer, i) # TimeAt(buffer, i) THEN f[i - 1]
                    ELSE Added(f[i - 1], <<buffer[i], IF i <= len THEN buffer[i] ELSE -1>>)]
           diff == CHOOSE f : IsDiff(f)
<1>1. len \in Nat
  BY LenProperties DEF IsHistory
<1>2. calculateValueDiffs(buffer, buffer) = diff[len]
  BY DEF calculateValueDiffs
<1>3. PairsUpto(buffer, 0) = << >>
  <2>1. PairsUpto(buffer, 0) = [i \in {} |-> <<buffer[i], buffer[i]>>]
    BY DEF PairsUpto
  <2> QED
    BY <2>1
<1> HIDE DEF len
<1>4. \A k \in 1..len : k \in Nat /\ k # 0 /\ k <= len /\ k - 1 \in 0..len
  BY <1>1
<1>5. \E f : IsDiff(f)
  <2> DEFINE f == [k \in 0..len |-> PairsUpto(buffer, k)]
  <2>1. ASSUME NEW k \in 0..len
        PROVE  f[k] = IF k = 0 THEN << >>
                      ELSE IF TimeAt(buffer, k) # TimeAt(buffer, k) THEN f[k - 1]
                      ELSE Added(f[k - 1], <<buffer[k], IF k <= len THEN buffer[k] ELSE -1>>)
    <3>1. CASE k = 0
      BY <1>3, <3>1
    <3>2. CASE k # 0
      <4>1. k \in 1..len /\ k <= len
        BY <1>1, <3>2
      <4>2. f[k] = PairsUpto(buffer, k) /\ f[k - 1] = PairsUpto(buffer, k - 1)
        BY <1>4, <4>1
      <4> HIDE DEF f
      <4> QED
        BY <3>2, <4>1, <4>2, PairAdded DEF len
    <3> QED
      BY <3>1, <3>2
  <2>2. f = [k \in 0..len |-> f[k]]
    OBVIOUS
  <2> HIDE DEF f
  <2> QED
    BY <2>1, <2>2
<1>6. IsDiff(diff)
  <2> HIDE DEF IsDiff
  <2> QED
    BY <1>5
<1> HIDE DEF diff
<1>7. diff[0] = << >> /\ \A k \in 1..len : diff[k] = Added(diff[k - 1], <<buffer[k], buffer[k]>>)
  BY <1>1, <1>4, <1>6
<1> HIDE DEF IsDiff
<1> DEFINE S == {k \in Nat : k \in 0..len => diff[k] = PairsUpto(buffer, k)}
<1>8. 0 \in S
  BY <1>3, <1>7
<1>9. ASSUME NEW k \in S
      PROVE  k + 1 \in S
  <2> DEFINE m == k + 1
  <2>1. k \in Nat /\ m \in Nat /\ m - 1 = k
    OBVIOUS
  <2>2. m \in 0..len => m \in 1..len /\ k \in 0..len
    BY <1>1, <2>1
  <2>3. k \in 0..len => diff[k] = PairsUpto(buffer, k)
    OBVIOUS
  <2> HIDE DEF m, S
  <2>4. m \in 0..len => diff[m] = PairsUpto(buffer, m)
    BY <1>7, <2>1, <2>2, <2>3, PairAdded DEF len
  <2> QED
    BY <2>1, <2>4 DEF m, S
<1>10. len \in S
  <2>1. S \in SUBSET Nat
    OBVIOUS
  <2> HIDE DEF S
  <2> QED
    BY <1>1, <1>8, <1>9, <2>1, Induction
<1> QED
  BY <1>1, <1>2, <1>10 DEF len

(* Measurements that are newer than a time, when the newest one is.        *)
LEMMA NewerIsNew ==
  ASSUME NEW a \in Int, NEW b \in Int, NEW c \in Int, NEW last \in Times,
         a <= b, b <= c, c - a < Half,
         calculateTimeDifference(c % TimeMax, last) > 0,
         calculateTimeDifference(a % TimeMax, last) > 0
  PROVE  calculateTimeDifference(b % TimeMax, last) > 0
<1>1. TimeMax \in Nat \ {0} /\ Half \in Nat /\ TimeMax = 2 * Half /\ last \in Int
  BY Words, TimeAssumption DEF Half, Times
<1> DEFINE D(x) == (x - last) % TimeMax
<1>2. \A x \in Int : /\ D(x) \in 0..(TimeMax - 1)
                     /\ calculateTimeDifference(x % TimeMax, last) = IF D(x) < Half THEN D(x) ELSE D(x) - TimeMax
  <2> SUFFICES ASSUME NEW x \in Int
               PROVE  /\ D(x) \in 0..(TimeMax - 1)
                      /\ calculateTimeDifference(x % TimeMax, last)
                            = IF D(x) < Half THEN D(x) ELSE D(x) - TimeMax
    OBVIOUS
  <2>1. x - last \in Int /\ -last \in Int /\ x + (-last) = x - last
        /\ (x % TimeMax) + (-last) = (x % TimeMax) - last
    <3>1. x % TimeMax \in Int
      BY <1>1, Division
    <3> QED
      BY <1>1, <3>1
  <2>2. ((x % TimeMax) + (-last)) % TimeMax = (x + (-last)) % TimeMax
    BY <1>1, <2>1, ModSum
  <2>3. D(x) \in 0..(TimeMax - 1)
    BY <1>1, <2>1, Division
  <2>4. TimeMax \div 2 = Half
    BY DEF Half
  <2> QED
    BY <2>1, <2>2, <2>3, <2>4 DEF calculateTimeDifference, SignedDifference
<1>3. \A x, y \in Int : x <= y /\ y - x < Half /\ D(x) < Half => D(y) = D(x) + (y - x)
  <2> SUFFICES ASSUME NEW x \in Int, NEW y \in Int, x <= y, y - x < Half, D(x) < Half
               PROVE  D(y) = D(x) + (y - x)
    OBVIOUS
  <2>1. x - last \in Int /\ y - x \in Int /\ (x - last) + (y - x) = y - last
    BY <1>1
  <2>2. (((x - last) % TimeMax) + (y - x)) % TimeMax = ((x - last) + (y - x)) % TimeMax
    <3> DEFINE p == x - last
               q == y - x
    <3>1. p \in Int /\ q \in Int
      BY <2>1
    <3> HIDE DEF p, q
    <3>2. ((p % TimeMax) + q) % TimeMax = (p + q) % TimeMax
      BY <3>1, TimeAssumption, ModSum
    <3> QED
      BY <3>2 DEF p, q
  <2>3. (D(x) + (y - x)) % TimeMax = D(y)
    BY <2>1, <2>2
  <2>4. D(x) \in 0..(TimeMax - 1)
    BY <1>2
  <2> DEFINE d == D(x) + (y - x)
  <2>5. d \in 0..(TimeMax - 1)
    <3> HIDE DEF D
    <3> QED
      BY <1>1, <2>1, <2>4
  <2> HIDE DEF d, D
  <2>6. d % TimeMax = d
    BY <1>1, <2>5, ModSmall
  <2> QED
    BY <2>3, <2>6 DEF d
<1> HIDE DEF D
<1>4. D(a) \in 0..(TimeMax - 1) /\ D(b) \in 0..(TimeMax - 1) /\ D(c) \in 0..(TimeMax - 1)
  BY <1>2
<1>5. 0 < D(a) /\ D(a) < Half /\ D(c) < Half
  BY <1>1, <1>2, <1>4
<1>6. D(b) = D(a) + (b - a) /\ D(c) = D(a) + (c - a)
  <2>1. a <= c /\ b - a < Half
    BY <1>1
  <2> QED
    BY <1>3, <1>5, <2>1
<1>7. 0 < D(b) /\ D(b) < Half
  BY <1>1, <1>4, <1>5, <1>6
<1> QED
  BY <1>2, <1>4, <1>7

(* Which of n measurements are newer than a time.                          *)
NewOf(times, n, last) == {i \in 1..n : calculateTimeDifference(times[i], last) > 0}

(* What is fed of a segment is what is new of it.                          *)
LEMMA FedIsNew ==
  ASSUME NEW n \in Nat \ {0}, NEW times, Len(times) = n, NEW last,
         n \in NewOf(times, n, last),
         \A i, j \in 1..n : i <= j /\ i \in NewOf(times, n, last) => j \in NewOf(times, n, last),
         NEW start \in 0..(n - 1), NEW end \in start..(n - 1),
         NEW segment, segment.start_index = start, segment.end_index = end
  PROVE  /\ \A f \in Fed(times, segment, last) : start + 1 <= f.from /\ f.to = end + 1
         /\ \A f \in Fed(times, segment, last) : f.from \in Int
         /\ \A f, g \in Fed(times, segment, last) : f = g
         /\ \A i \in (start + 1)..(end + 1) :
               i \in NewOf(times, n, last) <=> \E f \in Fed(times, segment, last) : i \in f.from..f.to
<1> DEFINE new == NewOf(times, n, last)
           fed == Fed(times, segment, last)
           begin == {i \in (start + 1)..n : calculateTimeDifference(times[i], last) > 0 \/ i = n}
           from == CHOOSE i \in begin : \A j \in begin : i <= j
<1>1. end + 1 \in 1..n /\ start \in Int /\ end \in Int /\ n \in Int /\ start <= end
  OBVIOUS
<1>2. \A i \in 1..n : i \in new <=> calculateTimeDifference(times[i], last) > 0
  BY DEF NewOf
<1>3. fed = IF end + 1 \in new THEN {[from |-> from, to |-> end + 1]} ELSE {}
  BY <1>1, <1>2 DEF Fed
<1>4. /\ from \in begin /\ \A j \in begin : from <= j
  <2>1. begin \in SUBSET Nat /\ n \in begin
    BY <1>1
  <2>2. \E i \in begin : \A j \in begin : i <= j
    <3> HIDE DEF begin
    <3> QED
      BY <2>1, Least
  <2> HIDE DEF begin
  <2> QED
    BY <2>2
<1>5. /\ from \in (start + 1)..n /\ from \in Int
      /\ \A j \in (start + 1)..n : j \in new => from <= j
  <2> HIDE DEF from
  <2> QED
    BY <1>1, <1>2, <1>4
<1>6. from \in new
  <2> HIDE DEF from, new
  <2>1. from \in 1..n
    BY <1>1, <1>5
  <2>2. calculateTimeDifference(times[from], last) > 0 \/ from = n
    BY <1>4
  <2> QED
    BY <1>2, <2>1, <2>2 DEF new
<1> HIDE DEF from, begin
<1>7. \A i, j \in 1..n : i <= j /\ i \in new => j \in new
  OBVIOUS
<1> HIDE DEF new, fed
<1>8. ASSUME NEW i \in (start + 1)..(end + 1)
      PROVE  i \in new <=> \E f \in fed : i \in f.from..f.to
  <2>1. i \in 1..n /\ i \in (start + 1)..n /\ i \in Int
    BY <1>1
  <2>2. CASE end + 1 \in new
    <3> DEFINE f == [from |-> from, to |-> end + 1]
    <3>1. fed = {f} /\ f.from = from /\ f.to = end + 1
      BY <1>3, <2>2
    <3> HIDE DEF f
    <3>2. i \in new <=> i \in from..(end + 1)
      <4>1. from \in 1..n
        BY <1>1, <1>5
      <4>2. i \in new => from <= i
        BY <1>5, <2>1
      <4>3. from <= i => i \in new
        BY <1>6, <1>7, <2>1, <4>1
      <4>4. i <= end + 1
        BY <1>1
      <4> QED
        BY <1>1, <1>5, <2>1, <4>2, <4>3, <4>4
    <3> QED
      BY <3>1, <3>2
  <2>3. CASE end + 1 \notin new
    <3>1. i \notin new
      <4>1. i <= end + 1
        BY <1>1
      <4> QED
        BY <1>1, <1>7, <2>1, <2>3, <4>1
    <3> QED
      BY <1>3, <2>3, <3>1
  <2> QED
    BY <2>2, <2>3
<1>9. \A f \in fed : f = [from |-> from, to |-> end + 1]
  BY <1>3
<1>10. start + 1 <= from
  BY <1>1, <1>5
<1> QED
  BY <1>5, <1>8, <1>9, <1>10 DEF new, fed

(* What is fed of all segments.                                            *)
FedOf(times, segments, last) == UNION {Fed(times, s, last) : s \in segments}

(* The segments that are fed cover what is new once.                       *)
LEMMA FedCovers ==
  ASSUME NEW n \in Nat \ {0}, NEW times, Len(times) = n, NEW last,
         n \in NewOf(times, n, last),
         \A i, j \in 1..n : i <= j /\ i \in NewOf(times, n, last) => j \in NewOf(times, n, last),
         NEW changes \in SUBSET (0..(n - 2)),
         NEW fed, fed = FedOf(times, Intervals(n, changes), last)
  PROVE  /\ UNION {f.from..f.to : f \in fed} = NewOf(times, n, last)
         /\ \A f, g \in fed : f = g \/ f.to < g.from \/ g.to < f.from
<1> DEFINE segments == Intervals(n, changes)
           new == NewOf(times, n, last)
<1>1. /\ segments \in SUBSET [start_index : 0..(n - 1), end_index : 0..(n - 1)]
      /\ \A s \in segments : s.start_index <= s.end_index
      /\ UNION {s.start_index..s.end_index : s \in segments} = 0..(n - 1)
      /\ \A s, t \in segments : s = t \/ s.end_index < t.start_index \/ t.end_index < s.start_index
  BY IntervalsPartition
<1>2. \A s \in segments : /\ s.start_index \in 0..(n - 1) /\ s.end_index \in s.start_index..(n - 1)
                          /\ s.start_index \in Int /\ s.end_index \in Int
  BY <1>1
<1> HIDE DEF segments
<1>3. ASSUME NEW s \in segments
      PROVE  /\ \A f \in Fed(times, s, last) : s.start_index + 1 <= f.from /\ f.to = s.end_index + 1
             /\ \A f \in Fed(times, s, last) : f.from \in Int
             /\ \A f, g \in Fed(times, s, last) : f = g
             /\ \A i \in (s.start_index + 1)..(s.end_index + 1) :
                   i \in new <=> \E f \in Fed(times, s, last) : i \in f.from..f.to
  <2> DEFINE a == s.start_index
             b == s.end_index
  <2>1. a \in 0..(n - 1) /\ b \in a..(n - 1) /\ s.start_index = a /\ s.end_index = b
    BY <1>2
  <2> HIDE DEF a, b
  <2> QED
    BY <2>1, FedIsNew
<1>4. \A f : f \in fed <=> \E s \in segments : f \in Fed(times, s, last)
  BY DEF segments, FedOf
<1>5. ASSUME NEW i \in new
      PROVE  \E f \in fed : i \in f.from..f.to
  <2>1. i \in 1..n /\ i - 1 \in 0..(n - 1)
    <3>1. i \in 1..n
      BY DEF NewOf
    <3> QED
      BY <3>1
  <2>2. PICK s \in segments : i - 1 \in s.start_index..s.end_index
    BY <1>1, <2>1
  <2>3. i \in (s.start_index + 1)..(s.end_index + 1)
    BY <1>2, <2>1, <2>2
  <2> HIDE DEF new
  <2> QED
    BY <1>3, <1>4, <2>3
<1>6. ASSUME NEW f \in fed, NEW i \in f.from..f.to
      PROVE  i \in new
  <2>1. PICK s \in segments : f \in Fed(times, s, last)
    BY <1>4
  <2>2. i \in (s.start_index + 1)..(s.end_index + 1)
    <3>1. s.start_index + 1 <= f.from /\ f.to = s.end_index + 1 /\ f.from \in Int
      BY <1>3, <2>1
    <3>2. s.start_index \in Int /\ s.end_index \in Int
      BY <1>2
    <3> QED
      BY <3>1, <3>2
  <2> HIDE DEF new
  <2> QED
    BY <1>3, <2>1, <2>2
<1>7. ASSUME NEW f \in fed, NEW g \in fed
      PROVE  f = g \/ f.to < g.from \/ g.to < f.from
  <2>1. PICK s \in segments : f \in Fed(times, s, last)
    BY <1>4
  <2>2. PICK t \in segments : g \in Fed(times, t, last)
    BY <1>4
  <2>3. s.start_index + 1 <= f.from /\ f.to = s.end_index + 1 /\ f.from \in Int
    BY <1>3, <2>1
  <2>4. t.start_index + 1 <= g.from /\ g.to = t.end_index + 1 /\ g.from \in Int
    BY <1>3, <2>2
  <2>5. /\ s.start_index \in Int /\ s.end_index \in Int
        /\ t.start_index \in Int /\ t.end_index \in Int
    BY <1>2
  <2>6. CASE s = t
    BY <1>3, <2>1, <2>2, <2>6
  <2> DEFINE a == s.start_index
             b == s.end_index
             c == t.start_index
             d == t.end_index
  <2>7. CASE s.end_index < t.start_index
    <3>1. f.to = b + 1 /\ c + 1 <= g.from /\ b < c /\ b \in Int /\ c \in Int /\ g.from \in Int
      BY <2>3, <2>4, <2>5, <2>7
    <3> HIDE DEF a, b, c, d
    <3>2. f.to < g.from
      BY <3>1
    <3> QED
      BY <3>2
  <2>8. CASE t.end_index < s.start_index
    <3>1. g.to = d + 1 /\ a + 1 <= f.from /\ d < a /\ d \in Int /\ a \in Int /\ f.from \in Int
      BY <2>3, <2>4, <2>5, <2>8
    <3> HIDE DEF a, b, c, d
    <3>2. g.to < f.from
      BY <3>1
    <3> QED
      BY <3>2
  <2> QED
    BY <1>1, <2>6, <2>7, <2>8
<1> HIDE DEF new
<1>8. UNION {f.from..f.to : f \in fed} = new
  BY <1>5, <1>6
<1> QED
  BY <1>7, <1>8 DEF new

-----------------------------------------------------------------------------
(***************************************************************************)
(* The expansion of times at any moment, and the household's power.        *)
(***************************************************************************)

(* Every device time near the current time is expanded right.              *)
LEMMA ExpandsAtAnyTime == ClockInv => ExpandsToNearest
<1> SUFFICES ASSUME ClockInv PROVE ExpandsToNearest
  OBVIOUS
<1> DEFINE second == clock \div MsPerSecond
<1>1. clock \in Epochs /\ clock \in Int /\ second \in Epochs /\ second \in Int /\ Half \in Nat
  BY SecondsOfEpoch, Words DEF ClockInv, Epochs
<1>2. ASSUME NEW epoch \in ((clock + 1 - Half)..(clock + Half - 1)) \cap Epochs
      PROVE  /\ convertEmeterTimeToUnixEpochTime(convertUnixEpochTimeToEmeterTimer(epoch), clock) = epoch
             /\ convertEmeterToInverterTime(epoch % TimeMax, clock) = (epoch \div MsPerSecond) % TimeMax
  <2>1. epoch \in Epochs /\ epoch - clock < Half /\ clock - epoch < Half
    BY <1>1 DEF Epochs
  <2>2. expandTimeTo64(epoch % TimeMax, clock) = epoch
    BY <1>1, <2>1, ExpandedNear
  <2> QED
    BY <2>2 DEF convertEmeterTimeToUnixEpochTime, convertUnixEpochTimeToEmeterTimer,
                convertEmeterToInverterTime, convertUnixEpochTimeToInverterTimer
<1>3. ASSUME NEW sec \in ((second + 1 - Half)..(second + Half - 1)) \cap 0..(EpochMax \div MsPerSecond - 1),
             NEW ms \in 0..(MsPerSecond - 1)
      PROVE  convertInverterTimeToUnixEpochTime(
                 convertUnixEpochTimeToInverterTimer(sec * MsPerSecond + ms), clock) = sec * MsPerSecond
  <2> HIDE DEF second
  <2>1. sec \in Nat /\ sec - second < Half /\ second - sec < Half
    BY <1>1
  <2>2. sec * MsPerSecond < EpochMax
    <3> DEFINE q == EpochMax \div MsPerSecond
               r == EpochMax % MsPerSecond
    <3>1. EpochMax \in Int /\ MsPerSecond \in Nat \ {0}
      BY Words, TimeAssumption
    <3>2. q \in Int /\ r \in 0..(MsPerSecond - 1) /\ EpochMax = (q * MsPerSecond) + r
      BY <3>1, Division
    <3>3. sec <= q - 1
      BY <3>2
    <3> HIDE DEF q, r
    <3>4. sec * MsPerSecond <= (q - 1) * MsPerSecond
      BY <2>1, <3>1, <3>2, <3>3
    <3>5. (q - 1) * MsPerSecond = (q * MsPerSecond) - MsPerSecond /\ q * MsPerSecond \in Int
          /\ sec * MsPerSecond \in Int
      BY <2>1, <3>1, <3>2
    <3> QED
      BY <3>1, <3>2, <3>4, <3>5
  <2>3. (sec * MsPerSecond + ms) \div MsPerSecond = sec
    BY <2>1, Seconds
  <2>4. convertInverterTimeToUnixEpochTime(sec % TimeMax, clock) = sec * MsPerSecond
    BY <1>1, <2>1, <2>2, SecondExpanded DEF second
  <2> QED
    BY <2>3, <2>4 DEF convertUnixEpochTimeToInverterTimer
<1> QED
  BY <1>2, <1>3 DEF ExpandsToNearest

(* Without a value of the household there is nothing to match.             *)
LEMMA NothingToMatch == produced' = {} => HouseholdMatched'
BY DEF HouseholdMatched, HouseholdAligned, HouseholdFresh, Households

(* The values of the household are matched when they are calculated.       *)
LEMMA HouseholdCalculated ==
  ASSUME ClockInv, MapInv, BuffersInv, UNCHANGED clock,
         NEW battery \in BOOLEAN, endOfSpeedwireData(battery, clock)
  PROVE  HouseholdMatched'
<1>1. /\ filterMap' = filterMap /\ speedwireMap' = speedwireMap /\ clock' = clock
  BY DEF endOfSpeedwireData
<1>2. ASSUME NEW h \in Households'
      PROVE  /\ h.at # -1 => h.at = convertInverterToEmeterTime(InverterTime(ACPower[1]), clock)
             /\ Negative(Total) \in DOMAIN filterMap
             /\ GridFresh(NewestTime(filterMap[Negative(Total)]), clock)
  <2>1. h \in produced' /\ h.kind = "HouseholdPowerTotal"
    BY DEF Households
  <2>2. \A ks : h \in Kind(ks) => h.kind \in ks
    BY DEF Kind
  <2>3. PICK acZero \in BOOLEAN :
          /\ {Positive(Total), Negative(Total)} \subseteq DOMAIN filterMap
          /\ GridFresh(NewestTime(filterMap[Negative(Total)]), clock)
          /\ h = Household(clock, acZero)
    <3>1. h \notin Kind({"BatteryPowerACTotal"}) /\ h \notin Kind({"InverterPowerDCTotal"})
          /\ h \notin Kind({"InverterPowerACTotal"})
          /\ h \notin Kind({"InverterPowerLoss", "InverterPowerEfficiency"})
      BY <2>1, <2>2
    <3> QED
      BY <2>1, <3>1 DEF endOfSpeedwireData
  <2>4. h.at = IF acZero THEN -1 ELSE convertInverterToEmeterTime(InverterTime(ACPower[1]), clock)
    BY <2>3 DEF Household
  <2> QED
    BY <2>3, <2>4
<1>3. HouseholdAligned'
  <2> SUFFICES ASSUME NEW h \in Households', h.at # -1, speedwireMap[ACPower[1]] # -1,
                      (clock \div MsPerSecond) - speedwireMap[ACPower[1]] < Half
               PROVE  h.at = (speedwireMap[ACPower[1]] * MsPerSecond) % TimeMax
    BY <1>1 DEF HouseholdAligned
  <2> DEFINE sec == speedwireMap[ACPower[1]]
  <2>1. ACPower[1] \in Keys
    BY DEF Keys
  <2>2. sec \in 0..(clock \div MsPerSecond)
    BY <2>1 DEF MapInv
  <2>3. InverterTime(ACPower[1]) = convertUnixEpochTimeToInverterTimer(sec * MsPerSecond)
    BY DEF InverterTime
  <2>4. convertInverterToEmeterTime(convertUnixEpochTimeToInverterTimer(sec * MsPerSecond), clock)
            = (sec * MsPerSecond) % TimeMax
    BY <2>2, AlignedTime DEF ClockInv
  <2> QED
    BY <1>2, <2>3, <2>4
<1>4. HouseholdFresh'
  <2> DEFINE grid == filterMap[Negative(Total)]
  <2> SUFFICES ASSUME NEW h \in Households', grid # << >>, clock - grid[Len(grid)] < Half
               PROVE  clock - grid[Len(grid)] < MaxAge * MsPerSecond
    BY <1>1 DEF HouseholdFresh
  <2>1. Negative(Total) \in DOMAIN filterMap \ SignedKeys
    BY <1>2 DEF SignedKeys, Negative, Signed
  <2>2. grid \in Seq(0..clock)
    BY <2>1 DEF BuffersInv, IsHistory
  <2> DEFINE newest == grid[Len(grid)]
  <2>3. newest \in 0..clock
    <3>1. Len(grid) \in 1..Len(grid)
      BY <2>2, LenProperties, EmptySeq
    <3> QED
      BY <2>2, <3>1, ElementOfSeq
  <2>4. newest \in Epochs /\ newest <= clock /\ clock \in Epochs
    <3> HIDE DEF newest
    <3> QED
      BY <2>3, Words DEF ClockInv, Epochs
  <2>5. calculateAbsTimeDifference(clock % TimeMax, newest % TimeMax) = clock - newest
    BY <2>4, TimeDistance
  <2>6. NewestTime(grid) = newest % TimeMax
    BY DEF NewestTime
  <2> QED
    BY <1>2, <2>5, <2>6 DEF GridFresh, convertUnixEpochTimeToEmeterTimer
<1> QED
  BY <1>3, <1>4 DEF HouseholdMatched

-----------------------------------------------------------------------------
(***************************************************************************)
(* Each action keeps the invariant.                                        *)
(***************************************************************************)
(* Between the packets of emeters the buffers of the powers are the same.  *)
LEMMA PowersAgree ==
  ~InWork(Emeters) =>
     (PowersInv <=> \A p \in Phases : Calculated(p) => filterMap[Positive(p)] = filterMap[Negative(p)])
BY DEF PowersInv, Completed, Missing

LEMMA PowersAgreePrimed ==
  ~InWork(Emeters)' =>
     (PowersInv' <=> (\A p \in Phases : Calculated(p) => filterMap[Positive(p)] = filterMap[Negative(p)])')
BY PowersAgree, PTL

(* Nothing has been received at first.                                     *)
LEMMA InitHolds == PipelineInit => PipelineIInv
<1> SUFFICES ASSUME PipelineInit PROVE PipelineIInv
  OBVIOUS
<1>1. ClockInv
  BY ClockAssumption DEF PipelineInit, ClockInv
<1>2. MapInv
  BY DEF PipelineInit, MapInv
<1>3. BuffersInv
  BY DEF PipelineInit, BuffersInv
<1>4. SignedInv /\ TypesInv /\ PowersInv
  <2>1. DOMAIN filterMap = {} /\ decided = {} /\ last_time = 0
    BY DEF PipelineInit, InitCalculated
  <2>2. 0 \in Times
    BY TimeAssumption DEF Times
  <2> QED
    BY <2>1, <2>2 DEF SignedInv, TypesInv, PowersInv, Calculated
<1>5. PacketInv /\ StartInv /\ DecidedInv
  BY DEF PipelineInit, InitStates, InitCalculated, PacketInv, StartInv, DecidedInv
<1>6. TimersInv /\ PaceInv
  BY DEF PipelineInit, InitStates, TimersInv, AllFit, PaceInv
<1>7. HouseholdMatched
  BY DEF PipelineInit, InitCalculated, HouseholdMatched, HouseholdAligned, HouseholdFresh, Households
<1> QED
  BY <1>1, <1>2, <1>3, <1>4, <1>5, <1>6, <1>7 DEF PipelineIInv

(* Measurements and timers of the past stay so as time goes on.            *)
LEMMA TickKeeps == PipelineIInv /\ tick => PipelineIInv'
<1> SUFFICES ASSUME PipelineIInv, tick PROVE PipelineIInv'
  OBVIOUS
<1>1. /\ clock \in Nat /\ clock' = clock + 1
      /\ (clock \div MsPerSecond) <= clock' \div MsPerSecond
      /\ clock \div MsPerSecond \in Int /\ clock' \div MsPerSecond \in Int
  <2>1. clock \in Nat /\ clock' = clock + 1
    BY DEF tick, PipelineIInv, ClockInv, Epochs
  <2>2. \A c \in Nat : c \div MsPerSecond \in Int
    BY TimeAssumption, Division
  <2> QED
    BY <2>1, <2>2, SecondsGrow
<1>2. ClockInv'
  BY <1>1, ClockAssumption, Words DEF tick, ClockInv, Epochs
<1>3. MapInv'
  <2>1. 0..(clock \div MsPerSecond) \subseteq 0..(clock' \div MsPerSecond)
    BY <1>1
  <2>2. speedwireMap' = speedwireMap
    BY DEF tick
  <2> QED
    BY <2>1, <2>2 DEF PipelineIInv, MapInv
<1>4. BuffersInv'
  <2>1. \A buffer : IsHistory(buffer, clock) => IsHistory(buffer, clock')
    <3>1. clock \in Nat /\ clock' \in Nat /\ clock <= clock'
      BY <1>1
    <3> QED
      BY <3>1, HistoryLasts
  <2> QED
    BY <2>1 DEF tick, PipelineIInv, BuffersInv
<1>5. SignedInv' /\ TypesInv' /\ PowersInv'
  <2>1. packet = << >> /\ packet' = << >> /\ UNCHANGED <<filterMap, last_time, decided>>
    BY DEF tick
  <2>2. SignedInv' /\ TypesInv'
    BY <2>1 DEF PipelineIInv, SignedInv, TypesInv, Calculated
  <2>3. ~InWork(Emeters) /\ ~InWork(Emeters)'
    BY <2>1 DEF InWork
  <2>4. \A p \in Phases : Calculated(p) => filterMap[Positive(p)] = filterMap[Negative(p)]
    BY <2>3, PowersAgree DEF PipelineIInv
  <2>5. (\A p \in Phases : Calculated(p) => filterMap[Positive(p)] = filterMap[Negative(p)])'
    BY <2>1, <2>4 DEF Calculated
  <2> QED
    BY <2>2, <2>3, <2>5, PowersAgreePrimed
<1>6. PacketInv' /\ DecidedInv' /\ StartInv'
  BY DEF tick, PipelineIInv, PacketInv, DecidedInv, StartInv
<1>7. TimersInv'
  <2>1. \A d : EpochOf(d) \in Int /\ EpochOf(d)' \in Int /\ EpochOf(d) <= EpochOf(d)'
    BY <1>1 DEF EpochOf
  <2>2. \A d \in DOMAIN states : latest[d] \in 0..EpochOf(d)' /\ began[d] \in Nat
    BY <2>1 DEF PipelineIInv, TimersInv
  <2> QED
    BY <2>2 DEF tick, PipelineIInv, TimersInv, AllFit
<1>8. PaceInv'
  BY DEF tick, PipelineIInv, PaceInv, TimerPaced, NumericOnly
<1>9. HouseholdMatched'
  BY NothingToMatch DEF tick
<1> QED
  BY <1>2, <1>3, <1>4, <1>5, <1>6, <1>7, <1>8, <1>9 DEF PipelineIInv

(* Filters are set up while there are no timers and no packets.            *)
LEMMA ConfigureKeeps == PipelineIInv /\ configure => PipelineIInv'
<1> SUFFICES ASSUME PipelineIInv, configure PROVE PipelineIInv'
  OBVIOUS
<1>1. /\ packet = << >> /\ DOMAIN states = {} /\ produced = {} /\ received = 0
      /\ \A k \in DOMAIN filterMap : filterMap[k] = << >>
      /\ packet' = << >> /\ clock' = clock /\ UNCHANGED <<states, last_time, decided, received, produced>>
  BY DEF configure, PipelineIInv, StartInv
<1>2. /\ DOMAIN filterMap' \subseteq ObisKeys
      /\ \A k \in DOMAIN filterMap' : filterMap'[k] = << >>
  <2>1. PICK key \in ObisKeys : addFilter(key) \/ removeFilter(key)
    BY DEF configure
  <2>2. DOMAIN filterMap \subseteq ObisKeys
    BY DEF PipelineIInv, BuffersInv
  <2> QED
    BY <1>1, <2>1, <2>2 DEF addFilter, removeFilter
<1>3. ClockInv' /\ MapInv' /\ PacketInv' /\ DecidedInv' /\ StartInv'
  BY <1>1, <1>2 DEF configure, PipelineIInv, ClockInv, MapInv, PacketInv, DecidedInv, StartInv
<1>4. BuffersInv' /\ SignedInv' /\ TypesInv' /\ PowersInv'
  <2>1. IsHistory(<< >>, clock)
    BY EmptyHistory DEF PipelineIInv, ClockInv, Epochs
  <2>2. BuffersInv'
    BY <1>1, <1>2, <2>1 DEF BuffersInv
  <2>3. SignedInv' /\ TypesInv'
    BY <1>1, <1>2 DEF PipelineIInv, SignedInv, TypesInv
  <2>4. ~InWork(Emeters)'
    BY <1>1 DEF InWork
  <2>5. (\A p \in Phases : Calculated(p) => filterMap[Positive(p)] = filterMap[Negative(p)])'
    BY <1>2 DEF Calculated
  <2> QED
    BY <2>2, <2>3, <2>4, <2>5, PowersAgreePrimed
<1>5. TimersInv' /\ PaceInv'
  BY <1>1 DEF configure, PipelineIInv, TimersInv, AllFit, PaceInv, EpochOf
<1>6. HouseholdMatched'
  BY <1>1, NothingToMatch DEF configure
<1> QED
  BY <1>3, <1>4, <1>5, <1>6 DEF PipelineIInv

(* The packet of an emeter has each power that is known once.              *)
LEMMA PacketHasPowers ==
  /\ Elements \in Seq(ObisKeys \ SignedKeys)
  /\ \A key \in Powers : OccursOnce(key, Elements)
  /\ \A key \in Powers \cap ObisKeys : Occurs(key, Elements) /\ key \notin TextKeys
<1>1. Elements \in Seq(ObisKeys \ SignedKeys)
  BY PacketAssumption DEF SignedKeys
<1>2. DOMAIN Elements = 1..Len(Elements) /\ \A i \in 1..Len(Elements) : Elements[i] \in ObisKeys
  BY <1>1, LenProperties, ElementOfSeq
<1>3. ASSUME NEW key \in Powers
      PROVE  /\ OccursOnce(key, Elements)
             /\ key \in ObisKeys => Occurs(key, Elements) /\ key \notin TextKeys
  <2>1. CASE key \in ObisKeys
    <3>1. key \notin TextKeys
      BY <2>1, PacketAssumption DEF Powers
    <3>2. PICK i \in DOMAIN Elements : \A j \in DOMAIN Elements : Elements[j] = key <=> i = j
      BY <2>1, PacketAssumption, Zenon DEF Powers
    <3>3. i \in 1..Len(Elements) /\ Elements[i] = key
      BY <1>2, <3>2
    <3>4. \A j \in 1..Len(Elements) : Elements[j] = key => i = j
      BY <1>2, <3>2
    <3> QED
      BY <3>1, <3>3, <3>4 DEF OccursOnce, Occurs
  <2>2. CASE key \notin ObisKeys
    BY <1>2, <2>2 DEF OccursOnce
  <2> QED
    BY <2>1, <2>2
<1> QED
  BY <1>1, <1>3

(* A packet begins, of an emeter or an inverter.                           *)
LEMMA ReceiveKeeps ==
  ASSUME PipelineIInv, NEW serial \in Devices, NEW elements,
         serial \in Emeters => elements = Elements,
         receivePacket(serial, elements), received' \in Nat \ {0}
  PROVE  PipelineIInv'
<1>1. /\ packet' = <<[serial |-> serial, rest |-> elements]>>
      /\ packet'[1] = [serial |-> serial, rest |-> elements]
      /\ packet'[1].serial = serial /\ packet'[1].rest = elements
      /\ DOMAIN packet'[1] = {"serial", "rest"}
      /\ packet' # << >> /\ packet = << >>
  BY DEF receivePacket
<1>2. ClockInv' /\ MapInv' /\ BuffersInv' /\ SignedInv' /\ TypesInv'
  BY DEF receivePacket, PipelineIInv, ClockInv, MapInv, BuffersInv, SignedInv, TypesInv, Calculated
<1>3. PacketInv' /\ StartInv' /\ DecidedInv'
  <2>1. serial \in Emeters => /\ elements \in Seq(ObisKeys \ SignedKeys)
                              /\ \A key \in Powers : OccursOnce(key, elements)
    BY PacketHasPowers
  <2>2. produced' = {} /\ decided' = {}
    BY DEF receivePacket
  <2>3. PacketInv'
    BY <1>1, <2>1, <2>2 DEF PacketInv
  <2>4. StartInv' /\ DecidedInv'
    BY <2>2 DEF StartInv, DecidedInv
  <2> QED
    BY <2>3, <2>4
<1>4. TimersInv' /\ PaceInv'
  BY DEF receivePacket, PipelineIInv, TimersInv, AllFit, PaceInv, EpochOf, TimerPaced, NumericOnly
<1>5. HouseholdMatched'
  BY NothingToMatch DEF receivePacket
<1>6. PowersInv'
  <2>1. \A p \in Phases : Calculated(p) => filterMap[Positive(p)] = filterMap[Negative(p)]
    BY <1>1, PowersAgree DEF InWork, PipelineIInv
  <2>2. filterMap' = filterMap /\ clock' = clock
    BY DEF receivePacket
  <2> SUFFICES ASSUME NEW p \in Phases, Calculated(p)'
               PROVE  /\ Completed(Positive(p))' = Completed(Negative(p))'
                      /\ InWork(Emeters)' => Missing(Positive(p))'
    BY DEF PowersInv
  <2>3. Positive(p) \in ObisKeys \cap Powers /\ Negative(p) \in ObisKeys \cap Powers
    BY <2>2 DEF Calculated, PipelineIInv, BuffersInv, Powers
  <2>4. filterMap[Positive(p)] = filterMap[Negative(p)]
    BY <2>1, <2>2 DEF Calculated
  <2>5. CASE serial \in Emeters
    <3>1. Missing(Positive(p))' /\ Missing(Negative(p))'
      <4>1. Occurs(Positive(p), Elements) /\ Occurs(Negative(p), Elements)
        BY <2>3, PacketHasPowers
      <4>2. elements = Elements /\ InWork(Emeters)'
        BY <1>1, <2>5 DEF InWork
      <4> QED
        BY <1>1, <4>1, <4>2 DEF Missing
    <3> QED
      BY <2>2, <2>4, <3>1 DEF Completed
  <2>6. CASE serial \notin Emeters
    <3>1. ~InWork(Emeters)'
      BY <1>1, <2>6 DEF InWork
    <3> QED
      BY <2>2, <2>4, <3>1 DEF Completed, Missing
  <2> QED
    BY <2>5, <2>6
<1> QED
  BY <1>2, <1>3, <1>4, <1>5, <1>6 DEF PipelineIInv

LEMMA ReceiveEmeterKeeps == PipelineIInv /\ receiveEmeterPacket => PipelineIInv'
<1> SUFFICES ASSUME PipelineIInv, receiveEmeterPacket PROVE PipelineIInv'
  OBVIOUS
<1>1. PICK serial \in Emeters : receivePacket(serial, Elements)
  BY DEF receiveEmeterPacket
<1>2. received' \in Nat \ {0}
  BY DEF receiveEmeterPacket, PipelineIInv, StartInv
<1>3. serial \in Devices
  BY DEF Devices
<1> QED
  BY <1>1, <1>2, <1>3, ReceiveKeeps

LEMMA ReceiveReplyKeeps == PipelineIInv /\ receiveReply => PipelineIInv'
<1> SUFFICES ASSUME PipelineIInv, receiveReply PROVE PipelineIInv'
  OBVIOUS
<1>1. PICK serial \in Inverters : \E reply \in Replies(serial) : receivePacket(serial, reply)
  BY DEF receiveReply
<1>2. PICK reply : receivePacket(serial, reply)
  BY <1>1
<1>3. received' \in Nat \ {0}
  BY PacketAssumption DEF receiveReply, PipelineIInv, StartInv
<1>4. serial \in Devices /\ serial \notin Emeters
  BY PacketAssumption DEF Devices
<1> QED
  BY <1>2, <1>3, <1>4, ReceiveKeeps

(* What the consumers of an element have in common.                        *)
LEMMA NextElementKeeps ==
  ASSUME PipelineIInv, packet # << >>, packet[1].rest # << >>, NextElement,
         UNCHANGED <<produced, clock, received>>
  PROVE  /\ ClockInv' /\ PacketInv' /\ HouseholdMatched'
         /\ received # 0 /\ packet' # << >>
         /\ packet'[1].serial = packet[1].serial
         /\ packet'[1].rest = Tail(packet[1].rest)
<1>1. /\ DOMAIN packet[1] = {"serial", "rest"} /\ packet[1].serial \in Devices /\ produced = {}
      /\ packet[1].serial \in Emeters => /\ packet[1].rest \in Seq(ObisKeys \ SignedKeys)
                                         /\ \A key \in Powers : OccursOnce(key, packet[1].rest)
  BY DEF PipelineIInv, PacketInv
<1>2. packet' = <<[packet[1] EXCEPT !.rest = Tail(packet[1].rest)]>>
  BY DEF NextElement
<1> DEFINE q == [packet[1] EXCEPT !.rest = Tail(packet[1].rest)]
<1>3. /\ DOMAIN q = {"serial", "rest"} /\ q.serial = packet[1].serial
      /\ q.rest = Tail(packet[1].rest)
  BY <1>1
<1>4. packet' # << >> /\ packet'[1] = q
  BY <1>2
<1>5. packet[1].serial \in Emeters => /\ Tail(packet[1].rest) \in Seq(ObisKeys \ SignedKeys)
                                      /\ \A key \in Powers : OccursOnce(key, Tail(packet[1].rest))
  BY <1>1, HeadTailProperties, NoMoreInTail
<1> HIDE DEF q
<1>6. PacketInv'
  BY <1>1, <1>3, <1>4, <1>5 DEF PacketInv
<1>7. ClockInv' /\ HouseholdMatched'
  BY <1>1, NothingToMatch DEF PipelineIInv, ClockInv
<1>8. received # 0
  BY DEF PipelineIInv, StartInv
<1> QED
  BY <1>3, <1>4, <1>6, <1>7, <1>8

(* What an element does to the timers, when its time is that of the clock  *)
(* unless some element is a string.                                        *)
LEMMA AverageKeeps ==
  ASSUME PipelineIInv, packet # << >>, packet' # << >>, packet'[1].serial = packet[1].serial,
         UNCHANGED clock, NumericOnly' => NumericOnly,
         NEW time \in Times, NEW epoch \in Nat, epoch = EpochOf(packet[1].serial),
         NumericOnly => time = epoch % TimeMax,
         average(time, epoch)
  PROVE  TimersInv' /\ PaceInv' /\ DecidedInv' /\ decided' \subseteq BOOLEAN
<1>1. TimersInv /\ packet[1].serial \in Devices
  BY DEF PipelineIInv, PacketInv
<1>2. TimersInv'
  BY <1>1, AverageKeepsTimers
<1>3. ASSUME NumericOnly
      PROVE  /\ \A d \in DOMAIN states' : TimerPaced(d)'
             /\ packet[1].serial \in DOMAIN states' /\ latest'[packet[1].serial] = epoch
             /\ \/ decided = {}
                \/ /\ packet[1].serial \in DOMAIN states
                   /\ latest[packet[1].serial] = EpochOf(packet[1].serial)
                   /\ decided = {states[packet[1].serial].averagingTimeReached}
                => decided' = {states'[packet[1].serial].averagingTimeReached}
  <2>1. \A d \in DOMAIN states : TimerPaced(d)
    BY <1>3 DEF PipelineIInv, PaceInv
  <2>2. average(epoch % TimeMax, epoch)
    BY <1>3
  <2> QED
    BY <1>1, <2>1, <2>2, AverageKeepsPace
<1>4. PaceInv'
  BY <1>3 DEF PaceInv
<1>5. DecidedInv'
  <2> SUFFICES ASSUME NumericOnly'
               PROVE  /\ packet[1].serial \in DOMAIN states'
                      /\ latest'[packet[1].serial] = epoch
                      /\ decided' = {states'[packet[1].serial].averagingTimeReached}
    BY DEF DecidedInv, EpochOf
  <2>1. decided # {} => /\ packet[1].serial \in DOMAIN states
                        /\ latest[packet[1].serial] = EpochOf(packet[1].serial)
                        /\ decided = {states[packet[1].serial].averagingTimeReached}
    BY DEF PipelineIInv, DecidedInv
  <2> QED
    BY <1>3, <2>1
<1>6. decided' \subseteq BOOLEAN
  <2>1. states'[packet[1].serial] \in AveragingState
    BY <1>2 DEF TimersInv, AllFit, Fits, average, process
  <2>2. states'[packet[1].serial].averagingTimeReached \in BOOLEAN
    BY <2>1 DEF AveragingState
  <2> QED
    BY <2>2 DEF average, PipelineIInv, TypesInv
<1> QED
  BY <1>2, <1>4, <1>5, <1>6

(* An emeter's element that passes the filter: its measurement is added,   *)
(* and its time is the current one unless it is a string.                  *)
LEMMA ElementAdded ==
  ASSUME PipelineIInv, consumeObis, Head(packet[1].rest) \in DOMAIN filterMap
  PROVE  LET key == Head(packet[1].rest)
         IN  /\ DOMAIN filterMap' = DOMAIN filterMap
             /\ BuffersInv'
             /\ NewestTime(filterMap'[key]) \in Times
             /\ NumericOnly => NewestTime(filterMap'[key]) = clock % TimeMax
<1> DEFINE key == Head(packet[1].rest)
<1>1. packet # << >> /\ packet[1].serial \in Emeters /\ packet[1].rest # << >> /\ UNCHANGED clock
  BY DEF consumeObis, InWork
<1>2. key \in ObisKeys \ SignedKeys
  <2>1. packet[1].rest \in Seq(ObisKeys \ SignedKeys)
    BY <1>1 DEF PipelineIInv, PacketInv
  <2> QED
    BY <1>1, <2>1, HeadTailProperties
<1>3. clock \in Nat
  BY DEF PipelineIInv, ClockInv, Epochs
<1>4. key \in DOMAIN filterMap /\ addElement(key, clock)
  BY DEF consumeObis
<1> HIDE DEF key
<1>5. /\ DOMAIN filterMap' = DOMAIN filterMap
      /\ \A k \in DOMAIN filterMap : k # key => filterMap'[k] = filterMap[k]
      /\ filterMap'[key] = IF key \in TextKeys THEN filterMap[key] ELSE Added(filterMap[key], clock)
  BY <1>4 DEF addElement
<1>6. IsHistory(filterMap[key], clock) /\ filterMap[key] \in Seq(0..clock)
  BY <1>2, <1>4 DEF PipelineIInv, BuffersInv, IsHistory
<1>7. /\ IsHistory(Added(filterMap[key], clock), clock)
      /\ NewestTime(Added(filterMap[key], clock)) = clock % TimeMax
  BY <1>3, <1>6, AddedNewest, AddedIsHistory
<1>8. IsHistory(filterMap'[key], clock) /\ filterMap'[key] \in Seq(0..clock)
  BY <1>5, <1>6, <1>7 DEF IsHistory
<1>9. BuffersInv'
  BY <1>1, <1>5, <1>8 DEF PipelineIInv, BuffersInv
<1>10. NewestTime(filterMap'[key]) \in Times
  BY <1>3, <1>8, NewestIsTime
<1>11. NumericOnly => NewestTime(filterMap'[key]) = clock % TimeMax
  BY <1>4, <1>5, <1>7 DEF NumericOnly
<1> QED
  BY <1>5, <1>9, <1>10, <1>11 DEF key

(* A power that is added to its buffer is not missing any more.            *)
LEMMA PowersConsumed ==
  ASSUME PipelineIInv, consumeObis
  PROVE  SignedInv' /\ PowersInv'
<1> DEFINE key == Head(packet[1].rest)
           rest == packet[1].rest
<1>1. /\ InWork(Emeters) /\ packet # << >> /\ packet[1].serial \in Emeters /\ rest # << >>
      /\ NextElement
      /\ UNCHANGED <<produced, clock, received>>
  BY DEF consumeObis, InWork
<1>2. packet' # << >> /\ packet'[1].serial = packet[1].serial /\ packet'[1].rest = Tail(rest)
  BY <1>1, NextElementKeeps
<1>3. InWork(Emeters)'
  BY <1>1, <1>2 DEF InWork
<1>4. rest \in Seq(ObisKeys \ SignedKeys) /\ \A k \in Powers : OccursOnce(k, rest)
  BY <1>1 DEF PipelineIInv, PacketInv
<1>5. key \in ObisKeys \ SignedKeys
  BY <1>1, <1>4, HeadTailProperties
<1>6. \A k \in Powers : Occurs(k, Tail(rest)) <=> Occurs(k, rest) /\ k # key
  BY <1>1, <1>4, NoMoreInTail
<1> HIDE DEF key, rest
<1>7. \A k \in Powers : Missing(k)' <=> Missing(k) /\ k # key
  <2> SUFFICES ASSUME NEW k \in Powers PROVE Missing(k)' <=> Missing(k) /\ k # key
    OBVIOUS
  <2>1. Missing(k) <=> Occurs(k, rest)
    BY <1>1 DEF Missing, rest
  <2>2. Missing(k)' <=> Occurs(k, Tail(rest))
    BY <1>2, <1>3 DEF Missing
  <2> QED
    BY <1>6, <2>1, <2>2
<1>8. Occurs(key, rest)
  <2>1. Len(rest) \in Nat \ {0} /\ Head(rest) = rest[1]
    BY <1>1, <1>4, EmptySeq
  <2>2. 1 \in 1..Len(rest)
    BY <2>1
  <2> QED
    BY <2>1, <2>2 DEF Occurs, key, rest
<1>9. Missing(key)
  BY <1>1, <1>8 DEF Missing, rest
<1>10. /\ DOMAIN filterMap' = DOMAIN filterMap
       /\ \A k \in DOMAIN filterMap : k # key => filterMap'[k] = filterMap[k]
       /\ key \in DOMAIN filterMap /\ key \notin TextKeys => filterMap'[key] = Added(filterMap[key], clock)
  <2>1. CASE key \in DOMAIN filterMap
    <3>1. addElement(key, clock)
      BY <2>1 DEF consumeObis, key
    <3> QED
      BY <2>1, <3>1 DEF addElement
  <2>2. CASE key \notin DOMAIN filterMap
    <3>1. filterMap' = filterMap
      BY <2>2 DEF consumeObis, key
    <3> QED
      BY <2>2, <3>1
  <2> QED
    BY <2>1, <2>2
<1>11. ASSUME NEW k \in Powers, k \in DOMAIN filterMap
       PROVE  /\ Completed(k)' = Completed(k)
              /\ ~Missing(k)' /\ (~Missing(k) => filterMap[k] # << >>) => filterMap'[k] # << >>
  <2>1. k \in ObisKeys /\ k \notin TextKeys /\ k \notin SignedKeys
    <3>1. k \in ObisKeys
      BY <1>11 DEF PipelineIInv, BuffersInv
    <3>2. k \notin SignedKeys
      BY DEF Powers, SignedKeys, Positive, Negative, Signed
    <3> QED
      BY <3>1, <3>2, PacketHasPowers
  <2>2. CASE k = key
    <3>1. Missing(k) /\ ~Missing(k)' /\ filterMap'[k] = Added(filterMap[k], clock)
      BY <1>7, <1>9, <1>10, <1>11, <2>1, <2>2
    <3>2. IsHistory(filterMap[k], clock) /\ clock \in Nat
      BY <1>11, <2>1 DEF PipelineIInv, BuffersInv, ClockInv, Epochs
    <3>3. Added(filterMap[k], clock) # << >>
      BY <3>2, AddedIsHistory
    <3> QED
      BY <3>1, <3>3 DEF Completed
  <2>3. CASE k # key
    <3>1. (Missing(k)' <=> Missing(k)) /\ filterMap'[k] = filterMap[k]
      BY <1>7, <1>10, <1>11, <2>3
    <3> QED
      BY <1>1, <3>1 DEF Completed
  <2> QED
    BY <2>2, <2>3
<1>12. SignedInv'
  <2>1. \A p \in Phases : Signed(p) \in DOMAIN filterMap => filterMap'[Signed(p)] = filterMap[Signed(p)]
    BY <1>5, <1>10 DEF SignedKeys
  <2> SUFFICES ASSUME NEW p \in Phases, Signed(p) \in DOMAIN filterMap, filterMap[Signed(p)] # << >>
               PROVE  Calculated(p)' /\ Len(filterMap[Signed(p)]) <= MaxElements
    BY <1>10, <2>1 DEF SignedInv
  <2>2. Calculated(p) /\ Len(filterMap[Signed(p)]) <= MaxElements
    BY DEF PipelineIInv, SignedInv
  <2> QED
    BY <1>10, <2>2 DEF Calculated
<1>13. PowersInv'
  <2> SUFFICES ASSUME NEW p \in Phases, Calculated(p)'
               PROVE  /\ Completed(Positive(p))' = Completed(Negative(p))'
                      /\ ~Missing(Positive(p))' => filterMap'[Positive(p)] # << >>
    BY DEF PowersInv
  <2>1. Calculated(p) /\ Positive(p) \in DOMAIN filterMap /\ Negative(p) \in DOMAIN filterMap
    BY <1>10 DEF Calculated
  <2>2. Positive(p) \in Powers /\ Negative(p) \in Powers
    BY DEF Powers
  <2>3. /\ Completed(Positive(p)) = Completed(Negative(p))
        /\ ~Missing(Positive(p)) => filterMap[Positive(p)] # << >>
    BY <1>1, <2>1 DEF PipelineIInv, PowersInv
  <2>4. /\ Completed(Positive(p))' = Completed(Positive(p))
        /\ Completed(Negative(p))' = Completed(Negative(p))
    BY <1>11, <2>1, <2>2
  <2>5. ~Missing(Positive(p))' => filterMap'[Positive(p)] # << >>
    BY <1>11, <2>1, <2>2, <2>3
  <2> QED
    BY <2>3, <2>4, <2>5
<1> QED
  BY <1>12, <1>13

(* The element of an emeter: a measurement of the current time, unless it  *)
(* is a string or is filtered out.                                         *)
LEMMA ConsumeObisKeeps == PipelineIInv /\ consumeObis => PipelineIInv'
<1> SUFFICES ASSUME PipelineIInv, consumeObis PROVE PipelineIInv'
  OBVIOUS
<1> DEFINE key == Head(packet[1].rest)
<1>1. /\ packet # << >> /\ packet[1].serial \in Emeters /\ packet[1].rest # << >> /\ NextElement
      /\ UNCHANGED <<speedwireMap, last_time, produced, clock, received>>
  BY DEF consumeObis, InWork
<1>2. /\ ClockInv' /\ PacketInv' /\ HouseholdMatched'
      /\ received # 0 /\ packet' # << >> /\ packet'[1].serial = packet[1].serial
  BY <1>1, NextElementKeeps
<1>3. MapInv'
  BY <1>1 DEF PipelineIInv, MapInv
<1>4. StartInv'
  BY <1>1, <1>2 DEF PipelineIInv, StartInv
<1>5. clock \in Nat /\ SignedInv' /\ PowersInv'
  BY PowersConsumed DEF PipelineIInv, ClockInv, Epochs
<1>6. CASE key \in DOMAIN filterMap
  <2>1. average(NewestTime(filterMap'[key]), clock)
    BY <1>6 DEF consumeObis
  <2>2. /\ DOMAIN filterMap' = DOMAIN filterMap
        /\ BuffersInv'
        /\ NewestTime(filterMap'[key]) \in Times
        /\ NumericOnly => NewestTime(filterMap'[key]) = clock % TimeMax
    BY <1>6, ElementAdded
  <2>3. NumericOnly' <=> NumericOnly
    BY <2>2 DEF NumericOnly
  <2>4. clock = EpochOf(packet[1].serial)
    BY <1>1 DEF EpochOf
  <2>5. TimersInv' /\ PaceInv' /\ DecidedInv' /\ decided' \subseteq BOOLEAN
    BY <1>1, <1>2, <1>5, <2>1, <2>2, <2>3, <2>4, AverageKeeps
  <2>6. TypesInv'
    BY <1>1, <2>5 DEF PipelineIInv, TypesInv
  <2> QED
    BY <1>2, <1>3, <1>4, <1>5, <2>2, <2>5, <2>6 DEF PipelineIInv
<1>7. CASE key \notin DOMAIN filterMap
  <2>1. UNCHANGED <<filterMap, states, decided, began, latest, late>>
    BY <1>7 DEF consumeObis
  <2>2. BuffersInv' /\ TypesInv' /\ TimersInv' /\ PaceInv' /\ DecidedInv'
    BY <1>1, <1>2, <2>1 DEF PipelineIInv, BuffersInv, TypesInv, TimersInv, AllFit, EpochOf, PaceInv,
                           TimerPaced, NumericOnly, DecidedInv
  <2> QED
    BY <1>2, <1>3, <1>4, <1>5, <2>2 DEF PipelineIInv
<1> QED
  BY <1>6, <1>7

(* The current second, and its time of an inverter.                        *)
LEMMA SecondIsTime ==
  ClockInv => clock \div MsPerSecond \in Nat /\ (clock \div MsPerSecond) % TimeMax \in Times
<1> SUFFICES ASSUME ClockInv
             PROVE  clock \div MsPerSecond \in Nat /\ (clock \div MsPerSecond) % TimeMax \in Times
  OBVIOUS
<1> DEFINE sec == clock \div MsPerSecond
<1>1. sec \in Nat
  BY SecondsOfEpoch DEF ClockInv, Epochs
<1> HIDE DEF sec
<1>2. sec % TimeMax \in 0..(TimeMax - 1)
  BY <1>1, TimeAssumption, Division
<1> QED
  BY <1>1, <1>2 DEF Times, sec

(* The element of an inverter: a value of the current second, if the       *)
(* application has asked for it.                                           *)
LEMMA ConsumeSpeedwireKeeps == PipelineIInv /\ consumeSpeedwire => PipelineIInv'
<1> SUFFICES ASSUME PipelineIInv, consumeSpeedwire PROVE PipelineIInv'
  OBVIOUS
<1> DEFINE key == Head(packet[1].rest)
           sec == clock \div MsPerSecond
<1>1. /\ packet # << >> /\ packet[1].serial \in Inverters /\ packet[1].rest # << >> /\ NextElement
      /\ UNCHANGED <<filterMap, last_time, produced, clock, received>>
  BY DEF consumeSpeedwire, InWork
<1>2. /\ ClockInv' /\ PacketInv' /\ HouseholdMatched'
      /\ received # 0 /\ packet' # << >> /\ packet'[1].serial = packet[1].serial
  BY <1>1, NextElementKeeps
<1>3. BuffersInv' /\ SignedInv' /\ PowersInv'
  <2>1. BuffersInv' /\ SignedInv'
    BY <1>1 DEF PipelineIInv, BuffersInv, SignedInv, Calculated
  <2>2. ~InWork(Emeters) /\ ~InWork(Emeters)'
    BY <1>1, <1>2, PacketAssumption DEF InWork
  <2>3. \A p \in Phases : Calculated(p) => filterMap[Positive(p)] = filterMap[Negative(p)]
    BY <2>2, PowersAgree DEF PipelineIInv
  <2>4. (\A p \in Phases : Calculated(p) => filterMap[Positive(p)] = filterMap[Negative(p)])'
    BY <1>1, <2>3 DEF Calculated
  <2> QED
    BY <2>1, <2>2, <2>4, PowersAgreePrimed
<1>4. StartInv'
  BY <1>1, <1>2 DEF PipelineIInv, StartInv
<1>5. sec \in Nat /\ sec % TimeMax \in Times
  BY SecondIsTime DEF PipelineIInv
<1>6. CASE key \in DOMAIN speedwireMap
  <2>1. /\ speedwireMap' = [speedwireMap EXCEPT ![key] = sec]
        /\ average(sec % TimeMax, sec)
    BY <1>6 DEF consumeSpeedwire
  <2>2. MapInv'
    <3>1. sec \in 0..sec
      BY <1>5
    <3> QED
      BY <1>1, <2>1, <3>1 DEF PipelineIInv, MapInv
  <2>3. NumericOnly' <=> NumericOnly
    BY <1>1 DEF NumericOnly
  <2>4. sec = EpochOf(packet[1].serial)
    BY <1>1, PacketAssumption DEF EpochOf
  <2>5. TimersInv' /\ PaceInv' /\ DecidedInv' /\ decided' \subseteq BOOLEAN
    BY <1>1, <1>2, <1>5, <2>1, <2>3, <2>4, AverageKeeps
  <2>6. TypesInv'
    BY <1>1, <2>5 DEF PipelineIInv, TypesInv
  <2> QED
    BY <1>2, <1>3, <1>4, <2>2, <2>5, <2>6 DEF PipelineIInv
<1>7. CASE key \notin DOMAIN speedwireMap
  <2>1. UNCHANGED <<speedwireMap, states, decided, began, latest, late>>
    BY <1>7 DEF consumeSpeedwire
  <2>2. MapInv' /\ TypesInv' /\ TimersInv' /\ PaceInv' /\ DecidedInv'
    BY <1>1, <1>2, <2>1 DEF PipelineIInv, MapInv, TypesInv, TimersInv, AllFit, EpochOf, PaceInv, TimerPaced,
                           NumericOnly, DecidedInv
  <2> QED
    BY <1>2, <1>3, <1>4, <2>2 DEF PipelineIInv
<1> QED
  BY <1>6, <1>7

(* At the end of a packet the powers have all come.                        *)
LEMMA EndHasPowers ==
  ASSUME PipelineIInv, packet # << >>, packet[1].serial \in Emeters, packet[1].rest = << >>,
         NEW p \in Phases, Calculated(p)
  PROVE  /\ filterMap[Positive(p)] = filterMap[Negative(p)]
         /\ filterMap[Positive(p)] # << >>
         /\ IsHistory(filterMap[Positive(p)], clock)
         /\ calculateValueDiffs(filterMap[Positive(p)], filterMap[Negative(p)])
               = PairsUpto(filterMap[Positive(p)], Len(filterMap[Positive(p)]))
<1> DEFINE pos == filterMap[Positive(p)]
           neg == filterMap[Negative(p)]
<1>1. Len(packet[1].rest) = 0
  BY EmptySeq
<1>2. \A key : ~Missing(key)
  BY <1>1 DEF Missing, Occurs
<1>3. InWork(Emeters)
  BY DEF InWork
<1>4. pos = neg /\ pos # << >>
  BY <1>2, <1>3 DEF PipelineIInv, PowersInv, Completed
<1>5. IsHistory(pos, clock)
  <2>1. Positive(p) \in DOMAIN filterMap \ SignedKeys
    BY DEF Calculated, SignedKeys, Positive, Signed
  <2> QED
    BY <2>1 DEF PipelineIInv, BuffersInv
<1>6. clock \in Nat
  BY DEF PipelineIInv, ClockInv, Epochs
<1> HIDE DEF pos, neg
<1>7. calculateValueDiffs(pos, pos) = PairsUpto(pos, Len(pos))
  BY <1>5, <1>6, DiffsOfSame
<1> QED
  BY <1>4, <1>5, <1>7 DEF pos, neg

(* What is calculated of each phase at the end of a packet.                *)
Diffs == [p \in {q \in Phases : Calculated(q)} |->
             calculateValueDiffs(filterMap[Positive(p)], filterMap[Negative(p)])]

(* The signed values are those of all measurements, the others are kept.   *)
LEMMA EndCalculates ==
  ASSUME PipelineIInv, packet # << >>, packet[1].serial \in Emeters, packet[1].rest = << >>, endOfObisData
  PROVE  /\ DOMAIN filterMap' = DOMAIN filterMap
         /\ \A k \in DOMAIN filterMap :
               (\A p \in Phases : Calculated(p) => k # Signed(p)) => filterMap'[k] = filterMap[k]
         /\ \A p \in Phases : Calculated(p) =>
               filterMap'[Signed(p)] = PairsUpto(filterMap[Positive(p)], Len(filterMap[Positive(p)]))
<1>1. filterMap' = [k \in DOMAIN filterMap |->
              IF \E p \in DOMAIN Diffs : k = Signed(p)
              THEN Diffs[CHOOSE p \in DOMAIN Diffs : k = Signed(p)] ELSE filterMap[k]]
  BY DEF endOfObisData, Diffs
<1>2. \A p : p \in DOMAIN Diffs <=> p \in Phases /\ Calculated(p)
  BY DEF Diffs
<1>3. \A k \in DOMAIN filterMap :
         (\A p \in Phases : Calculated(p) => k # Signed(p)) => filterMap'[k] = filterMap[k]
  BY <1>1, <1>2
<1>4. ASSUME NEW p \in Phases, Calculated(p)
      PROVE  filterMap'[Signed(p)] = PairsUpto(filterMap[Positive(p)], Len(filterMap[Positive(p)]))
  <2> DEFINE k == Signed(p)
             chosen == CHOOSE q \in DOMAIN Diffs : k = Signed(q)
  <2>1. k \in DOMAIN filterMap /\ p \in DOMAIN Diffs
    BY <1>2, <1>4 DEF Calculated
  <2>2. \A q : k = Signed(q) => q = p
    BY DEF Signed
  <2>3. chosen = p
    BY <2>1, <2>2
  <2>4. filterMap'[k] = Diffs[p]
    BY <1>1, <2>1, <2>3
  <2>5. Diffs[p] = calculateValueDiffs(filterMap[Positive(p)], filterMap[Negative(p)])
    BY <1>2, <2>1 DEF Diffs
  <2> QED
    BY <1>4, <2>4, <2>5, EndHasPowers
<1>5. DOMAIN filterMap' = DOMAIN filterMap
  BY <1>1
<1> QED
  BY <1>3, <1>4, <1>5

(* The pairs of a history.                                                 *)
LEMMA PairsFacts ==
  ASSUME NEW n \in Nat, NEW buffer, IsHistory(buffer, n), NEW pairs, pairs = PairsUpto(buffer, Len(buffer))
  PROVE  /\ Len(pairs) = Len(buffer) /\ DOMAIN pairs = 1..Len(buffer) /\ DOMAIN buffer = 1..Len(buffer)
         /\ \A i \in 1..Len(buffer) : pairs[i] = <<buffer[i], buffer[i]>> /\ pairs[i][1] = buffer[i]
<1> DEFINE len == Len(buffer)
           S == (0..n) \X (0..n)
<1>1. len \in Nat /\ DOMAIN buffer = 1..len /\ \A i \in 1..len : buffer[i] \in 0..n
  BY LenProperties, ElementOfSeq DEF IsHistory
<1> HIDE DEF len
<1>2. pairs = [i \in 1..len |-> <<buffer[i], buffer[i]>>]
  BY DEF PairsUpto, len
<1>3. pairs \in Seq(S)
  <2>1. pairs \in [1..len -> S]
    BY <1>1, <1>2
  <2> QED
    BY <1>1, <2>1, SeqDef
<1>4. Len(pairs) = len
  <2>1. Len(pairs) \in Nat /\ DOMAIN pairs = 1..Len(pairs)
    BY <1>3, LenProperties
  <2>2. 1..Len(pairs) = 1..len
    BY <1>2, <2>1
  <2> DEFINE length == Len(pairs)
  <2>3. length \in Nat /\ 1..length = 1..len
    BY <2>1, <2>2
  <2> HIDE DEF length
  <2>4. length = len
    BY <1>1, <2>3
  <2> QED
    BY <2>4 DEF length
<1>5. \A i \in 1..len : pairs[i] = <<buffer[i], buffer[i]>> /\ pairs[i][1] = buffer[i]
  BY <1>2
<1> QED
  BY <1>1, <1>2, <1>4, <1>5 DEF len

(* The device times of the measurements in a buffer.                       *)
DeviceTimes(buffer) == [i \in 1..Len(buffer) |-> buffer[i] % TimeMax]

(* The device times are those of the measurements, one each.               *)
LEMMA DeviceTimesFacts ==
  ASSUME NEW now \in Nat, NEW buffer, IsHistory(buffer, now)
  PROVE  /\ Len(DeviceTimes(buffer)) = Len(buffer)
         /\ \A i \in 1..Len(buffer) : DeviceTimes(buffer)[i] = buffer[i] % TimeMax
<1> DEFINE n == Len(buffer)
           times == DeviceTimes(buffer)
           length == Len(times)
<1>1. n \in Nat /\ \A i \in 1..n : buffer[i] \in Nat
  BY LenProperties, ElementOfSeq DEF IsHistory
<1>2. \A i \in 1..n : buffer[i] % TimeMax \in Int
  <2>1. \A x \in Nat : x % TimeMax \in Int
    BY TimeAssumption, Division
  <2> HIDE DEF n
  <2> QED
    BY <1>1, <2>1
<1>3. times = [i \in 1..n |-> buffer[i] % TimeMax]
  BY DEF DeviceTimes
<1> HIDE DEF times, n
<1>4. times \in Seq(Int) /\ DOMAIN times = 1..n
  <2>1. times \in [1..n -> Int]
    BY <1>2, <1>3
  <2> QED
    BY <1>1, <2>1, SeqDef
<1>5. length \in Nat /\ 1..length = 1..n
  BY <1>4, LenProperties
<1> HIDE DEF length
<1>6. length = n
  BY <1>1, <1>5
<1> QED
  BY <1>3, <1>6 DEF length, times, n

(* What the producer is fed then: the segments between some change points, *)
(* as far as they are new; last_time moves on to the newest measurement.   *)
EndFed(buffer, changes) ==
    /\ changes \in SUBSET (0..(Len(buffer) - 2))
    /\ produced' = FedOf(DeviceTimes(buffer), Intervals(Len(buffer), changes), last_time)
    /\ last_time' = buffer[Len(buffer)] % TimeMax

(* It is fed with the total if its signed values are calculated, and with  *)
(* nothing otherwise.                                                      *)
LEMMA EndFeeds ==
  ASSUME PipelineIInv, packet # << >>, packet[1].serial \in Emeters, packet[1].rest = << >>, endOfObisData
  PROVE  /\ Calculated(Total) => \E changes : EndFed(filterMap[Positive(Total)], changes)
         /\ ~Calculated(Total) => produced' = {} /\ last_time' = last_time
<1>1. IF Total \in DOMAIN Diffs /\ Diffs[Total] # << >>
      THEN \E segments \in findPiecewiseConstantIntervals(
                Len([i \in 1..Len(Diffs[Total]) |-> Diffs[Total][i][1] % TimeMax])) :
             /\ produced' = UNION {Fed([i \in 1..Len(Diffs[Total]) |-> Diffs[Total][i][1] % TimeMax],
                                      s, last_time) : s \in segments}
             /\ \E s \in segments :
                   /\ \A t \in segments : t.start_index <= s.start_index
                   /\ last_time' = [i \in 1..Len(Diffs[Total]) |->
                                       Diffs[Total][i][1] % TimeMax][s.end_index + 1]
      ELSE produced' = {} /\ UNCHANGED last_time
  BY Zenon DEF endOfObisData, Diffs
<1>2. Total \in Phases
  BY PacketAssumption
<1>3. Total \in DOMAIN Diffs <=> Calculated(Total)
  BY <1>2 DEF Diffs
<1>4. ASSUME Calculated(Total)
      PROVE  \E changes : EndFed(filterMap[Positive(Total)], changes)
  <2> DEFINE buffer == filterMap[Positive(Total)]
             times == DeviceTimes(buffer)
             n == Len(buffer)
  <2>1. Diffs[Total] = calculateValueDiffs(filterMap[Positive(Total)], filterMap[Negative(Total)])
    BY <1>2, <1>3, <1>4 DEF Diffs
  <2>2. /\ buffer # << >> /\ IsHistory(buffer, clock) /\ clock \in Nat
        /\ Diffs[Total] = PairsUpto(buffer, n)
    BY <1>2, <1>4, <2>1, EndHasPowers DEF PipelineIInv, ClockInv, Epochs
  <2> HIDE DEF buffer
  <2>3. n \in Nat \ {0} /\ \A i \in 1..n : buffer[i] \in 0..clock
    BY <2>2, LenProperties, EmptySeq, ElementOfSeq DEF IsHistory
  <2>4. /\ Len(Diffs[Total]) = n
        /\ \A i \in 1..n : Diffs[Total][i][1] = buffer[i]
    BY <2>2, PairsFacts
  <2>5. [i \in 1..Len(Diffs[Total]) |-> Diffs[Total][i][1] % TimeMax] = times
    BY <2>4 DEF DeviceTimes
  <2>6. Len(times) = n
    BY <2>2, DeviceTimesFacts
  <2>7. Diffs[Total] # << >>
    BY <2>3, <2>4, EmptySeq
  <2> HIDE DEF times, n
  <2>8. PICK segments \in findPiecewiseConstantIntervals(n) :
          /\ produced' = UNION {Fed(times, s, last_time) : s \in segments}
          /\ \E s \in segments : /\ \A t \in segments : t.start_index <= s.start_index
                                  /\ last_time' = times[s.end_index + 1]
    BY <1>1, <1>3, <1>4, <2>5, <2>6, <2>7
  <2>9. PICK changes \in findChangePointsOfMeanValues(n) : segments = Intervals(n, changes)
    BY DEF findPiecewiseConstantIntervals
  <2>10. changes \in SUBSET (0..(n - 2))
    BY <2>3, MeanChanges
  <2>11. /\ segments \in SUBSET [start_index : 0..(n - 1), end_index : 0..(n - 1)]
         /\ \A s, t \in segments : s = t \/ s.end_index < t.start_index \/ t.end_index < s.start_index
         /\ \A s \in segments : s.start_index <= s.end_index
         /\ \E s \in segments : s.end_index = n - 1 /\ \A t \in segments : t.start_index <= s.start_index
    BY <2>3, <2>9, <2>10, IntervalsPartition
  <2>12. last_time' = buffer[n] % TimeMax
    <3>1. PICK s \in segments : s.end_index = n - 1 /\ \A t \in segments : t.start_index <= s.start_index
      BY <2>11
    <3>2. PICK t \in segments : /\ \A u \in segments : u.start_index <= t.start_index
                                /\ last_time' = times[t.end_index + 1]
      BY <2>8
    <3>3. /\ s.start_index \in Int /\ t.start_index \in Int /\ s.end_index \in Int /\ t.end_index \in Int
          /\ s.start_index <= s.end_index /\ t.start_index <= t.end_index
      BY <2>11
    <3>4. s.start_index = t.start_index
      <4>1. s.start_index <= t.start_index /\ t.start_index <= s.start_index
        BY <3>1, <3>2
      <4> QED
        BY <3>3, <4>1
    <3>5. s = t
      BY <2>11, <3>3, <3>4
    <3>6. (n - 1) + 1 = n /\ n \in 1..n
      BY <2>3
    <3>7. last_time' = times[n]
      BY <3>1, <3>2, <3>5, <3>6
    <3> QED
      BY <3>6, <3>7 DEF times, n, DeviceTimes
  <2>13. EndFed(buffer, changes)
    BY <2>8, <2>9, <2>10, <2>12 DEF EndFed, FedOf, times, n
  <2> QED
    BY <2>13 DEF buffer
<1>5. ASSUME ~Calculated(Total)
      PROVE  produced' = {} /\ last_time' = last_time
  BY <1>1, <1>3, <1>5
<1> QED
  BY <1>4, <1>5

(* What the emeters sent is kept when the signed values are calculated.    *)
LEMMA EndOfPacketKeeps == PipelineIInv /\ endOfPacket => PipelineIInv'
<1> SUFFICES ASSUME PipelineIInv, endOfPacket PROVE PipelineIInv'
  OBVIOUS
<1> DEFINE serial == packet[1].serial
<1>1. /\ packet # << >> /\ packet' = << >> /\ packet[1].rest = << >>
      /\ UNCHANGED <<states, clock, decided, began, latest, late, received>>
  BY DEF endOfPacket
<1>2. ClockInv' /\ PacketInv' /\ StartInv' /\ DecidedInv'
  <2>1. received # 0
    BY <1>1 DEF PipelineIInv, StartInv
  <2> QED
    BY <1>1, <2>1 DEF PipelineIInv, ClockInv, PacketInv, StartInv, DecidedInv
<1>3. TimersInv'
  BY <1>1 DEF PipelineIInv, TimersInv, AllFit, EpochOf
<1>4. produced = {}
  BY <1>1 DEF PipelineIInv, PacketInv
<1>5. ASSUME DOMAIN filterMap' = DOMAIN filterMap
      PROVE  PaceInv'
  BY <1>1, <1>5 DEF PipelineIInv, PaceInv, TimerPaced, NumericOnly
<1>6. ASSUME DOMAIN filterMap' = DOMAIN filterMap,
             \A k \in DOMAIN filterMap \ SignedKeys : filterMap'[k] = filterMap[k]
      PROVE  BuffersInv' /\ PowersInv'
  <2>1. BuffersInv'
    BY <1>1, <1>6 DEF PipelineIInv, BuffersInv
  <2>2. \A p \in Phases : Calculated(p) => filterMap[Positive(p)] = filterMap[Negative(p)]
    <3>1. CASE serial \in Emeters
      BY <1>1, <3>1, EndHasPowers
    <3>2. CASE serial \notin Emeters
      BY <3>2, PowersAgree DEF InWork, PipelineIInv
    <3> QED
      BY <3>1, <3>2
  <2>3. (\A p \in Phases : Calculated(p) => filterMap[Positive(p)] = filterMap[Negative(p)])'
    <3> SUFFICES ASSUME NEW p \in Phases, Calculated(p)'
                 PROVE  filterMap'[Positive(p)] = filterMap'[Negative(p)]
      OBVIOUS
    <3>1. Calculated(p)
      BY <1>6 DEF Calculated
    <3>2. {Positive(p), Negative(p)} \subseteq DOMAIN filterMap \ SignedKeys
      BY <3>1 DEF Calculated, SignedKeys, Positive, Negative, Signed
    <3> QED
      BY <1>6, <2>2, <3>1, <3>2
  <2>4. ~InWork(Emeters)'
    BY <1>1 DEF InWork
  <2> QED
    BY <2>1, <2>3, <2>4, PowersAgreePrimed
<1>7. CASE ~PassesEnd(serial)
  <2>1. UNCHANGED <<filterMap, speedwireMap, last_time, produced>>
    BY <1>7 DEF endOfPacket
  <2>2. MapInv' /\ SignedInv' /\ TypesInv' /\ HouseholdMatched'
    BY <1>1, <1>4, <2>1, NothingToMatch DEF PipelineIInv, MapInv, SignedInv, TypesInv, Calculated
  <2> QED
    BY <1>2, <1>3, <1>5, <1>6, <2>1, <2>2 DEF PipelineIInv
<1>8. CASE PassesEnd(serial) /\ serial \in Emeters
  <2>1. endOfObisData
    BY <1>8 DEF endOfPacket
  <2>2. speedwireMap' = speedwireMap
    BY <2>1 DEF endOfObisData
  <2>3. /\ DOMAIN filterMap' = DOMAIN filterMap
        /\ \A k \in DOMAIN filterMap :
               (\A p \in Phases : Calculated(p) => k # Signed(p)) => filterMap'[k] = filterMap[k]
        /\ \A p \in Phases : Calculated(p) =>
               filterMap'[Signed(p)] = PairsUpto(filterMap[Positive(p)], Len(filterMap[Positive(p)]))
    BY <1>1, <1>8, <2>1, EndCalculates
  <2>4. \A k \in DOMAIN filterMap \ SignedKeys : filterMap'[k] = filterMap[k]
    BY <2>3 DEF SignedKeys
  <2>5. SignedInv'
    <3> SUFFICES ASSUME NEW p \in Phases, Signed(p) \in DOMAIN filterMap'
                 PROVE  \/ filterMap'[Signed(p)] = << >>
                        \/ Calculated(p)' /\ Len(filterMap'[Signed(p)]) <= MaxElements
      BY DEF SignedInv
    <3>1. CASE Calculated(p)
      <4> DEFINE buffer == filterMap[Positive(p)]
      <4>1. IsHistory(buffer, clock) /\ clock \in Nat
        BY <1>1, <1>8, <3>1, EndHasPowers DEF PipelineIInv, ClockInv, Epochs
      <4>2. filterMap'[Signed(p)] = PairsUpto(buffer, Len(buffer))
        BY <2>3, <3>1
      <4> HIDE DEF buffer
      <4>3. Len(filterMap'[Signed(p)]) <= MaxElements
        BY <4>1, <4>2, PairsFacts DEF IsHistory
      <4> QED
        BY <2>3, <3>1, <4>3 DEF Calculated
    <3>2. CASE ~Calculated(p)
      <4>1. \A q \in Phases : Calculated(q) => Signed(p) # Signed(q)
        BY <3>2 DEF Signed
      <4>2. filterMap'[Signed(p)] = filterMap[Signed(p)]
        BY <2>3, <4>1
      <4> QED
        BY <2>3, <3>2, <4>2 DEF PipelineIInv, SignedInv
    <3> QED
      BY <3>1, <3>2
  <2>6. TypesInv' /\ Households' = {}
    <3>1. CASE Calculated(Total)
      <4> DEFINE buffer == filterMap[Positive(Total)]
                 n == Len(buffer)
      <4>1. PICK changes : EndFed(buffer, changes)
        BY <1>1, <1>8, <2>1, <3>1, EndFeeds
      <4>2. IsHistory(buffer, clock) /\ buffer # << >>
        BY <1>1, <1>8, <3>1, EndHasPowers, PacketAssumption
      <4> HIDE DEF buffer
      <4>3. n \in 1..n /\ \A i \in 1..n : buffer[i] \in 0..clock
        <5>1. buffer \in Seq(0..clock)
          BY <4>2 DEF IsHistory
        <5>2. n \in Nat /\ n # 0
          BY <4>2, <5>1, LenProperties, EmptySeq
        <5>3. \A i \in 1..Len(buffer) : buffer[i] \in 0..clock
          BY <5>1, ElementOfSeq
        <5> HIDE DEF n
        <5>4. n \in 1..n
          BY <5>2
        <5> QED
          BY <5>3, <5>4 DEF n
      <4>4. \A x \in 0..clock : x % TimeMax \in Times
        <5>1. \A x \in Int : x % TimeMax \in 0..(TimeMax - 1)
          BY TimeAssumption, Division
        <5> QED
          BY <5>1 DEF Times
      <4>5. TypesInv'
        BY <1>1, <4>1, <4>3, <4>4 DEF EndFed, TypesInv, PipelineIInv
      <4>6. \A times, segment, last : \A f \in Fed(times, segment, last) : DOMAIN f = {"from", "to"}
        BY DEF Fed
      <4>7. \A f \in produced' : DOMAIN f = {"from", "to"}
        BY <4>1, <4>6 DEF EndFed, FedOf
      <4> QED
        BY <4>5, <4>7 DEF Households
    <3>2. CASE ~Calculated(Total)
      <4>1. produced' = {} /\ last_time' = last_time
        BY <1>1, <1>8, <2>1, <3>2, EndFeeds
      <4> QED
        BY <1>1, <4>1 DEF PipelineIInv, TypesInv, Households
    <3> QED
      BY <3>1, <3>2
  <2>7. HouseholdMatched'
    BY <2>6 DEF HouseholdMatched, HouseholdAligned, HouseholdFresh
  <2>8. MapInv'
    BY <1>1, <2>2 DEF PipelineIInv, MapInv
  <2> QED
    BY <1>2, <1>3, <1>5, <1>6, <2>3, <2>4, <2>5, <2>6, <2>7, <2>8 DEF PipelineIInv
<1>9. CASE PassesEnd(serial) /\ serial \notin Emeters
  <2>1. endOfSpeedwireData(serial \in Batteries, clock)
    BY <1>9 DEF endOfPacket
  <2>2. UNCHANGED <<filterMap, speedwireMap, last_time>>
    BY <2>1 DEF endOfSpeedwireData
  <2>3. HouseholdMatched'
    <3>1. (serial \in Batteries) \in BOOLEAN
      OBVIOUS
    <3> QED
      BY <1>1, <2>1, <3>1, HouseholdCalculated DEF PipelineIInv
  <2>4. MapInv' /\ SignedInv' /\ TypesInv'
    BY <1>1, <2>2 DEF PipelineIInv, MapInv, SignedInv, TypesInv, Calculated
  <2> QED
    BY <1>2, <1>3, <1>5, <1>6, <2>2, <2>3, <2>4 DEF PipelineIInv
<1> QED
  BY <1>7, <1>8, <1>9

(* Nor does a step of something else change anything.                      *)
LEMMA StutterKeeps == PipelineIInv /\ UNCHANGED pipelineVars => PipelineIInv'
<1> SUFFICES ASSUME PipelineIInv, UNCHANGED pipelineVars PROVE PipelineIInv'
  OBVIOUS
<1>1. ClockInv' /\ MapInv' /\ BuffersInv' /\ SignedInv' /\ TypesInv'
  BY DEF pipelineVars, PipelineIInv, ClockInv, MapInv, BuffersInv, SignedInv, TypesInv, Calculated
<1>2. PacketInv' /\ PowersInv' /\ StartInv'
  BY DEF pipelineVars, PipelineIInv, PacketInv, PowersInv, Completed, Missing, InWork, Calculated, StartInv
<1>3. TimersInv' /\ PaceInv' /\ DecidedInv'
  BY DEF pipelineVars, PipelineIInv, TimersInv, AllFit, EpochOf, PaceInv, TimerPaced, NumericOnly, DecidedInv
<1>4. HouseholdMatched'
  BY DEF pipelineVars, PipelineIInv, HouseholdMatched, HouseholdAligned, HouseholdFresh, Households
<1> QED
  BY <1>1, <1>2, <1>3, <1>4 DEF PipelineIInv

-----------------------------------------------------------------------------
(***************************************************************************)
(* Theorems.                                                               *)
(***************************************************************************)
LEMMA PipelineInvariant == PipelineSpec => []PipelineIInv
<1>1. PipelineIInv /\ [PipelineNext]_pipelineVars => PipelineIInv'
  BY TickKeeps, ConfigureKeeps, ReceiveEmeterKeeps, ReceiveReplyKeeps, ConsumeObisKeeps,
     ConsumeSpeedwireKeeps, EndOfPacketKeeps, StutterKeeps DEF PipelineNext
<1> QED
  BY <1>1, InitHolds, PTL DEF PipelineSpec

(* A device time within half a turn of the current time is expanded to the *)
(* epoch time that it is the lower word of, across every turn over, and    *)
(* an emeter time becomes the inverter time of its second (expandTimeTo64  *)
(* and the conversions that call it).                                      *)
THEOREM TimesExpandToNearest == PipelineSpec => []ExpandsToNearest
<1>1. PipelineIInv => ExpandsToNearest
  BY ExpandsAtAnyTime DEF PipelineIInv
<1> QED
  BY <1>1, PipelineInvariant, PTL

(* The averaging timer of a device keeps the pace of its clock, through    *)
(* lost and repeated packets and turn overs, unless the device was silent  *)
(* for a whole turn over (AveragingProcessor::process).                    *)
THEOREM TimersKeepPace == PipelineSpec => []PaceKept
<1>1. PipelineIInv => PaceKept
  BY DEF PipelineIInv, PaceInv, TimerPaced, PaceKept
<1> QED
  BY <1>1, PipelineInvariant, PTL

(* All elements of a packet and its end share one averaging decision, so   *)
(* that consumers get packets as a whole or not at all.                    *)
THEOREM PacketsPassAsAWhole == PipelineSpec => []BlocksWhole
<1>1. PipelineIInv => BlocksWhole
  <2> SUFFICES ASSUME PipelineIInv, packet # << >>, NumericOnly, NEW d \in decided
               PROVE  d = PassesEnd(packet[1].serial)
    BY DEF BlocksWhole
  <2> DEFINE serial == packet[1].serial
             reached == states[serial].averagingTimeReached
  <2>1. serial \in DOMAIN states /\ d = reached
    BY DEF PipelineIInv, DecidedInv
  <2>2. reached \in BOOLEAN
    BY <2>1 DEF PipelineIInv, TimersInv, AllFit, Fits, AveragingState
  <2>3. PassesEnd(serial) = reached
    <3> HIDE DEF reached
    <3>1. PassesEnd(serial) = (serial \in DOMAIN states /\ reached)
      BY DEF PassesEnd, reached
    <3> QED
      BY <2>1, <2>2, <3>1, Zenon
  <2> QED
    BY <2>1, <2>3
<1> QED
  BY <1>1, PipelineInvariant, PTL

(* The power of the household is calculated from values of one time and of *)
(* the present (endOfSpeedwireData).                                       *)
THEOREM HouseholdFromOneTime == PipelineSpec => []HouseholdMatched
<1>1. PipelineIInv => HouseholdMatched
  BY DEF PipelineIInv
<1> QED
  BY <1>1, PipelineInvariant, PTL

(* Buffers, timers and maps are consistent in every state: no buffer, also *)
(* not that of a calculated value, is longer than its ring, all timers and *)
(* last_time are times, and less than one averaging time is left over.     *)
THEOREM PipelineStaysConsistent == PipelineSpec => []PipelineConsistent
<1>1. PipelineIInv => PipelineConsistent
  <2> SUFFICES ASSUME PipelineIInv PROVE PipelineConsistent
    OBVIOUS
  <2>1. AveragingTypeOK /\ RemainderSmall
    BY DEF PipelineIInv, TimersInv, AllFit, Fits, AveragingState, AveragingTypeOK, RemainderSmall
  <2>2. DOMAIN filterMap \subseteq ObisKeys
    BY DEF PipelineIInv, BuffersInv
  <2>3. ASSUME NEW k \in DOMAIN filterMap
        PROVE  Len(filterMap[k]) <= MaxElements
    <3>1. CASE k \notin SignedKeys
      BY <3>1 DEF PipelineIInv, BuffersInv, IsHistory
    <3>2. ASSUME NEW p \in Phases, k = Signed(p)
          PROVE  Len(filterMap[k]) <= MaxElements
      <4>1. Len(<< >>) = 0 /\ MaxElements \in Nat
        BY EmptySeq, FilterAssumption DEF MaxElements
      <4> QED
        BY <3>2, <4>1 DEF PipelineIInv, SignedInv
    <3> QED
      BY <3>1, <3>2 DEF SignedKeys
  <2>4. \A k \in DOMAIN speedwireMap : speedwireMap[k] \in Int
    <3>1. clock \div MsPerSecond \in Nat
      BY SecondIsTime DEF PipelineIInv
    <3>2. {-1} \cup 0..(clock \div MsPerSecond) \subseteq Int
      BY <3>1
    <3> QED
      BY <3>2 DEF PipelineIInv, MapInv
  <2>5. last_time \in Times /\ decided \subseteq BOOLEAN
    BY DEF PipelineIInv, TypesInv
  <2>6. packet # << >> => packet[1].serial \in Devices
    BY DEF PipelineIInv, PacketInv
  <2> QED
    BY <2>1, <2>2, <2>3, <2>4, <2>5, <2>6 DEF PipelineConsistent, PipelineTypeOK
<1> QED
  BY <1>1, PipelineInvariant, PTL

(* At the end of an emeter's packet the signed values of each phase are    *)
(* those of all measurements in the buffers, positive and negative of one  *)
(* packet, and there is at least one (endOfObisData, calculateValueDiffs). *)
THEOREM SignedStayComplete == PipelineSpec => SignedComplete
<1>1. PipelineIInv /\ endOfPacket /\ InWork(Emeters) /\ PassesEnd(packet[1].serial) =>
          \A p \in Phases : Calculated(p) =>
             LET pos == filterMap[Positive(p)]
                 neg == filterMap[Negative(p)]
             IN  /\ filterMap[Signed(p)]' = [i \in DOMAIN pos |-> <<pos[i], neg[i]>>]
                 /\ pos = neg /\ pos # << >>
  <2> SUFFICES ASSUME PipelineIInv, endOfPacket, InWork(Emeters), PassesEnd(packet[1].serial),
                      NEW p \in Phases, Calculated(p)
               PROVE  LET pos == filterMap[Positive(p)]
                          neg == filterMap[Negative(p)]
                      IN  /\ filterMap'[Signed(p)] = [i \in DOMAIN pos |-> <<pos[i], neg[i]>>]
                          /\ pos = neg /\ pos # << >>
    BY DEF Signed
  <2> DEFINE pos == filterMap[Positive(p)]
             neg == filterMap[Negative(p)]
  <2>1. packet # << >> /\ packet[1].serial \in Emeters /\ packet[1].rest = << >> /\ endOfObisData
    BY DEF endOfPacket, InWork
  <2>2. pos = neg /\ pos # << >> /\ IsHistory(pos, clock)
    BY <2>1, EndHasPowers
  <2>3. filterMap'[Signed(p)] = PairsUpto(pos, Len(pos))
    BY <2>1, EndCalculates
  <2> HIDE DEF pos, neg
  <2>4. DOMAIN pos = 1..Len(pos)
    BY <2>2, LenProperties DEF IsHistory
  <2> QED
    BY <2>2, <2>3, <2>4 DEF PairsUpto, pos, neg
<1> QED
  BY <1>1, PipelineInvariant, PTL DEF PipelineSpec, SignedComplete

(* The segments fed at the end of an emeter's packet cover every           *)
(* measurement newer than last_time once, and no older one, whatever the   *)
(* segmentation was, and last_time moves on to the newest measurement.     *)
THEOREM FeedingCoversOnce == PipelineSpec => FeedCoversOnce
<1> DEFINE sig == IF Signed(Total) \in DOMAIN filterMap' THEN filterMap[Signed(Total)]' ELSE << >>
           New == {i \in DOMAIN sig : calculateTimeDifference(sig[i][1] % TimeMax, last_time) > 0}
<1>1. PipelineIInv /\ endOfPacket /\ InWork(Emeters) /\ PassesEnd(packet[1].serial) /\ sig # << >> =>
         /\ last_time' = sig[Len(sig)][1] % TimeMax
         /\ Len(sig) \in New /\ sig[Len(sig)][1] - sig[1][1] < Half =>
              /\ UNION {s.from..s.to : s \in produced'} = New
              /\ \A s, t \in produced' : s = t \/ s.to < t.from \/ t.to < s.from
  <2> SUFFICES ASSUME PipelineIInv, endOfPacket, InWork(Emeters), PassesEnd(packet[1].serial), sig # << >>
               PROVE  /\ last_time' = sig[Len(sig)][1] % TimeMax
                      /\ Len(sig) \in New /\ sig[Len(sig)][1] - sig[1][1] < Half =>
                           /\ UNION {s.from..s.to : s \in produced'} = New
                           /\ \A s, t \in produced' : s = t \/ s.to < t.from \/ t.to < s.from
    OBVIOUS
  <2> DEFINE buffer == filterMap[Positive(Total)]
             n == Len(buffer)
             times == DeviceTimes(buffer)
  <2>1. packet # << >> /\ packet[1].serial \in Emeters /\ packet[1].rest = << >> /\ endOfObisData
    BY DEF endOfPacket, InWork
  <2>2. Total \in Phases /\ Signed(Total) \in DOMAIN filterMap' /\ sig = filterMap'[Signed(Total)]
    BY PacketAssumption DEF Signed
  <2>3. Calculated(Total)
    <3>1. DOMAIN filterMap' = DOMAIN filterMap
      BY <2>1, EndCalculates
    <3>2. SignedInv'
      BY EndOfPacketKeeps DEF PipelineIInv
    <3>3. Calculated(Total)'
      BY <2>2, <3>2 DEF SignedInv
    <3> QED
      BY <3>1, <3>3 DEF Calculated
  <2>4. IsHistory(buffer, clock) /\ buffer # << >> /\ clock \in Nat
    BY <2>1, <2>2, <2>3, EndHasPowers DEF PipelineIInv, ClockInv, Epochs
  <2>5. sig = PairsUpto(buffer, n)
    BY <2>1, <2>2, <2>3, EndCalculates
  <2>6. PICK changes : EndFed(buffer, changes)
    BY <2>1, <2>3, EndFeeds
  <2> HIDE DEF buffer, sig
  <2>7. /\ Len(sig) = n /\ DOMAIN sig = 1..n
        /\ \A i \in 1..n : sig[i][1] = buffer[i]
    BY <2>4, <2>5, PairsFacts
  <2>8. /\ n \in Nat \ {0} /\ n \in 1..n /\ 1 \in 1..n
        /\ \A i \in 1..n : buffer[i] \in 0..clock
        /\ \A i, j \in 1..n : i <= j => buffer[i] <= buffer[j]
    BY <2>4, LenProperties, EmptySeq, ElementOfSeq DEF IsHistory
  <2>9. Len(times) = n /\ \A i \in 1..n : times[i] = buffer[i] % TimeMax
    BY <2>4, DeviceTimesFacts
  <2> HIDE DEF n, times
  <2>10. last_time' = sig[Len(sig)][1] % TimeMax
    BY <2>6, <2>7, <2>8 DEF EndFed, n
  <2>11. New = NewOf(times, n, last_time)
    BY <2>7, <2>9 DEF NewOf
  <2>12. ASSUME Len(sig) \in New, sig[Len(sig)][1] - sig[1][1] < Half
         PROVE  /\ UNION {s.from..s.to : s \in produced'} = New
                /\ \A s, t \in produced' : s = t \/ s.to < t.from \/ t.to < s.from
    <3> HIDE DEF New
    <3>1. n \in NewOf(times, n, last_time) /\ buffer[n] - buffer[1] < Half
      BY <2>7, <2>8, <2>11, <2>12
    <3>2. ASSUME NEW i \in 1..n, NEW j \in 1..n, i <= j, i \in NewOf(times, n, last_time)
          PROVE  j \in NewOf(times, n, last_time)
      <4>1. /\ calculateTimeDifference(buffer[i] % TimeMax, last_time) > 0
            /\ calculateTimeDifference(buffer[n] % TimeMax, last_time) > 0
        BY <2>8, <2>9, <3>1, <3>2 DEF NewOf
      <4> DEFINE a == buffer[i]
                 b == buffer[j]
                 c == buffer[n]
      <4>2. /\ a \in Int /\ b \in Int /\ c \in Int /\ buffer[1] \in Int /\ Half \in Int
            /\ i \in 1..n /\ 1 <= i /\ j <= n
        BY <2>8, Words
      <4>3. a <= b /\ b <= c /\ buffer[1] <= a
        <5>1. n \in 1..n /\ 1 \in 1..n /\ j <= n /\ 1 <= i
          BY <2>8, <4>2
        <5> QED
          BY <2>8, <3>2, <5>1
      <4>4. c - a < Half
        BY <3>1, <4>2, <4>3
      <4>5. last_time \in Times
        BY DEF PipelineIInv, TypesInv
      <4> HIDE DEF a, b, c
      <4>6. calculateTimeDifference(b % TimeMax, last_time) > 0
        BY <4>1, <4>2, <4>3, <4>4, <4>5, NewerIsNew DEF a, c
      <4> QED
        BY <2>9, <4>6 DEF NewOf, b
    <3> DEFINE fed == produced'
    <3>3. /\ changes \in SUBSET (0..(n - 2))
          /\ fed = FedOf(times, Intervals(n, changes), last_time)
      BY <2>6 DEF EndFed, n, times
    <3> HIDE DEF fed
    <3> DEFINE last == last_time
    <3>4. /\ n \in Nat \ {0} /\ Len(times) = n /\ n \in NewOf(times, n, last)
          /\ \A i, j \in 1..n : i <= j /\ i \in NewOf(times, n, last) => j \in NewOf(times, n, last)
          /\ changes \in SUBSET (0..(n - 2))
          /\ fed = FedOf(times, Intervals(n, changes), last)
      BY <2>8, <2>9, <3>1, <3>2, <3>3
    <3>5. /\ UNION {f.from..f.to : f \in fed} = NewOf(times, n, last)
          /\ \A f, g \in fed : f = g \/ f.to < g.from \/ g.to < f.from
      <4> HIDE DEF last
      <4> QED
        BY <3>4, FedCovers
    <3> QED
      BY <2>11, <3>5 DEF fed
  <2> QED
    BY <2>10, <2>12
<1> QED
  BY <1>1, PipelineInvariant, PTL DEF PipelineSpec, FeedCoversOnce

(* The chain drives the averaging processor as its specification says: a   *)
(* step is an element of one device with a time of 32 bits, or leaves all  *)
(* timers alone, also at the end of a packet and when filters change. So   *)
(* less than one averaging time is ever left over of every timer.          *)
THEOREM PipelineDrivesTimers == PipelineSpec => AveragingSpec /\ [](AveragingTypeOK /\ RemainderSmall)
<1>1. PipelineInit => InitStates
  BY DEF PipelineInit
<1>2. PipelineIInv /\ [PipelineNext]_pipelineVars =>
          [\E serial \in Devices, time \in Times : process(serial, time)]_states
  <2> SUFFICES ASSUME PipelineIInv, [PipelineNext]_pipelineVars
               PROVE  \/ \E serial \in Devices, time \in Times : process(serial, time)
                      \/ states' = states
    OBVIOUS
  <2>1. InWork(Emeters) \/ InWork(Inverters) => packet[1].serial \in Devices
    BY DEF InWork, Devices
  <2>2. ASSUME consumeObis
        PROVE  \/ \E serial \in Devices, time \in Times : process(serial, time)
               \/ states' = states
    <3>1. InWork(Emeters)
      BY <2>2 DEF consumeObis
    <3>2. CASE Head(packet[1].rest) \in DOMAIN filterMap
      <4>1. process(packet[1].serial, NewestTime(filterMap'[Head(packet[1].rest)]))
        BY <2>2, <3>2 DEF consumeObis, average
      <4>2. NewestTime(filterMap'[Head(packet[1].rest)]) \in Times
        BY <2>2, <3>2, ElementAdded
      <4> QED
        BY <2>1, <3>1, <4>1, <4>2
    <3>3. CASE Head(packet[1].rest) \notin DOMAIN filterMap
      BY <2>2, <3>3 DEF consumeObis
    <3> QED
      BY <3>2, <3>3
  <2>3. ASSUME consumeSpeedwire
        PROVE  \/ \E serial \in Devices, time \in Times : process(serial, time)
               \/ states' = states
    <3>1. InWork(Inverters)
      BY <2>3 DEF consumeSpeedwire
    <3>2. (clock \div MsPerSecond) % TimeMax \in Times
      BY SecondIsTime DEF PipelineIInv
    <3>3. \/ process(packet[1].serial, (clock \div MsPerSecond) % TimeMax)
          \/ states' = states
      BY <2>3 DEF consumeSpeedwire, average
    <3> QED
      BY <2>1, <3>1, <3>2, <3>3
  <2>4. tick \/ configure \/ receiveEmeterPacket \/ receiveReply \/ endOfPacket
            \/ UNCHANGED pipelineVars => states' = states
    BY DEF tick, configure, receiveEmeterPacket, receiveReply, receivePacket, endOfPacket, pipelineVars
  <2> QED
    BY <2>2, <2>3, <2>4 DEF PipelineNext
<1>3. PipelineSpec => AveragingSpec
  BY <1>1, <1>2, PipelineInvariant, PTL DEF PipelineSpec, AveragingSpec
<1> QED
  BY <1>3, AveragingCorrect, PTL

=============================================================================
