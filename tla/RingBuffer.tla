----------------------------- MODULE RingBuffer -----------------------------
(***************************************************************************)
(* RingBuffer<T> (include/RingBuffer.hpp). The buffer is a std::vector     *)
(* whose capacity() doubles as the maximum number of elements, a write     *)
(* pointer, and a second vector, ref_vector, of pointers into the first:   *)
(* entries 0 .. 2*size-1 point to the elements twice over, so that at()    *)
(* reads `size` consecutive elements without a wrap around.                *)
(*                                                                         *)
(* A pointer is modelled as the allocation it points into and an index.    *)
(* The allocation of an object is identified by its capacity, because      *)
(* std::vector reallocates only to grow. NULL and pointers into another    *)
(* object have allocation -1.                                              *)
(***************************************************************************)
EXTENDS Integers

CONSTANTS Values,      \* the element values
          Garbage,     \* what a read through a bad pointer yields
          Capacities,  \* the capacities callers ask for
          Args,        \* the offsets and counts callers remove with
          SizeMax      \* 2^w for a size_t of w bits

ASSUME GarbageAssumption == Garbage \notin Values
ASSUME CapacitiesAssumption == Capacities \subseteq Nat
ASSUME ArgsAssumption == Args \subseteq Nat
(* A vector's capacity is far below half the range of size_t.              *)
ASSUME SizeMaxAssumption ==
    /\ SizeMax \in Nat
    /\ 4 <= SizeMax
    /\ \A c \in Capacities : 2 * c < SizeMax

VARIABLES data_vector,    \* the elements, a function on 0 .. size - 1
          size,           \* data_vector.size()
          capacity,       \* data_vector.capacity()
          ref_vector,     \* the pointers, a function on 0 .. ref_size - 1
          ref_size,       \* ref_vector.size()
          write_pointer   \* index of the next element to write

vars == <<data_vector, size, capacity, ref_vector, ref_size, write_pointer>>

NullPtr == [alloc |-> -1, idx |-> 0]
Pointer == [alloc : Int, idx : Nat]

(* size_t addition and subtraction of operands in 0 .. SizeMax - 1.        *)
Wrap(x) == IF x < 0 THEN x + SizeMax ELSE IF x >= SizeMax THEN x - SizeMax ELSE x

OutOfBounds == SizeMax - 1    \* (size_t)-1

Empty == [i \in 0..-1 |-> 0]

(***************************************************************************)
(* Reading.                                                                *)
(***************************************************************************)
getDataVectorIndex(i) ==
    IF i < size
    THEN IF Wrap(write_pointer + i) >= size
         THEN Wrap(Wrap(write_pointer + i) - size)
         ELSE Wrap(write_pointer + i)
    ELSE OutOfBounds

getRingBufferIndex(d) ==
    IF d < size
    THEN IF Wrap(d - write_pointer) >= size
         THEN Wrap(Wrap(d - write_pointer) + size)
         ELSE Wrap(d - write_pointer)
    ELSE OutOfBounds

(* operator[]; Garbage stands for the static out of bounds element here.   *)
Index(i) ==
    LET d == getDataVectorIndex(i)
    IN  IF d # OutOfBounds THEN data_vector[d] ELSE Garbage

(* at() dereferences without a check.                                      *)
at(i) ==
    LET k == write_pointer + i
    IN  IF /\ k < ref_size
           /\ ref_vector[k].alloc = capacity
           /\ ref_vector[k].idx < size
        THEN data_vector[ref_vector[k].idx]
        ELSE Garbage

getNewestElement == Index(Wrap(size - 1))
getOldestElement == Index(0)

(* Mutants: the second round of pointers is missing; the pointers are      *)
(* taken before the vector reallocates.                                    *)
RefsToOnce(n, alloc, len) ==
    [k \in 0..(len - 1) |->
        IF k < n THEN [alloc |-> alloc, idx |-> k]
        ELSE IF k < ref_size THEN ref_vector[k] ELSE NullPtr]

RefsToStale(n, alloc, len) ==
    [k \in 0..(len - 1) |->
        IF k < 2 * n THEN [alloc |-> capacity, idx |-> IF k < n THEN k ELSE k - n]
        ELSE NullPtr]

(***************************************************************************)
(* The pointers to the first n elements of an allocation, twice over, in   *)
(* a ref_vector that has len entries; entries behind them are as before.   *)
(***************************************************************************)
RefsTo(n, alloc, len) ==
    [k \in 0..(len - 1) |->
        IF k < n THEN [alloc |-> alloc, idx |-> k]
        ELSE IF k < 2 * n THEN [alloc |-> alloc, idx |-> k - n]
        ELSE IF k < ref_size THEN ref_vector[k]
        ELSE NullPtr]

(* std::vector::push_back on a vector of n elements grows a full one to    *)
(* twice its size.                                                         *)
PushBackCapacity(n) ==
    IF n < capacity THEN capacity ELSE IF n = 0 THEN 1 ELSE 2 * n

(***************************************************************************)
(* The operations.                                                         *)
(***************************************************************************)
Init ==
    /\ capacity \in Capacities
    /\ size = 0
    /\ data_vector = Empty
    /\ ref_size = 2 * capacity
    /\ ref_vector = [k \in 0..(ref_size - 1) |-> NullPtr]
    /\ write_pointer = 0

(* Mutant: the write pointer turns over at size() instead of capacity().   *)
AdvanceWritePointerAtSize(cap) ==
    write_pointer' = IF write_pointer + 1 >= size THEN 0 ELSE write_pointer + 1

AdvanceWritePointer(cap) ==
    write_pointer' = IF write_pointer + 1 >= cap THEN 0 ELSE write_pointer + 1

addNewElement(v) ==
    /\ IF size > write_pointer
       THEN /\ data_vector' = [data_vector EXCEPT ![write_pointer] = v]
            /\ UNCHANGED <<size, capacity, ref_vector, ref_size>>
       ELSE /\ size' = size + 1
            /\ capacity' = PushBackCapacity(size)
            /\ data_vector' = [i \in 0..size |-> IF i = size THEN v ELSE data_vector[i]]
            /\ ref_size' = 2 * (size + 1)
            /\ ref_vector' = RefsTo(size + 1, capacity', ref_size')
    /\ AdvanceWritePointer(capacity')

clear ==
    /\ size' = 0
    /\ data_vector' = Empty
    /\ write_pointer' = 0
    /\ UNCHANGED <<capacity, ref_vector, ref_size>>

setMaximumNumberOfElements(n) ==
    /\ size' = 0
    /\ data_vector' = Empty
    /\ write_pointer' = 0
    /\ capacity' = IF n > capacity THEN n ELSE capacity
    /\ UNCHANGED <<ref_vector, ref_size>>

(* The elements before offs and those from offs + n on, where the sum is a *)
(* size_t, are collected with at() and pushed back into the emptied vector.*)
(* Pointers are written without a look at ref_vector.size().               *)
removeElements(offs, n) ==
    LET head  == IF offs < size THEN offs ELSE size
        start == Wrap(offs + n)
        tail  == IF start < size THEN size - start ELSE 0
        temp  == head + tail
    IN  /\ size' = temp
        /\ data_vector' = [i \in 0..(temp - 1) |->
                              IF i < head THEN at(i) ELSE at(start + (i - head))]
        /\ capacity' = IF temp <= capacity THEN capacity ELSE 2 * capacity
        /\ write_pointer' = IF temp >= capacity' THEN 0 ELSE temp
        /\ ref_vector' = RefsTo(temp, capacity', ref_size)
        /\ UNCHANGED ref_size

(* ObisFilter::addFilter copies a filter definition, whose ring buffer is  *)
(* empty. The copy of an empty vector has capacity 0; the copied pointers  *)
(* still point into the original.                                          *)
copyOfEmpty ==
    /\ size = 0
    /\ capacity' = 0
    /\ ref_vector' = [k \in 0..(ref_size - 1) |-> NullPtr]
    /\ UNCHANGED <<size, data_vector, ref_size, write_pointer>>

(* Callers keep offs + n within size_t.                                    *)
Next ==
    \/ \E v \in Values : addNewElement(v)
    \/ \E offs, n \in Args : offs + n < SizeMax /\ removeElements(offs, n)
    \/ clear
    \/ \E n \in Capacities : setMaximumNumberOfElements(n)
    \/ copyOfEmpty

Spec == Init /\ [][Next]_vars

-----------------------------------------------------------------------------
(***************************************************************************)
(* Properties.                                                             *)
(***************************************************************************)

(* Every variable has its type, and the elements fit the capacity.         *)
TypeOK ==
    /\ size \in Nat
    /\ capacity \in Nat
    /\ ref_size \in Nat
    /\ write_pointer \in Nat
    /\ size <= capacity
    /\ data_vector \in [0..(size - 1) -> Values]
    /\ ref_vector \in [0..(ref_size - 1) -> Pointer]

(* Outside of the wrap around the write pointer stands behind the last     *)
(* element; it may only be inside of a full buffer. addNewElement,         *)
(* removeElements and the two index conversions all rest on it.            *)
WritePointerFits ==
    \/ write_pointer = size /\ size < capacity
    \/ write_pointer < capacity /\ size = capacity
    \/ write_pointer = 0 /\ size = 0 /\ capacity = 0

(* The first 2 * size pointers lead to the elements, twice over, whatever  *)
(* reallocations, removals and copies happened before.                     *)
RefsFit ==
    /\ 2 * size <= ref_size
    /\ \A k \in 0..(2 * size - 1) :
          ref_vector[k] = [alloc |-> capacity, idx |-> IF k < size THEN k ELSE k - size]

(* The buffer is consistent: in type, in the place of its write pointer    *)
(* and in its element pointers; reading without a check and the decision   *)
(* whether to grow or to overwrite rest on all three.                      *)
BufferConsistent == TypeOK /\ WritePointerFits /\ RefsFit

(* The unchecked at(i) and the checked operator[](i) return the same       *)
(* element for every valid index, so no stale pointer is ever followed;    *)
(* the oldest and the newest element are the ends, and an empty buffer     *)
(* yields the out of bounds element for both.                              *)
AtAgreesWithIndex ==
    /\ \A i \in 0..(size - 1) : at(i) = Index(i) /\ at(i) # Garbage
    /\ getOldestElement = IF size = 0 THEN Garbage ELSE at(0)
    /\ getNewestElement = IF size = 0 THEN Garbage ELSE at(size - 1)

(* getRingBufferIndex and getDataVectorIndex are inverse to each other on  *)
(* valid indices, through the modulo arithmetic of size_t.                 *)
IndexConversionsInverse ==
    \A i \in 0..(size - 1) :
        /\ getDataVectorIndex(i) \in 0..(size - 1)
        /\ getRingBufferIndex(getDataVectorIndex(i)) = i
        /\ getDataVectorIndex(getRingBufferIndex(i)) = i

(* The buffer is a bounded history: reading it from index 0 on gives the   *)
(* most recent values, oldest first, through overwriting, removal in the   *)
(* middle, clearing and resizing.                                          *)
History == INSTANCE BoundedHistory WITH
    hist   <- [i \in 0..(size - 1) |-> Index(i)],
    length <- size,
    limit  <- capacity

ImplementsHistory == History!Spec

=============================================================================
