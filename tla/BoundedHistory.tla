--------------------------- MODULE BoundedHistory ---------------------------
(***************************************************************************)
(* What a RingBuffer promises its users: a history of the most recent      *)
(* values, oldest first, of which at most `limit` are kept. Positions are  *)
(* counted from 0, as ring buffer indices are: position 0 is the oldest    *)
(* value, position length - 1 the newest one.                              *)
(***************************************************************************)
EXTENDS Integers

CONSTANTS Values,      \* the values that can be stored
          Capacities,  \* the capacities users ask for
          Args         \* the offsets and counts users remove with

VARIABLES hist,        \* the values kept, a function on 0 .. length - 1
          length,      \* how many values are kept
          limit        \* the most that may be kept

vars == <<hist, length, limit>>

TypeOK ==
    /\ length \in Nat
    /\ limit \in Nat
    /\ length <= limit
    /\ hist \in [0..(length - 1) -> Values]

Init ==
    /\ length = 0
    /\ limit \in Capacities
    /\ hist = [i \in 0..(length - 1) |-> 0]

(* The new value becomes the newest one; when the history is full, the     *)
(* oldest value makes room. A history with limit 0 is given room for one.  *)
Add(v) ==
    /\ limit' = IF limit = 0 THEN 1 ELSE limit
    /\ IF length < limit'
       THEN /\ length' = length + 1
            /\ hist' = [i \in 0..length |-> IF i = length THEN v ELSE hist[i]]
       ELSE /\ length' = length
            /\ hist' = [i \in 0..(length - 1) |->
                            IF i = length - 1 THEN v ELSE hist[i + 1]]

(* The first head values of a history, then those from position start on,  *)
(* len values together.                                                    *)
Cut(h, head, start, len) ==
    [i \in 0..(len - 1) |-> IF i < head THEN h[i] ELSE h[start + (i - head)]]

(* The values at positions offs .. offs + n - 1 disappear, as far as they  *)
(* exist; the others keep their order.                                     *)
KeptBefore(offs) == IF offs < length THEN offs ELSE length
KeptBehind(start) == IF start < length THEN length - start ELSE 0

Remove(offs, n) ==
    /\ length' = KeptBefore(offs) + KeptBehind(offs + n)
    /\ hist' = Cut(hist, KeptBefore(offs), offs + n, length')
    /\ UNCHANGED limit

Clear ==
    /\ length' = 0
    /\ hist' = [i \in 0..(length' - 1) |-> 0]
    /\ UNCHANGED limit

(* Asking for a capacity empties the history; the limit never shrinks.     *)
Resize(n) ==
    /\ length' = 0
    /\ hist' = [i \in 0..(length' - 1) |-> 0]
    /\ limit' = IF n > limit THEN n ELSE limit

(* A copy of an empty history is empty, and has not been given room.       *)
CopyOfEmpty ==
    /\ length = 0
    /\ length' = 0
    /\ hist' = hist
    /\ limit' = 0

Next ==
    \/ \E v \in Values : Add(v)
    \/ \E offs, n \in Args : Remove(offs, n)
    \/ Clear
    \/ \E n \in Capacities : Resize(n)
    \/ CopyOfEmpty

Spec == Init /\ [][Next]_vars

=============================================================================
