--------------------------- MODULE TokenRepository ---------------------------
(***************************************************************************)
(* SpeedwireCommandTokenRepository (src/SpeedwireCommand.cpp): a vector of *)
(* tokens, one per command that was sent, addressed by an index that is    *)
(* counted from 0, as in the code. Token fields:                           *)
(*   addr         susy id and serial number the command was sent to        *)
(*   packetid     packet id of the command                                 *)
(*   ip           ip address the command was sent to                       *)
(*   create_time  low 32 bits of the time in ms when the command was sent  *)
(* and, for the properties only,                                           *)
(*   cid          the number of the command, counted without a wrap around *)
(*   born         the time when it was sent, without a wrap around         *)
(***************************************************************************)
EXTENDS Integers, Sequences

(* Mutant: the absolute difference.                                        *)
MinusAbs(a, b, m) == IF a >= b THEN a - b ELSE b - a

(* Unsigned subtraction of two values in 0 .. m - 1.                       *)
Minus(a, b, m) == IF a >= b THEN a - b ELSE a - b + m

(* Unsigned increment of a value in 0 .. m - 1.                            *)
Succ(a, m) == IF a + 1 = m THEN 0 ELSE a + 1

(* Mutants: a new token is put first; an index behind the last token       *)
(* removes the last one.                                                   *)
addFirst(token, t) == <<t>> \o token

removeClamped(token, index) ==
    [i \in 1..(Len(token) - 1) |-> IF i <= index THEN token[i] ELSE token[i + 1]]

(* add: the new token is the last one; its index is the old size.          *)
add(token, t) == Append(token, t)

(* remove: nothing happens if there is no token at the index.              *)
remove(token, index) ==
    IF index \in 0..(Len(token) - 1)
    THEN [i \in 1..(Len(token) - 1) |-> IF i <= index THEN token[i] ELSE token[i + 1]]
    ELSE token

(* find returns the index of the first token with this address and packet  *)
(* id, if there is one: that token is number i (counted from 1).           *)
IsMatch(t, addr, packetid) == t.addr = addr /\ t.packetid = packetid

Finds(token, addr, packetid, i) ==
    /\ IsMatch(token[i], addr, packetid)
    /\ \A j \in 1..(i - 1) : ~IsMatch(token[j], addr, packetid)

(* expire compares ages in unsigned 32 bit arithmetic.                     *)
IsExpired(t, now, timeout, m) == Minus(now, t.create_time, m) > timeout

=============================================================================
