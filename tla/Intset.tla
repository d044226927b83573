------------------------------- MODULE Intset -------------------------------
(***************************************************************************)
(* intset.c: the sorted array of integers behind small sets.  All members  *)
(* are stored with one width, that of the widest member there has been; a  *)
(* wider one makes every member move, in place.  The memory is modelled    *)
(* cell by cell: a cell is sizeof(int16_t) bytes, a digit in base CellBase, *)
(* and a member of encoding e takes e cells, low digit first, in two's     *)
(* complement.  A realloc that grows the array leaves the new cells with   *)
(* any content.                                                            *)
(***************************************************************************)
EXTENDS Integers, Sequences, FiniteSets

CONSTANTS CellBase,   \* 2^16: the values of a cell
          IntValues   \* the integers added and removed

VARIABLES is, isWant

isVars == <<is, isWant>>

Enc16 == 1
Enc32 == 2
Enc64 == 4

Fits(v, enc) == -(CellBase^enc) <= 2 * v /\ 2 * v < CellBase^enc

ValueEncoding(v) == IF ~Fits(v, Enc32) THEN Enc64 ELSE IF ~Fits(v, Enc16) THEN Enc32 ELSE Enc16

GetEncoded(m, pos, enc) ==
    LET digits[k \in 0..enc] ==
          IF k = 0 THEN 0 ELSE digits[k - 1] + m[pos * enc + k] * CellBase^(k - 1)
    IN  IF Fits(digits[enc], enc) THEN digits[enc] ELSE digits[enc] - CellBase^enc

SetEncoded(m, pos, v, enc) ==
    [c \in DOMAIN m |->
        IF c \in pos * enc + 1..pos * enc + enc
        THEN (v \div CellBase^(c - pos * enc - 1)) % CellBase ELSE m[c]]

intsetGet(s, pos) == GetEncoded(s.contents, pos, s.encoding)

intsetSet(s, pos, v) == [s EXCEPT !.contents = SetEncoded(@, pos, v, s.encoding)]

intsetNew == [encoding |-> Enc16, length |-> 0, contents |-> <<>>]

intsetResize(s, len, junk) ==
    [s EXCEPT !.contents = [c \in 1..len * s.encoding |->
                               IF c \in DOMAIN @ THEN @[c] ELSE junk]]

(* Whether a value is there, and its position or the one to insert it at *)
intsetSearch(s, v) ==
    LET bin[min \in Nat, max \in Int] ==
          LET mid == (min + max) \div 2
              cur == intsetGet(s, mid)
          IN  CASE max < min -> [found |-> FALSE, pos |-> min]
                [] max >= min /\ v > cur -> bin[mid + 1, max]
                [] max >= min /\ v < cur -> bin[min, mid - 1]
                [] OTHER -> [found |-> TRUE, pos |-> mid]
    IN  CASE s.length = 0 -> [found |-> FALSE, pos |-> 0]
          [] s.length > 0 /\ v > intsetGet(s, s.length - 1) ->
               [found |-> FALSE, pos |-> s.length]
          [] s.length > 0 /\ v < intsetGet(s, 0) -> [found |-> FALSE, pos |-> 0]
          [] OTHER -> bin[0, s.length - 1]

(* Back to front, so that no member is overwritten before it has moved *)
Widened(s, old, prepend) ==
    LET moved[k \in 0..s.length] ==
          IF k = 0 THEN s
          ELSE LET pos == s.length - k
                   t == moved[k - 1]
               IN  intsetSet(t, pos + prepend, GetEncoded(t.contents, pos, old))
    IN  moved[s.length]

intsetUpgradeAndAdd(s, v, junk) ==
    LET prepend == IF v < 0 THEN 1 ELSE 0
        resized == intsetResize([s EXCEPT !.encoding = ValueEncoding(v)], s.length + 1, junk)
        t == Widened(resized, s.encoding, prepend)
    IN  [intsetSet(t, IF v < 0 THEN 0 ELSE s.length, v) EXCEPT !.length = @ + 1]

(* memmove of the members from `from` on *)
intsetMoveTail(s, from, to) ==
    LET cells == (s.length - from) * s.encoding
        shift == (to - from) * s.encoding
    IN  [s EXCEPT !.contents = [c \in DOMAIN @ |->
            IF c \in to * s.encoding + 1..to * s.encoding + cells THEN @[c - shift] ELSE @[c]]]

intsetAdd(s, v, junk) ==
    LET at == intsetSearch(s, v)
        resized == intsetResize(s, s.length + 1, junk)
        t == IF at.pos < s.length THEN intsetMoveTail(resized, at.pos, at.pos + 1) ELSE resized
    IN  CASE ValueEncoding(v) > s.encoding -> intsetUpgradeAndAdd(s, v, junk)
          [] ValueEncoding(v) <= s.encoding /\ at.found -> s
          [] OTHER -> [intsetSet(t, at.pos, v) EXCEPT !.length = @ + 1]

intsetFind(s, v) == ValueEncoding(v) <= s.encoding /\ intsetSearch(s, v).found

intsetRemove(s, v) ==
    LET pos == intsetSearch(s, v).pos
        t == IF pos < s.length - 1 THEN intsetMoveTail(s, pos + 1, pos) ELSE s
    IN  IF intsetFind(s, v)
        THEN [intsetResize(t, s.length - 1, 0) EXCEPT !.length = @ - 1] ELSE s

----------------------------------------------------------------------------
IsInit ==
    /\ is = intsetNew
    /\ isWant = {}

IsAdd(v) ==
    /\ \E junk \in {0, CellBase - 1} : is' = intsetAdd(is, v, junk)
    /\ isWant' = isWant \cup {v}

IsRemove(v) ==
    /\ is' = intsetRemove(is, v)
    /\ isWant' = isWant \ {v}

IsActs == \E v \in IntValues : IsAdd(v) \/ IsRemove(v)

(* The array holds the members in order, every one found by the search, and *)
(* is as long as they need (intset.c:157-251).                              *)
IntsetHoldsSet ==
    /\ is.length = Cardinality(isWant)
    /\ Len(is.contents) = is.length * is.encoding
    /\ \A pos \in 0..is.length - 1 : intsetGet(is, pos) \in isWant
    /\ \A pos \in 1..is.length - 1 : intsetGet(is, pos - 1) < intsetGet(is, pos)
    /\ \A v \in IntValues : intsetFind(is, v) <=> v \in isWant
=============================================================================
