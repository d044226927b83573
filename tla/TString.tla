------------------------------ MODULE TString ------------------------------
(* The string type: object.c (encodings, numbers) and t_string.c, bitops.c.  *)
(* The v of a string is its bytes, a sequence over Byte; enc is "int" when   *)
(* the object holds the number those bytes spell, "raw" otherwise.           *)
EXTENDS RedisDb

CONSTANTS
    LongMin, LongMax,  \* the range of a long (and of a long long), as small numbers
    MaxString          \* the 512MB limit of checkStringLength

ASSUME LongBounds == LongMin \in Int /\ LongMax \in Nat /\ LongMin < 0
ASSUME MaxStringBound == MaxString \in Nat

Digit == <<"0", "1", "2", "3", "4", "5", "6", "7", "8", "9">>
Minus == "-"
NUL   == "NUL"      \* the zero bytes SETRANGE pads with
Byte  == ToSet(Digit) \cup {Minus, NUL, "x"}

\* ll2string: the decimal digits of a number.
ll2string(n) ==
    LET dec[m \in Nat] == IF m < 10 THEN <<Digit[m + 1]>> ELSE Append(dec[m \div 10], Digit[(m % 10) + 1])
    IN  IF n < 0 THEN <<Minus>> \o dec[-n] ELSE dec[n]

IsDigits(s) == s # Empty /\ \A i \in DOMAIN s : s[i] \in ToSet(Digit)

\* The number a non-empty sequence of digits spells.
Number(s) ==
    LET Value(c) == CHOOSE n \in 0..9 : Digit[n + 1] = c
        read[i \in 0..Len(s)] == IF i = 0 THEN 0 ELSE 10 * read[i - 1] + Value(s[i])
    IN  read[Len(s)]

HasMinus(s) == s # Empty /\ s[1] = Minus
Digits(s) == IF HasMinus(s) THEN Tail(s) ELSE s
Signed(s) == (IF HasMinus(s) THEN -1 ELSE 1) * Number(Digits(s))

InLong(n) == LongMin <= n /\ n <= LongMax

\* string2ll accepts only the canonical spelling of a number in range.
Spells(s, n) == InLong(n) /\ ll2string(n) = s
string2ll(s) == IsDigits(Digits(s)) /\ Spells(s, Signed(s))

\* strcmp: at the first byte that differs, or by length when one is the start of the other.
Rank(c) == LET bytes == <<NUL, Minus>> \o Digit \o <<"x">> IN CHOOSE i \in DOMAIN bytes : bytes[i] = c
StrLess(s, t) ==
    LET differ == {i \in DOMAIN s \cap DOMAIN t : s[i] # t[i]}
    IN  IF differ = {} THEN Len(s) < Len(t) ELSE Rank(s[Min(differ)]) < Rank(t[Min(differ)])

Str(s) == [type |-> "string", enc |-> "raw", v |-> s]

\* Shared integers are told apart from private ones by reference counting alone,
\* which no command can see: both are the int encoding.
tryObjectEncoding(s) == [Str(s) EXCEPT !.enc = IF string2ll(s) THEN "int" ELSE "raw"]

createStringObjectFromLongLong(n) == tryObjectEncoding(ll2string(n))

\* getLongLongFromObject reads with strtoll, which stops at the first zero byte and
\* reads nothing as 0; anything else left over, or out of range, is an error (Nil).
InRange(n) == IF InLong(n) THEN n ELSE Nil
strtoll(t) == IF t = Empty THEN 0 ELSE IF IsDigits(Digits(t)) THEN InRange(Signed(t)) ELSE Nil
getLongLongFromObject(s) ==
    LET nul == FirstOf({i \in DOMAIN s : s[i] = NUL})
    IN  strtoll(IF nul = 0 THEN s ELSE SubSeq(s, 1, nul - 1))

checkStringLength(n) == n <= MaxString

----------------------------------------------------------------------------
\* SET, SETNX, SETEX and PSETEX: flag is "", "NX" or "XX"; ttl is Nil or a relative time.
setGenericCommand(S, k, val, ttl, flag, ok, abort) ==
    LET T == IF flag # "" THEN expireIfNeeded(S, k) ELSE S
        U == [setKey(T, k, val) EXCEPT !.dirty = @ + 1]
    IN  IF ttl # Nil /\ ttl <= 0 THEN Answer(S, Err)
        ELSE IF (flag = "NX" /\ dbExists(T, k)) \/ (flag = "XX" /\ ~dbExists(T, k)) THEN Answer(T, abort)
        ELSE Answer(IF ttl = Nil THEN U ELSE setExpire(U, k, U.now + ttl), ok)

setCommand(S, k, s, ttl, flag) == setGenericCommand(S, k, tryObjectEncoding(s), ttl, flag, OK, Nil)

setnxCommand(S, k, s) == setGenericCommand(S, k, tryObjectEncoding(s), Nil, "NX", 1, 0)

setexCommand(S, k, s, ttl) == setGenericCommand(S, k, tryObjectEncoding(s), ttl, "", OK, Nil)

getGenericCommand(S, k) ==
    LET at == Lookup(S, k, "string", Nil) IN Then(at, Answer(at.S, at.o.v))

getsetCommand(S, k, s) ==
    LET T == getGenericCommand(S, k)
    IN  IF dbExists(T, k) /\ T.dict[k].type # "string" THEN T
        ELSE [setKey(T, k, tryObjectEncoding(s)) EXCEPT !.dirty = @ + 1]

\* sdsgrowzero pads with zero bytes, memcpy overwrites.
Patched(s, offset, value) ==
    [i \in 1..Max({Len(s), offset + Len(value)}) |->
        IF i > offset /\ i <= offset + Len(value) THEN value[i - offset]
        ELSE IF i <= Len(s) THEN s[i] ELSE NUL]

setrangeCommand(S, k, offset, value) ==
    LET Write(T, o) ==
            IF value = Empty THEN Answer(T, Len(o.v))
            ELSE IF ~checkStringLength(offset + Len(value)) THEN Answer(T, Err)
            ELSE LET s == Patched(o.v, offset, value)
                 IN  Answer(Changed(dbAdd(T, k, Str(s)), k, 1), Len(s))
        at == LookupOrNew(S, k, "string", Str(Empty))
    IN  IF offset < 0 THEN Answer(S, Err) ELSE Then(at, Write(at.S, at.o))

\* The comparison of end with the length is unsigned; end is not negative by then.
getrangeCommand(S, k, start, end) ==
    LET Read(T, o) ==
            LET n == Len(o.v)
                from == Max({0, IF start < 0 THEN n + start ELSE start})
                last == Max({0, IF end < 0 THEN n + end ELSE end})
                to == IF last >= n THEN n - 1 ELSE last
            IN  Answer(T, SubSeq(o.v, from + 1, to + 1))
        at == Lookup(S, k, "string", Empty)
    IN  Then(at, Read(at.S, at.o))

mgetCommand(S, ks) ==
    LET T == ExpireAll(S, ks)
    IN  Answer(T, [i \in DOMAIN ks |-> LET o == lookupKey(T, ks[i])
                                       IN  IF o # Nil /\ o.type = "string" THEN o.v ELSE Nil])

\* pairs is a sequence of <<key, bytes>>; a key named twice holds its last value.
msetGenericCommand(S, pairs, nx) ==
    LET T == IF nx THEN ExpireAll(S, [i \in DOMAIN pairs |-> pairs[i][1]]) ELSE S
        after[i \in 0..Len(pairs)] ==
            IF i = 0 THEN T ELSE setKey(after[i - 1], pairs[i][1], tryObjectEncoding(pairs[i][2]))
    IN  IF nx /\ \E p \in ToSet(pairs) : dbExists(T, p[1]) THEN Answer(T, 0)
        ELSE Answer([after[Len(pairs)] EXCEPT !.dirty = @ + Len(pairs)], IF nx THEN 1 ELSE OK)

\* The overflow test comes before the addition.
incrDecrCommand(S, k, incr) ==
    LET Incr(T, o) ==
            LET old == getLongLongFromObject(o.v)
                overflow == \/ incr < 0 /\ old < 0 /\ incr < LongMin - old
                            \/ incr > 0 /\ old > 0 /\ incr > LongMax - old
            IN  IF old = Nil THEN Answer(T, Err)
                ELSE IF overflow THEN Answer(T, Err)
                ELSE Answer(Changed(dbAdd(T, k, createStringObjectFromLongLong(old + incr)), k, 1),
                            old + incr)
        at == LookupOrNew(S, k, "string", Str(Empty))
    IN  Then(at, Incr(at.S, at.o))

\* DECRBY negates its argument: the negation of LongMin does not fit, and wraps to itself.
decrbyCommand(S, k, decr) == incrDecrCommand(S, k, IF -decr > LongMax THEN decr ELSE -decr)

\* Floats are the whole numbers here, out of range standing for infinity; the command is
\* propagated as a SET of the result, in raw bytes.
incrbyfloatCommand(S, k, incr) ==
    LET Incr(T, o) ==
            LET old == getLongLongFromObject(o.v)
                new == Str(ll2string(old + incr))
            IN  IF old = Nil THEN Answer(T, Err)
                ELSE IF ~InLong(old + incr) THEN Answer(T, Err)
                ELSE Answer([Changed(dbAdd(T, k, new), k, 1) EXCEPT !.argv = <<"SET", k, new.v, Nil, "">>], new.v)
        at == LookupOrNew(S, k, "string", Str(Empty))
    IN  Then(at, Incr(at.S, at.o))

\* A fresh key may get the int encoding; appending leaves a raw copy.
appendCommand(S, k, s) ==
    LET T == expireIfNeeded(S, k)
        o == lookupKey(T, k)
    IN  IF o = Nil THEN Answer(Changed(dbAdd(T, k, tryObjectEncoding(s)), k, 1), Len(s))
        ELSE IF o.type # "string" THEN Answer(T, WrongType)
        ELSE IF ~checkStringLength(Len(o.v) + Len(s)) THEN Answer(T, Err)
        ELSE Answer(Changed(dbAdd(T, k, Str(o.v \o s)), k, 1), Len(o.v) + Len(s))

strlenCommand(S, k) ==
    LET at == Lookup(S, k, "string", 0) IN Then(at, Answer(at.S, Len(at.o.v)))
=============================================================================
