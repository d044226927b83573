------------------------------- MODULE Ziplist ------------------------------
(***************************************************************************)
(* ziplist.c: the packed list behind small lists, hashes and sorted sets.  *)
(* Every entry is stored as the length of the entry before it, the         *)
(* encoding and length of its own data, and the data; a previous length of *)
(* ZipBig or more takes LenBytes bytes more, so that an insertion or a     *)
(* deletion can change the size of the entries after it, one after the     *)
(* other.  The memory is modelled byte by byte: z.mem[p] is the byte at p  *)
(* behind the header, whose three fields are bytes, tail and len.  A byte  *)
(* is a digit below ByteBase (256 in the code), lengths and integers are   *)
(* written with these digits, and the thresholds scale with ByteBase.      *)
(***************************************************************************)
EXTENDS Integers, Sequences, SequencesExt, FiniteSets

CONSTANTS ByteBase,  \* 256: the values of a byte
          LenBytes,  \* sizeof(unsigned int)
          IntSize,   \* data bytes of each integer encoding (zipIntSize)
          ImmMin, ImmMax, \* the immediate encodings ZIP_INT_IMM_MIN..MAX
          ZipMaxLen, \* UINT16_MAX, the length that says nothing
          ZipItems,  \* the items pushed: [int |-> a number] or [str |-> bytes]
          ZipBound,  \* bound: items in a list
          ZipShrink  \* whether an insertion may need less room than it frees

VARIABLES zl, zlWant

zlVars == <<zl, zlWant>>

ZipEnd == ByteBase - 1
ZipBig == ByteBase - 2
Quarter == ByteBase \div 4   \* string encodings are the first bytes below 3 quarters

(* A read past the buffer finds anything: here the end mark *)
At(m, p) == IF p \in DOMAIN m THEN m[p] ELSE ZipEnd

Digits(v, n) == [k \in 1..n |-> (v \div ByteBase^(k - 1)) % ByteBase]

Number(m, p, n) ==
    LET sum[k \in 0..n] ==
          IF k = 0 THEN 0 ELSE sum[k - 1] + At(m, p + k - 1) * ByteBase^(k - 1)
    IN  sum[n]

Write(m, p, bytes) ==
    [i \in DOMAIN m |-> IF i \in p..p + Len(bytes) - 1 THEN bytes[i - p + 1] ELSE m[i]]

Memmove(m, dst, src, n) == Write(m, dst, [k \in 1..n |-> At(m, src + k - 1)])

ZipFits(v, n) == -(ByteBase^n) <= 2 * v /\ 2 * v < ByteBase^n

(* zipPrevEncodeLength: how many bytes, and which *)
PrevBytes(len) == IF len < ZipBig THEN 1 ELSE LenBytes + 1
PrevForceLarge(len) == <<ZipBig>> \o Digits(len, LenBytes)
PrevCode(len) == IF len < ZipBig THEN <<len>> ELSE PrevForceLarge(len)

PrevLenSize(m, p) == IF At(m, p) < ZipBig THEN 1 ELSE LenBytes + 1
PrevLen(m, p) == IF At(m, p) < ZipBig THEN At(m, p) ELSE Number(m, p + 1, LenBytes)

PrevLenByteDiff(m, p, len) == PrevBytes(len) - PrevLenSize(m, p)

(* zipTryEncoding: an item that reads as an integer has the first encoding *)
(* that is wide enough                                                     *)
IsStr(item) == "str" \in DOMAIN item

IntEncoding(v) ==
    IF v \in 0..ImmMax - ImmMin THEN ImmMin + v
    ELSE CHOOSE e \in DOMAIN IntSize :
           /\ ZipFits(v, IntSize[e])
           /\ \A f \in DOMAIN IntSize : ZipFits(v, IntSize[f]) => IntSize[e] <= IntSize[f]

(* zipIntSize: an immediate integer has no data *)
IntBytes(e) == IF e \in DOMAIN IntSize THEN IntSize[e] ELSE 0

LengthCode(item) ==
    IF ~IsStr(item) THEN <<IntEncoding(item.int)>>
    ELSE LET n == Len(item.str) IN
         CASE n < Quarter -> <<n>>
           [] n >= Quarter /\ n < Quarter * ByteBase ->
                <<Quarter + n \div ByteBase, n % ByteBase>>
           [] OTHER -> <<2 * Quarter>> \o Digits(n, LenBytes)

DataCode(item) ==
    IF IsStr(item) THEN item.str
    ELSE Digits(item.int, IntBytes(IntEncoding(item.int)))

(* ZIP_DECODE_LENGTH at q: bytes of the length, length of the data *)
LenSize(m, q) ==
    CASE At(m, q) < Quarter \/ At(m, q) >= 3 * Quarter -> 1
      [] At(m, q) >= Quarter /\ At(m, q) < 2 * Quarter -> 2
      [] OTHER -> LenBytes + 1

DataLen(m, q) ==
    CASE At(m, q) < Quarter -> At(m, q)
      [] At(m, q) >= Quarter /\ At(m, q) < 2 * Quarter ->
           (At(m, q) - Quarter) * ByteBase + At(m, q + 1)
      [] At(m, q) >= 2 * Quarter /\ At(m, q) < 3 * Quarter -> Number(m, q + 1, LenBytes)
      [] OTHER -> IntBytes(At(m, q))

(* zipEntry *)
Entry(m, p) ==
    LET q == p + PrevLenSize(m, p) IN
    [prevsize |-> PrevLenSize(m, p), prevlen |-> PrevLen(m, p), enc |-> At(m, q),
     data |-> q + LenSize(m, q), len |-> DataLen(m, q),
     raw |-> PrevLenSize(m, p) + LenSize(m, q) + DataLen(m, q)]

LoadInteger(m, e) ==
    LET n == Number(m, e.data, e.len) IN
    CASE e.enc \in ImmMin..ImmMax -> e.enc - ImmMin
      [] e.enc \notin ImmMin..ImmMax /\ ZipFits(n, e.len) -> n
      [] OTHER -> n - ByteBase^e.len

(* ziplistGet *)
ItemAt(m, p) ==
    LET e == Entry(m, p) IN
    IF e.enc < 3 * Quarter THEN [str |-> [k \in 1..e.len |-> At(m, e.data + k - 1)]]
    ELSE [int |-> LoadInteger(m, e)]

----------------------------------------------------------------------------
ziplistNew == [bytes |-> 1, tail |-> 1, len |-> 0, mem |-> <<ZipEnd>>]

(* realloc, and the end mark in the last byte, before anything is moved *)
ziplistResize(z, n) ==
    [z EXCEPT !.bytes = n,
              !.mem = [i \in 1..n |-> IF i = n THEN ZipEnd ELSE At(z.mem, i)]]

IncrLength(z, incr) == IF z.len < ZipMaxLen THEN [z EXCEPT !.len = @ + incr] ELSE z

IsEnd(z, p) == At(z.mem, p) = ZipEnd

\* Mutant: the length before is always written in one byte.
SetPrevShort(z, np, raw) == [z EXCEPT !.mem = Write(@, np, PrevCode(raw))]

(* A field that is too long stays long: shrinking could flap *)
SetPrev(z, np, raw) ==
    [z EXCEPT !.mem = Write(@, np, IF PrevLenSize(z.mem, np) > PrevBytes(raw)
                                   THEN PrevForceLarge(raw) ELSE PrevCode(raw))]

(* The entry at np gets a longer field for the length raw of the one before *)
GrowPrev(z, np, raw) ==
    LET size == PrevLenSize(z.mem, np)
        extra == PrevBytes(raw) - size
        y == ziplistResize(z, z.bytes + extra)
        moved == Memmove(y.mem, np + PrevBytes(raw), np + size, z.bytes - np - size)
    IN  [y EXCEPT !.tail = IF @ # np THEN @ + extra ELSE @,
                  !.mem = Write(moved, np, PrevCode(raw))]

RECURSIVE ziplistCascadeUpdate(_, _)
ziplistCascadeUpdate(z, p) ==
    LET raw == Entry(z.mem, p).raw
        np == p + raw
    IN  CASE IsEnd(z, p) \/ IsEnd(z, np) \/ PrevLen(z.mem, np) = raw -> z
          [] ~IsEnd(z, p) /\ ~IsEnd(z, np) /\ PrevLen(z.mem, np) # raw
               /\ PrevLenSize(z.mem, np) < PrevBytes(raw) ->
                 ziplistCascadeUpdate(GrowPrev(z, np, raw), np)
          [] OTHER -> SetPrev(z, np, raw)

(* The entries passed on the way from p, at most num of them *)
RECURSIVE Skip(_, _, _)
Skip(z, p, num) ==
    IF IsEnd(z, p) \/ num = 0 THEN <<p>>
    ELSE <<p>> \o Skip(z, p + Entry(z.mem, p).raw, num - 1)

(* Where the tail entry is after `shift` bytes moved, of which diff by the  *)
(* entry at p itself: a tail at p has not moved by them                     *)
MovedTail(z, p, shift, diff) ==
    z.tail + shift + (IF IsEnd(z, p + Entry(z.mem, p).raw) THEN 0 ELSE diff)

(* Writes the length of the entry before first over the end of what goes *)
DeleteBefore(z, first, p, prevlen) ==
    LET diff == PrevLenByteDiff(z.mem, p, prevlen)
        from == p - diff
        y == [z EXCEPT !.mem = Write(@, from, PrevCode(prevlen))]
        kept == [y EXCEPT !.tail = MovedTail(y, from, first - p, diff),
                          !.mem = Memmove(@, first, from, z.bytes - from)]
        cut == ziplistResize(kept, z.bytes - (p - first) + diff)
    IN  IF diff # 0 THEN ziplistCascadeUpdate(cut, first) ELSE cut

DeleteToEnd(z, first, p, prevlen) ==
    ziplistResize([z EXCEPT !.tail = first - prevlen], z.bytes - (p - first))

ziplistDelete(z, first, num) ==
    LET passed == Skip(z, first, num)
        p == Last(passed)
        prevlen == PrevLen(z.mem, first)
        y == IF IsEnd(z, p) THEN DeleteToEnd(z, first, p, prevlen)
             ELSE DeleteBefore(z, first, p, prevlen)
    IN  IF p = first THEN z ELSE IncrLength(y, 1 - Len(passed))

(* The length the new entry at p stores of the one before it *)
PrevOf(z, p) ==
    CASE ~IsEnd(z, p) -> PrevLen(z.mem, p)
      [] IsEnd(z, p) /\ ~IsEnd(z, z.tail) -> Entry(z.mem, z.tail).raw
      [] OTHER -> 0

EntryCode(prevlen, item) == PrevCode(prevlen) \o LengthCode(item) \o DataCode(item)

(* The bytes the next entry needs more, or less, to store the new length *)
NextDiff(z, p, need) == IF IsEnd(z, p) THEN 0 ELSE PrevLenByteDiff(z.mem, p, need)

(* Makes room for need bytes at p and tells the next entry *)
MakeRoom(y, z, p, need, diff) ==
    LET moved == Memmove(y.mem, p + need, p - diff, z.bytes - p + diff)
        told == [y EXCEPT !.mem = Write(moved, p + need, PrevCode(need))]
    IN  [told EXCEPT !.tail = MovedTail(told, p + need, need, diff)]

(* p is looked at again after the list has been resized *)
ziplistInsert(z, p, item) ==
    LET code == EntryCode(PrevOf(z, p), item)
        need == Len(code)
        diff == NextDiff(z, p, need)
        y == ziplistResize(z, z.bytes + need + diff)
        placed == IF IsEnd(y, p) THEN [y EXCEPT !.tail = p] ELSE MakeRoom(y, z, p, need, diff)
        even == IF diff # 0 THEN ziplistCascadeUpdate(placed, p + need) ELSE placed
    IN  IncrLength([even EXCEPT !.mem = Write(@, p, code)], 1)

ziplistPush(z, item, where) ==
    ziplistInsert(z, IF where = "head" THEN 1 ELSE z.bytes, item)

(* Positions: 0 stands for NULL *)
ziplistNext(z, p) ==
    LET q == p + Entry(z.mem, p).raw IN IF IsEnd(z, p) \/ IsEnd(z, q) THEN 0 ELSE q

ziplistPrev(z, p) ==
    CASE IsEnd(z, p) -> IF IsEnd(z, z.tail) THEN 0 ELSE z.tail
      [] ~IsEnd(z, p) /\ p = 1 -> 0
      [] OTHER -> p - PrevLen(z.mem, p)

(* The entries behind p, back to the one that has none before it *)
RECURSIVE BackFrom(_, _, _)
BackFrom(z, p, num) ==
    IF num = 0 \/ PrevLen(z.mem, p) = 0 \/ p - PrevLen(z.mem, p) < 1 THEN <<p>>
    ELSE <<p>> \o BackFrom(z, p - PrevLen(z.mem, p), num - 1)

ziplistIndex(z, index) ==
    LET n == IF index < 0 THEN -index - 1 ELSE index
        way == CASE index >= 0 -> Skip(z, 1, n)
                 [] index < 0 /\ IsEnd(z, z.tail) -> <<z.tail>>
                 [] OTHER -> BackFrom(z, z.tail, n)
    IN  IF IsEnd(z, Last(way)) \/ Len(way) <= n THEN 0 ELSE Last(way)

ziplistDeleteRange(z, index, num) ==
    LET p == ziplistIndex(z, index) IN IF p = 0 THEN z ELSE ziplistDelete(z, p, num)

(* Equal as integers, or as strings: ziplistCompare *)
ziplistCompare(z, p, item) == ~IsEnd(z, p) /\ ItemAt(z.mem, p) = item

(* The first of every skip + 1 entries that equals the item *)
ziplistFind(z, item, skip) ==
    LET way == Front(Skip(z, 1, z.bytes))
        at == SelectInSeq([k \in DOMAIN way |-> (k - 1) % (skip + 1) = 0
                              /\ ziplistCompare(z, way[k], item)], LAMBDA x : x)
    IN  IF at = 0 THEN 0 ELSE way[at]

(* The length, counted and stored again when the field says nothing *)
ziplistLen(z) ==
    IF z.len < ZipMaxLen THEN z.len ELSE Len(Skip(z, 1, z.bytes)) - 1

Relength(z) == IF ziplistLen(z) < ZipMaxLen THEN [z EXCEPT !.len = ziplistLen(z)] ELSE z

----------------------------------------------------------------------------
(* The iterator of a list (t_list.c): zi is the entry to give next *)
listTypeNext(z, zi, backwards) ==
    IF backwards THEN ziplistPrev(z, zi) ELSE ziplistNext(z, zi)

(* ziplistDelete leaves p at the entry that took the place *)
AfterDelete(z, p, backwards) == IF backwards THEN ziplistPrev(z, p) ELSE p

(* LREM: every entry that equals the item goes, up to n of them *)
RECURSIVE Removing(_, _, _, _, _)
Removing(z, p, item, n, backwards) ==
    LET cut == ziplistDelete(z, p, 1) IN
    CASE n = 0 \/ p = 0 \/ (p > 0 /\ IsEnd(z, p)) -> z
      [] n > 0 /\ p > 0 /\ ~IsEnd(z, p) /\ ziplistCompare(z, p, item) ->
           Removing(cut, AfterDelete(cut, p, backwards), item, n - 1, backwards)
      [] OTHER -> Removing(z, listTypeNext(z, p, backwards), item, n, backwards)

lremZiplist(z, item, n, backwards) ==
    Removing(z, ziplistIndex(z, IF backwards THEN -1 ELSE 0), item, n, backwards)

----------------------------------------------------------------------------
ZlInit ==
    /\ zl = ziplistNew
    /\ zlWant = <<>>

(* Where the item at index i (from 0) starts; past the last one, the end *)
Place(i) == IF i = Len(zlWant) THEN zl.bytes ELSE ziplistIndex(zl, i)

(* The bytes an insertion at p adds to the list *)
Added(p, item) ==
    LET need == Len(EntryCode(PrevOf(zl, p), item)) IN need + NextDiff(zl, p, need)

ZlInsert(i, item) ==
    /\ Len(zlWant) < ZipBound
    /\ ZipShrink \/ Added(Place(i), item) >= 0
    /\ zl' = CASE i = 0 -> ziplistPush(zl, item, "head")
               [] i = Len(zlWant) /\ i > 0 -> ziplistPush(zl, item, "tail")
               [] OTHER -> ziplistInsert(zl, Place(i), item)
    /\ zlWant' = InsertAt(zlWant, i + 1, item)

ZlDelete(index, num) ==
    /\ zl' = ziplistDeleteRange(zl, index, num)
    /\ zlWant' = LET i == IF index < 0 THEN Len(zlWant) + index ELSE index IN
                 SubSeq(zlWant, 1, i) \o SubSeq(zlWant, i + num + 1, Len(zlWant))

(* The first n occurrences, from the front or from the back *)
Without(s, item, n, backwards) ==
    LET t == IF backwards THEN Reverse(s) ELSE s
        before(i) == Cardinality({j \in 1..i : t[j] = item})
        kept == {i \in DOMAIN t : t[i] # item \/ before(i) > n}
        u == [i \in 1..Cardinality(kept) |->
                 t[CHOOSE j \in kept : Cardinality({m \in kept : m <= j}) = i]]
    IN  IF backwards THEN Reverse(u) ELSE u

ZlRemove(item, n, backwards) ==
    /\ zl' = lremZiplist(zl, item, n, backwards)
    /\ zlWant' = Without(zlWant, item, n, backwards)

ZlLen ==
    /\ zl' = Relength(zl)
    /\ UNCHANGED zlWant

ZlActs ==
    \/ \E i \in 0..Len(zlWant), item \in ZipItems : ZlInsert(i, item)
    \/ \E index \in -Len(zlWant)..Len(zlWant) - 1, num \in 1..ZipBound : ZlDelete(index, num)
    \/ \E item \in ZipItems, n \in 1..2, backwards \in BOOLEAN : ZlRemove(item, n, backwards)
    \/ ZlLen

----------------------------------------------------------------------------
(* The bytes are those of the list: walked from either end they give the    *)
(* items that were put in, every entry stores the length of the one before, *)
(* the header its size, its tail and its length (ziplist.c:436-666).        *)
ZiplistHoldsList ==
    LET n == Len(zlWant) IN
    /\ zl.bytes = Len(zl.mem)
    /\ LET way == Skip(zl, 1, n + 1) IN
       /\ Len(way) = n + 1 /\ Last(way) = zl.bytes
       /\ \A i \in 1..n : ItemAt(zl.mem, way[i]) = zlWant[i]
       /\ \A i \in 2..n : PrevLen(zl.mem, way[i]) = way[i] - way[i - 1]
       /\ n > 0 => zl.tail = way[n] /\ PrevLen(zl.mem, 1) = 0
       /\ \A i \in 1..n : ziplistIndex(zl, i - 1) = way[i] /\ ziplistIndex(zl, i - 1 - n) = way[i]
    /\ ziplistIndex(zl, n) = 0 /\ ziplistIndex(zl, -n - 1) = 0
    /\ zl.len \in {n, ZipMaxLen} /\ ziplistLen(zl) = n
    /\ \A item \in ZipItems, skip \in 0..1 :
          LET at == {i \in 1..n : zlWant[i] = item /\ (i - 1) % (skip + 1) = 0} IN
          ziplistFind(zl, item, skip) =
            IF at = {} THEN 0 ELSE ziplistIndex(zl, (CHOOSE i \in at : \A j \in at : i <= j) - 1)
=============================================================================
