------------------------------- MODULE TSort -------------------------------
(* SORT, sort.c.  A pattern is "#" (the element itself), "const" (no star in *)
(* it), "star" (the string under the key the element is substituted into) or *)
(* a field f of Elems ("star->f").  Sub gives the substituted key.           *)
EXTENDS TList, TSet, TZset, THash

CONSTANT Sub
ASSUME SubIsAKey == Sub \in [Elems -> Keys]

\* Nil when the pattern finds nothing of the right type; S only loses expired keys.
lookupKeyByPattern(S, pattern, e) ==
    LET o == lookupKey(expireIfNeeded(S, Sub[e]), Sub[e])
    IN  IF pattern = "#" THEN e
        ELSE IF pattern = "const" \/ o = Nil THEN Nil
        ELSE IF pattern = "star" THEN IF o.type = "string" THEN o.v ELSE Nil
        ELSE IF o.type = "hash" THEN hashTypeGetObject(o, pattern) ELSE Nil

\* The types SORT takes.  Below, its options are a record
\* q = [by, desc, alpha, start, count, get, store]: by is Nil or a pattern, get a sequence
\* of patterns, store Nil or a key.
Sortable == {"list", "set", "zset"}

\* The elements of o in an order of its own.
Elements(o) == CASE o.type = "list" -> o.v
                 [] o.type = "set"  -> SetToSeq(o.v)
                 [] o.type = "zset" -> [i \in DOMAIN Pairs(o) |-> Pairs(o)[i].ele]

\* The number e is sorted by: a missing weight is 0, what spells no number an error (Nil).
Score(S, q, e) ==
    LET w == lookupKeyByPattern(S, q.by, e)
    IN  IF q.by = Nil \/ q.by = "#"
        THEN IF e \in IntElems THEN ElemRank(e) ELSE Nil
        ELSE IF w = Nil THEN 0 ELSE getLongLongFromObject(w)

\* sortCompare, as "a may stay before b".  Among missing weights, and among weights that
\* are the same string, the sort leaves any order.
WeightsInOrder(v, w) == IF Nil \in {v, w} THEN v = Nil ELSE v = w \/ StrLess(v, w)
ScoresInOrder(x, y, lex) == x < y \/ (x = y /\ lex)

sortCompare(S, q, a, b) ==
    LET w(e) == lookupKeyByPattern(S, q.by, e)
        lex == a = b \/ Less(a, b)
    IN  IF ~q.alpha THEN ScoresInOrder(Score(S, q, a), Score(S, q, b), lex)
        ELSE IF q.by \in {Nil, "#"} THEN lex
        ELSE WeightsInOrder(w(a), w(b))

\* The orders the vector of the elements of o may end in: that of the zset or the list when
\* nothing is sorted (any, for a set), one that agrees with sortCompare otherwise.
SortedVectors(S, o, q, dontsort) ==
    LET es == Elements(o)
        orders == {[i \in DOMAIN es |-> es[p[i]]] : p \in Permutations(DOMAIN es)}
        le(a, b) == sortCompare(S, q, IF q.desc THEN b ELSE a, IF q.desc THEN a ELSE b)
    IN  IF dontsort /\ o.type = "zset" THEN {IF q.desc THEN Reverse(es) ELSE es}
        ELSE IF dontsort THEN IF o.type = "list" THEN {es} ELSE orders
        ELSE {s \in orders : \A i, j \in DOMAIN s : i < j => le(s[i], s[j])}

\* LIMIT: the 0-based first and last position, sanity checked.
Limits(n, start, count) ==
    LET s == Max({0, start})
        e == IF count < 0 THEN n - 1 ELSE s + count - 1
    IN  IF s >= n THEN <<n - 1, n - 2>> ELSE <<s, Min({e, n - 1})>>

\* The elements of the range, each through the GET patterns if there are any.
Output(S, vector, q) ==
    LET r == Limits(Len(vector), q.start, q.count)
        got(e) == IF q.get = Empty THEN <<e>>
                  ELSE [i \in DOMAIN q.get |-> lookupKeyByPattern(S, q.get[i], e)]
        out[i \in r[1]..r[2] + 1] == IF i = r[1] THEN Empty ELSE out[i - 1] \o got(vector[i])
    IN  out[r[2] + 1]

\* The outcomes of SORT.  STORE forces an order on what a constant BY leaves unsorted, and
\* a sorted set becomes a skip list even when it is only read.
sortCommand(S, k, q) ==
    LET T == expireIfNeeded(S, k)
        found == lookupKey(T, k)
        o == IF found = Nil THEN NewList ELSE found
        forced == q.store # Nil /\ q.by = "const" /\ o.type # "zset"
        r == IF forced THEN [q EXCEPT !.by = Nil, !.alpha = TRUE] ELSE q
        z == IF o.type = "zset" THEN zsetConvert(o, "skiplist") ELSE o
        U == IF found = Nil THEN T ELSE dbAdd(T, k, z)
        notANumber == r.by # "const" /\ ~r.alpha /\ \E e \in Range(Elements(z)) : Score(U, r, e) = Nil
        Stored(out) ==
            IF out # Empty
            THEN Answer([setKey(U, q.store, listTypePushAll(NewList, out, "tail"))
                            EXCEPT !.dirty = @ + Len(out)], Len(out))
            ELSE Answer(IF dbExists(U, q.store) THEN Changed(dbDelete(U, q.store), q.store, 1) ELSE U, 0)
    IN  IF found # Nil /\ o.type \notin Sortable THEN {Answer(T, WrongType)}
        ELSE IF notANumber THEN {Answer(U, Err)}
        ELSE {IF q.store = Nil THEN Answer(U, Output(U, v, r)) ELSE Stored(Output(U, v, r)) :
                v \in SortedVectors(U, z, r, r.by = "const")}
=============================================================================
