------------------------------- MODULE TList -------------------------------
(* The list type, t_list.c but for its blocking operations.  The v of a list *)
(* is the sequence of its elements; enc is "ziplist" or "linkedlist", and    *)
(* only ever goes from the first to the second.                              *)
EXTENDS RedisDb

CONSTANT ListMaxZiplist   \* server.list_max_ziplist_entries
ASSUME ListMaxZiplistBound == ListMaxZiplist \in Nat \ {0}

NewList == [type |-> "list", enc |-> "ziplist", v |-> Empty]

listTypeConvert(o) == [o EXCEPT !.enc = "linkedlist"]

listTypeTryConversion(o, e) == IF e \in BigElems THEN listTypeConvert(o) ELSE o

\* Mutant: one entry too many stays in a ziplist.
listTypePushOverfull(o, e, where) ==
    LET p == listTypeTryConversion(o, e)
        q == IF Len(p.v) > ListMaxZiplist THEN listTypeConvert(p) ELSE p
    IN  [q EXCEPT !.v = IF where = "head" THEN <<e>> \o @ ELSE Append(@, e)]

\* The length is tested before the push.
listTypePush(o, e, where) ==
    LET p == listTypeTryConversion(o, e)
        q == IF Len(p.v) >= ListMaxZiplist THEN listTypeConvert(p) ELSE p
    IN  [q EXCEPT !.v = IF where = "head" THEN <<e>> \o @ ELSE Append(@, e)]

\* The elements es, one after the other.
listTypePushAll(o, es, where) ==
    LET after[i \in 0..Len(es)] == IF i = 0 THEN o ELSE listTypePush(after[i - 1], es[i], where)
    IN  after[Len(es)]

Popped(o, where) == IF where = "head" THEN Head(o.v) ELSE Last(o.v)

listTypePop(o, where) == [o EXCEPT !.v = IF where = "head" THEN Tail(@) ELSE Front(@)]

\* Before or after position i, an iterator's entry.
listTypeInsert(o, i, e, where) ==
    [o EXCEPT !.v = InsertAt(@, IF where = "tail" THEN i + 1 ELSE i, e)]

\* Kept in order for handleClientsBlockedOnLists; who is blocked is not known here.
signalListAsReady(S, k) == [S EXCEPT !.ready = IF Contains(@, k) THEN @ ELSE Append(@, k)]

----------------------------------------------------------------------------
\* LPUSH, RPUSH: es is the non-empty sequence of elements pushed one after the other.
pushGenericCommand(S, k, es, where) ==
    LET Push(T, o) ==
            LET new == listTypePushAll(o, es, where)
                U == IF dbExists(T, k) THEN T ELSE signalListAsReady(T, k)
            IN  Answer(Changed(dbAdd(U, k, new), k, Len(es)), Len(new.v))
        at == LookupOrNew(S, k, "list", NewList)
    IN  Then(at, Push(at.S, at.o))

\* LPUSHX and RPUSHX push on a list that exists.
pushxCommand(S, k, e, where) ==
    LET Push(T, o) ==
            LET new == listTypePush(o, e, where)
            IN  Answer(Changed(dbAdd(T, k, new), k, 1), Len(new.v))
        at == Lookup(S, k, "list", 0)
    IN  Then(at, Push(at.S, at.o))

\* LINSERT converts before it knows whether the reference is there, and by length only
\* after the insert.
linsertCommand(S, k, ref, e, where) ==
    LET Insert(T, o) ==
            LET p == listTypeTryConversion(o, e)
                i == FirstOf({j \in DOMAIN p.v : p.v[j] = ref})
                q == listTypeInsert(p, i, e, where)
                new == IF Len(q.v) > ListMaxZiplist THEN listTypeConvert(q) ELSE q
            IN  IF i = 0 THEN Answer(dbAdd(T, k, p), -1)
                ELSE Answer(Changed(dbAdd(T, k, new), k, 1), Len(new.v))
        at == Lookup(S, k, "list", 0)
    IN  Then(at, Insert(at.S, at.o))

llenCommand(S, k) ==
    LET at == Lookup(S, k, "list", 0) IN Then(at, Answer(at.S, Len(at.o.v)))

lindexCommand(S, k, index) ==
    LET at == Lookup(S, k, "list", Nil)
        i == Position(index, Len(at.o.v))
    IN  Then(at, Answer(at.S, IF i = 0 THEN Nil ELSE at.o.v[i]))

\* The conversion stays even when the index is out of range.
lsetCommand(S, k, index, e) ==
    LET Set(T, o) ==
            LET p == listTypeTryConversion(o, e)
                i == Position(index, Len(o.v))
            IN  IF i = 0 THEN Answer(dbAdd(T, k, p), Err)
                ELSE Answer(Changed(dbAdd(T, k, [p EXCEPT !.v[i] = e]), k, 1), OK)
        at == Lookup(S, k, "list", Err)
    IN  Then(at, Set(at.S, at.o))

\* LPOP and RPOP; the last element takes the key with it.
popGenericCommand(S, k, where) ==
    LET at == Lookup(S, k, "list", Nil)
    IN  Then(at, Answer(Changed(Store(at.S, k, listTypePop(at.o, where)), k, 1), Popped(at.o, where)))

\* The linked list is entered from its nearer end, which changes no reply.
lrangeCommand(S, k, start, end) ==
    LET at == Lookup(S, k, "list", Empty)
        r == Sanitised(start, end, Len(at.o.v))
    IN  Then(at, Answer(at.S, SubSeq(at.o.v, r[1], r[2])))

\* Counts as a change even when nothing is trimmed.
ltrimCommand(S, k, start, end) ==
    LET Trim(T, o) ==
            LET r == Sanitised(start, end, Len(o.v))
            IN  Answer(Changed(Store(T, k, [o EXCEPT !.v = SubSeq(@, r[1], r[2])]), k, 1), OK)
        at == Lookup(S, k, "list", OK)
    IN  Then(at, Trim(at.S, at.o))

\* The positions LREM removes: from the head, from the tail when count is negative, all
\* of them when it is 0.
Removed(s, e, count) ==
    LET at == {i \in DOMAIN s : s[i] = e}
        before(i) == IF count < 0 THEN {j \in at : j > i} ELSE {j \in at : j < i}
    IN  {i \in at : count = 0 \/ Cardinality(before(i)) < (IF count < 0 THEN -count ELSE count)}

lremCommand(S, k, count, e) ==
    LET Rem(T, o) ==
            LET gone == Removed(o.v, e, count)
                kept == SelectSeq([i \in DOMAIN o.v |-> <<i, o.v[i]>>], LAMBDA p: p[1] \notin gone)
                new == [o EXCEPT !.v = [i \in DOMAIN kept |-> kept[i][2]]]
                U == Store(T, k, new)
            IN  Answer(IF gone = {} THEN U ELSE Changed(U, k, Cardinality(gone)), Cardinality(gone))
        at == Lookup(S, k, "list", 0)
    IN  Then(at, Rem(at.S, at.o))

\* Mutant: dst is not signalled.
rpoplpushHandlePushSilently(S, dst, e) ==
    LET T == IF dbExists(S, dst) THEN S ELSE signalListAsReady(S, dst)
        o == IF dbExists(S, dst) THEN S.dict[dst] ELSE NewList
    IN  Answer(dbAdd(T, dst, listTypePush(o, e, "head")), e)

\* Push the popped value on dst, which may not exist yet.
rpoplpushHandlePush(S, dst, e) ==
    LET T == IF dbExists(S, dst) THEN S ELSE signalListAsReady(S, dst)
        o == IF dbExists(S, dst) THEN S.dict[dst] ELSE NewList
    IN  Answer(signalModifiedKey(dbAdd(T, dst, listTypePush(o, e, "head")), dst), e)

\* src and dst may be the same list; src is deleted only after the push.
rpoplpushCommand(S, src, dst) ==
    LET Rotate(T, o) ==
            LET U == expireIfNeeded(T, dst)
                e == Popped(o, "tail")
                P == rpoplpushHandlePush(dbAdd(U, src, listTypePop(o, "tail")), dst, e)
            IN  IF dbExists(U, dst) /\ U.dict[dst].type # "list" THEN Answer(U, WrongType)
                ELSE Changed(Store(P, src, P.dict[src]), src, 1)
        at == Lookup(S, src, "list", Nil)
    IN  Then(at, Rotate(at.S, at.o))
=============================================================================
