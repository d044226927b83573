-------------------------------- MODULE TSet --------------------------------
(* The set type, t_set.c.  The v of a set is the TLA+ set of its elements;   *)
(* enc is "intset" (integers only, not too many) or "ht", and never goes     *)
(* back.  The iterators give the elements in an order no reply depends on.   *)
EXTENDS RedisDb

CONSTANT SetMaxIntset     \* server.set_max_intset_entries
ASSUME SetMaxIntsetBound == SetMaxIntset \in Nat

EmptySet(enc) == [type |-> "set", enc |-> enc, v |-> {}]

\* A set that can hold e.
setTypeCreate(e) == EmptySet(IF e \in IntElems THEN "intset" ELSE "ht")

setTypeConvert(o) == [o EXCEPT !.enc = "ht"]

\* An intset is converted by an element that is not an integer, and by its length after
\* the insertion.
setTypeAdd(o, e) ==
    LET p == [o EXCEPT !.v = @ \cup {e}]
    IN  IF e \in o.v \/ o.enc = "ht" THEN p
        ELSE IF e \notin IntElems \/ Cardinality(p.v) > SetMaxIntset THEN setTypeConvert(p)
        ELSE p

setTypeRemove(o, e) == [o EXCEPT !.v = @ \ {e}]

setTypeIsMember(o, e) == IF o.enc = "intset" /\ e \notin IntElems THEN FALSE ELSE e \in o.v

\* The elements es, one after the other.
AddAll(o, es) ==
    LET after[i \in 0..Len(es)] == IF i = 0 THEN o ELSE setTypeAdd(after[i - 1], es[i])
    IN  after[Len(es)]

----------------------------------------------------------------------------
saddCommand(S, k, es) ==
    LET Add(T, o) ==
            LET new == AddAll(o, es)
                added == Cardinality(new.v) - Cardinality(o.v)
                U == dbAdd(T, k, new)
            IN  Answer(IF added > 0 THEN Changed(U, k, added) ELSE U, added)
        at == LookupOrNew(S, k, "set", setTypeCreate(es[1]))
    IN  Then(at, Add(at.S, at.o))

sremCommand(S, k, es) ==
    LET Rem(T, o) ==
            LET new == [o EXCEPT !.v = @ \ ToSet(es)]
                deleted == Cardinality(o.v) - Cardinality(new.v)
            IN  Answer(IF deleted > 0 THEN Changed(Store(T, k, new), k, deleted) ELSE T, deleted)
        at == Lookup(S, k, "set", 0)
    IN  Then(at, Rem(at.S, at.o))

\* Both keys are signalled, and the move counts once or twice as dst has the element or not.
smoveCommand(S, src, dst, e) ==
    LET T == expireIfNeeded(expireIfNeeded(S, src), dst)
        to == IF dbExists(T, dst) THEN T.dict[dst] ELSE setTypeCreate(e)
        U == Changed(signalModifiedKey(Store(T, src, setTypeRemove(T.dict[src], e)), dst), src, 1)
        V == [dbAdd(U, dst, setTypeAdd(to, e)) EXCEPT !.dirty = @ + (IF e \in to.v THEN 0 ELSE 1)]
    IN  IF ~dbExists(T, src) THEN Answer(T, 0)
        ELSE IF T.dict[src].type # "set" \/ to.type # "set" THEN Answer(T, WrongType)
        ELSE IF src = dst THEN Answer(T, 1)
        ELSE IF ~setTypeIsMember(T.dict[src], e) THEN Answer(T, 0)
        ELSE Answer(V, 1)

sismemberCommand(S, k, e) ==
    LET at == Lookup(S, k, "set", 0)
    IN  Then(at, Answer(at.S, IF setTypeIsMember(at.o, e) THEN 1 ELSE 0))

scardCommand(S, k) ==
    LET at == Lookup(S, k, "set", 0) IN Then(at, Answer(at.S, Cardinality(at.o.v)))

\* The element setTypeRandomElement can give.
RandomElements(S, k) ==
    LET T == expireIfNeeded(S, k)
    IN  IF dbExists(T, k) /\ T.dict[k].type = "set" THEN T.dict[k].v ELSE {Nil}

\* Mutant: SPOP reaches the slave as it came.
spopPropagatedAsIs(S, k, e) ==
    LET at == Lookup(S, k, "set", Nil)
    IN  Then(at, Answer(Changed(Store(at.S, k, setTypeRemove(at.o, e)), k, 1), e))

\* e is the random element; the command is propagated as the SREM of it.
spopCommand(S, k, e) ==
    LET Pop(T, o) ==
            Answer([Changed(Store(T, k, setTypeRemove(o, e)), k, 1) EXCEPT !.argv = <<"SREM", k, <<e>>>>], e)
        at == Lookup(S, k, "set", Nil)
    IN  Then(at, Pop(at.S, at.o))

\* The replies SRANDMEMBER key count may give: with repetitions, in any order, when the
\* count is negative; count distinct elements, or the whole set, otherwise.
SrandmemberReplies(o, count) ==
    IF count < 0 THEN [1..-count -> o.v]
    ELSE IF count >= Cardinality(o.v) THEN {o.v}
    ELSE kSubset(count, o.v)

srandmemberWithCountCommand(S, k, count) ==
    LET at == Lookup(S, k, "set", Empty)
    IN  IF at.o = Nil THEN {at.S}
        ELSE {Answer(at.S, r) : r \in IF count = 0 THEN {Empty} ELSE SrandmemberReplies(at.o, count)}

srandmemberCommand(S, k, e) == LET at == Lookup(S, k, "set", Nil) IN Then(at, Answer(at.S, e))

\* What both families of operations do with the result: reply it, or store it, dst going
\* first and being signalled in any case.
Deliver(S, dst, result) ==
    LET T == Store(dbDelete(S, dst), dst, result)
    IN  IF dst = Nil THEN Answer(S, result.v)
        ELSE Answer(Changed(T, dst, 1), Cardinality(result.v))

\* SINTER and SINTERSTORE (dst # Nil), which stop at the first key missing or of another type.
sinterGenericCommand(S, ks, dst) ==
    LET stop == StopsAt(S, ks, {"set"})
        T == LookupAll(S, ks, {"set"})
        D == dbDelete(T, dst)
        common == {e \in T.dict[ks[1]].v : \A i \in DOMAIN ks : setTypeIsMember(T.dict[ks[i]], e)}
    IN  IF stop = 0 THEN Deliver(T, dst, AddAll(EmptySet("intset"), SetToSeq(common)))
        ELSE IF dbExists(T, ks[stop]) THEN Answer(T, WrongType)
        ELSE IF dst = Nil THEN Answer(T, Empty)
        ELSE Answer(IF dbExists(T, dst) THEN Changed(D, dst, 1) ELSE D, 0)

\* SUNION, SDIFF and their STORE forms, to which a missing key is an empty set: the result
\* grows from the first set on, so it may have left the intset encoding for elements SDIFF
\* takes out again.
sunionDiffGenericCommand(S, ks, dst, op) ==
    LET taken == {"none", "set"}
        T == LookupAll(S, ks, taken)
        sets == [i \in DOMAIN ks |-> IF dbExists(T, ks[i]) THEN T.dict[ks[i]].v ELSE {}]
        union[i \in 0..Len(ks)] ==
            IF i = 0 THEN EmptySet("intset") ELSE AddAll(union[i - 1], SetToSeq(sets[i]))
        diff == [union[1] EXCEPT !.v = @ \ UNION Range(Tail(sets))]
    IN  IF StopsAt(S, ks, taken) # 0 THEN Answer(T, WrongType)
        ELSE Deliver(T, dst, IF op = "union" THEN union[Len(ks)] ELSE diff)
=============================================================================
