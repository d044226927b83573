------------------------------- MODULE THash -------------------------------
(* The hash type, t_hash.c.  The v of a hash is the function from its fields *)
(* (Elems) to their values (bytes); enc is "ziplist" or "ht" and never goes  *)
(* back.  The order in which a ziplist or a table lists them is left out.    *)
EXTENDS TString

CONSTANTS HashMaxZiplist,  \* server.hash_max_ziplist_entries
          HashMaxValue     \* server.hash_max_ziplist_value
ASSUME HashBounds == HashMaxZiplist \in Nat \ {0} /\ HashMaxValue \in Nat

NewHash == [type |-> "hash", enc |-> "ziplist", v |-> Empty]

hashTypeConvert(o) == [o EXCEPT !.enc = "ht"]

\* Looks at fields and values before any of them is set.
hashTypeTryConversion(o, pairs) ==
    IF \E p \in Range(pairs) : p[1] \in BigElems \/ Len(p[2]) > HashMaxValue
    THEN hashTypeConvert(o) ELSE o

hashTypeExists(o, f) == f \in DOMAIN o.v

hashTypeGetObject(o, f) == IF hashTypeExists(o, f) THEN o.v[f] ELSE Nil

hashTypeSet(o, f, s) ==
    LET p == [o EXCEPT !.v = With(@, f, s)]
    IN  IF Cardinality(DOMAIN p.v) > HashMaxZiplist THEN hashTypeConvert(p) ELSE p

\* The hash is created on the spot when the key is missing.
hashTypeLookupWriteOrCreate(S, k) ==
    LET T == expireIfNeeded(S, k)
    IN  IF dbExists(T, k) THEN Checked(T, T.dict[k], "hash")
        ELSE [S |-> dbAdd(T, k, NewHash), o |-> NewHash]

----------------------------------------------------------------------------
hsetCommand(S, k, f, s) ==
    LET Set(T, o) ==
            Answer(Changed(dbAdd(T, k, hashTypeSet(hashTypeTryConversion(o, <<<<f, s>>>>), f, s)), k, 1),
                   IF hashTypeExists(o, f) THEN 0 ELSE 1)
        at == hashTypeLookupWriteOrCreate(S, k)
    IN  Then(at, Set(at.S, at.o))

\* The conversion stays even when the field exists.
hsetnxCommand(S, k, f, s) ==
    LET Set(T, o) ==
            LET p == hashTypeTryConversion(o, <<<<f, s>>>>)
            IN  IF hashTypeExists(p, f) THEN Answer(dbAdd(T, k, p), 0)
                ELSE Answer(Changed(dbAdd(T, k, hashTypeSet(p, f, s)), k, 1), 1)
        at == hashTypeLookupWriteOrCreate(S, k)
    IN  Then(at, Set(at.S, at.o))

\* Counts as one change.
hmsetCommand(S, k, pairs) ==
    LET Set(T, o) ==
            LET after[i \in 0..Len(pairs)] ==
                    IF i = 0 THEN hashTypeTryConversion(o, pairs)
                    ELSE hashTypeSet(after[i - 1], pairs[i][1], pairs[i][2])
            IN  Answer(Changed(dbAdd(T, k, after[Len(pairs)]), k, 1), OK)
        at == hashTypeLookupWriteOrCreate(S, k)
    IN  Then(at, Set(at.S, at.o))

\* A field of any length stays in the ziplist: hashTypeTryConversion is not called.
hincrbyCommand(S, k, f, incr) ==
    LET Incr(T, o) ==
            LET old == IF hashTypeExists(o, f) THEN getLongLongFromObject(o.v[f]) ELSE 0
                overflow == \/ incr < 0 /\ old < 0 /\ incr < LongMin - old
                            \/ incr > 0 /\ old > 0 /\ incr > LongMax - old
                new == hashTypeSet(o, f, ll2string(old + incr))
            IN  IF old = Nil THEN Answer(T, Err)
                ELSE IF overflow THEN Answer(T, Err)
                ELSE Answer(Changed(dbAdd(T, k, new), k, 1), old + incr)
        at == hashTypeLookupWriteOrCreate(S, k)
    IN  Then(at, Incr(at.S, at.o))

\* Propagated as the HSET of the result.  Nothing tests the sum for infinity.
hincrbyfloatCommand(S, k, f, incr) ==
    LET Incr(T, o) ==
            LET old == IF hashTypeExists(o, f) THEN getLongLongFromObject(o.v[f]) ELSE 0
                new == ll2string(old + incr)
            IN  IF old = Nil THEN Answer(T, Err)
                ELSE Answer([Changed(dbAdd(T, k, hashTypeSet(o, f, new)), k, 1)
                                EXCEPT !.argv = <<"HSET", k, f, new>>], new)
        at == hashTypeLookupWriteOrCreate(S, k)
    IN  Then(at, Incr(at.S, at.o))

hgetCommand(S, k, f) ==
    LET at == Lookup(S, k, "hash", Nil) IN Then(at, Answer(at.S, hashTypeGetObject(at.o, f)))

hmgetCommand(S, k, fs) ==
    LET at == LookupOrNew(S, k, "hash", NewHash)
    IN  Then(at, Answer(at.S, [i \in DOMAIN fs |-> hashTypeGetObject(at.o, fs[i])]))

hdelCommand(S, k, fs) ==
    LET Del(T, o) ==
            LET new == [o EXCEPT !.v = WithoutAll(@, ToSet(fs))]
                deleted == Cardinality(DOMAIN o.v) - Cardinality(DOMAIN new.v)
            IN  Answer(IF deleted > 0 THEN Changed(Store(T, k, new), k, deleted) ELSE T, deleted)
        at == Lookup(S, k, "hash", 0)
    IN  Then(at, Del(at.S, at.o))

hlenCommand(S, k) ==
    LET at == Lookup(S, k, "hash", 0) IN Then(at, Answer(at.S, Cardinality(DOMAIN at.o.v)))

\* HKEYS, HVALS and HGETALL: the fields, the values, or both, of every pair.
genericHgetallCommand(S, k, keys, vals) ==
    LET Part(o, f) == (IF keys THEN <<f>> ELSE <<>>) \o (IF vals THEN <<o.v[f]>> ELSE <<>>)
        at == Lookup(S, k, "hash", Empty)
    IN  Then(at, Answer(at.S, [f \in DOMAIN at.o.v |-> Part(at.o, f)]))

hexistsCommand(S, k, f) ==
    LET at == Lookup(S, k, "hash", 0)
    IN  Then(at, Answer(at.S, IF hashTypeExists(at.o, f) THEN 1 ELSE 0))
=============================================================================
