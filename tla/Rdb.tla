-------------------------------- MODULE Rdb --------------------------------
(* How a dataset becomes a file and comes back: the dump of rdb.c and the    *)
(* rewritten log of aof.c.  A dump lists entries [key, expire, rdbtype,      *)
(* payload]; a ziplist or an intset is written as it lies in memory, the     *)
(* other encodings element by element.  A log lists commands.                *)
EXTENDS Commands

CONSTANT ItemsPerCmd    \* REDIS_AOF_REWRITE_ITEMS_PER_CMD
ASSUME ItemsPerCmdBound == ItemsPerCmd \in Nat \ {0}

RdbType(o) ==
    CASE o.type = "string"                           -> "STRING"
      [] o.type = "list" /\ o.enc = "ziplist"        -> "LIST_ZIPLIST"
      [] o.type = "list" /\ o.enc = "linkedlist"     -> "LIST"
      [] o.type = "set"  /\ o.enc = "intset"         -> "SET_INTSET"
      [] o.type = "set"  /\ o.enc = "ht"             -> "SET"
      [] o.type = "zset" /\ o.enc = "ziplist"        -> "ZSET_ZIPLIST"
      [] o.type = "zset" /\ o.enc = "skiplist"       -> "ZSET"
      [] o.type = "hash" /\ o.enc = "ziplist"        -> "HASH_ZIPLIST"
      [] o.type = "hash" /\ o.enc = "ht"             -> "HASH"

\* The pairs of a function, in some order (that of a table's iterator).
Listed(f) == LET keys == SetToSeq(DOMAIN f) IN [i \in DOMAIN keys |-> <<keys[i], f[keys[i]]>>]

rdbSaveObject(o) ==
    CASE RdbType(o) = "SET"             -> SetToSeq(o.v)
      [] RdbType(o) \in {"ZSET", "HASH"} -> Listed(o.v)
      [] OTHER                           -> o.v

\* An expired key is left out.
Skipped(expire, now) == expire # -1 /\ expire < now

rdbSaveKeyValuePair(k, o, expire) ==
    [key |-> k, expire |-> expire, rdbtype |-> RdbType(o), payload |-> rdbSaveObject(o)]

\* The dump of the dataset D = [dict, expires] at the instant now.
rdbSave(D, now) ==
    LET kept == SetToSeq({k \in DOMAIN D.dict : ~Skipped(getExpire(D, k), now)})
    IN  [i \in DOMAIN kept |-> rdbSaveKeyValuePair(kept[i], D.dict[kept[i]], getExpire(D, kept[i]))]

----------------------------------------------------------------------------
\* Loading an object gives it the encoding the limits of the loading server ask for, which
\* is not always the one it was saved from.

rdbLoadList(es) ==
    LET Add(o, e) ==
            LET p == IF o.enc = "ziplist" /\ e \in BigElems THEN listTypeConvert(o) ELSE o
            IN  [p EXCEPT !.v = Append(@, e)]
    IN  FoldLeft(Add, IF Len(es) > ListMaxZiplist THEN listTypeConvert(NewList) ELSE NewList, es)

rdbLoadSet(es) ==
    LET Add(o, e) ==
            LET p == IF o.enc = "intset" /\ e \notin IntElems THEN setTypeConvert(o) ELSE o
            IN  [p EXCEPT !.v = @ \cup {e}]
    IN  FoldLeft(Add, EmptySet(IF Len(es) > SetMaxIntset THEN "ht" ELSE "intset"), es)

\* Pairs come in no order: the skip list sorts them before it may become a ziplist.
rdbLoadZset(ps) ==
    LET o == [type |-> "zset", enc |-> "skiplist", v |-> FoldLeft(LAMBDA f, p: With(f, p[1], p[2]), Empty, ps)]
        fits == Len(ps) <= ZsetMaxZiplist /\ \A p \in Range(ps) : p[1] \notin BigElems
    IN  IF fits THEN zsetConvert(o, "ziplist") ELSE o

rdbLoadHash(ps) ==
    LET long == \E p \in Range(ps) : p[1] \in BigElems \/ Len(p[2]) > HashMaxValue
    IN  [type |-> "hash", enc |-> IF Len(ps) > HashMaxZiplist \/ long THEN "ht" ELSE "ziplist",
         v |-> FoldLeft(LAMBDA f, p: With(f, p[1], p[2]), Empty, ps)]

\* Only the length of what lies in memory as it was saved is looked at.
rdbLoadBlob(rdbtype, b) ==
    CASE rdbtype = "LIST_ZIPLIST" ->
            [type |-> "list", enc |-> IF Len(b) > ListMaxZiplist THEN "linkedlist" ELSE "ziplist", v |-> b]
      [] rdbtype = "SET_INTSET" ->
            [type |-> "set", enc |-> IF Cardinality(b) > SetMaxIntset THEN "ht" ELSE "intset", v |-> b]
      [] rdbtype = "ZSET_ZIPLIST" ->
            LET o == [type |-> "zset", enc |-> "ziplist", v |-> b]
            IN  IF Len(b) > ZsetMaxZiplist THEN zsetConvert(o, "skiplist") ELSE o
      [] rdbtype = "HASH_ZIPLIST" ->
            [type |-> "hash", enc |-> IF Cardinality(DOMAIN b) > HashMaxZiplist THEN "ht" ELSE "ziplist", v |-> b]

rdbLoadObject(rdbtype, payload) ==
    CASE rdbtype = "STRING" -> tryObjectEncoding(payload)
      [] rdbtype = "LIST"   -> rdbLoadList(payload)
      [] rdbtype = "SET"    -> rdbLoadSet(payload)
      [] rdbtype = "ZSET"   -> rdbLoadZset(payload)
      [] rdbtype = "HASH"   -> rdbLoadHash(payload)
      [] OTHER              -> rdbLoadBlob(rdbtype, payload)

\* The dataset a dump holds.  A master drops the keys that have expired since; a slave
\* leaves that to its master.
rdbLoad(dump, now, master) ==
    LET Add(D, e) ==
            LET E == [D EXCEPT !.dict = With(@, e.key, rdbLoadObject(e.rdbtype, e.payload))]
            IN  IF master /\ Skipped(e.expire, now) THEN D
                ELSE IF e.expire # -1 THEN setExpire(E, e.key, e.expire) ELSE E
    IN  FoldLeft(Add, [dict |-> Empty, expires |-> Empty], dump)

----------------------------------------------------------------------------
\* The log rewritten from a dataset.

\* A sequence cut into commands of at most ItemsPerCmd items.
Cut(es) ==
    [i \in 1..((Len(es) + ItemsPerCmd - 1) \div ItemsPerCmd) |->
        SubSeq(es, (i - 1) * ItemsPerCmd + 1, Min({i * ItemsPerCmd, Len(es)}))]

rewriteListObject(k, o) == LET c == Cut(o.v) IN [i \in DOMAIN c |-> <<"PUSH", k, c[i], "tail">>]

rewriteSetObject(k, o) == LET c == Cut(SetToSeq(o.v)) IN [i \in DOMAIN c |-> <<"SADD", k, c[i]>>]

rewriteSortedSetObject(k, o) ==
    LET d == Dict(o)
        keys == SetToSeq(DOMAIN d)
        c == Cut([i \in DOMAIN keys |-> <<d[keys[i]], keys[i]>>])
    IN  [i \in DOMAIN c |-> <<"ZADD", k, c[i]>>]

rewriteHashObject(k, o) == LET c == Cut(Listed(o.v)) IN [i \in DOMAIN c |-> <<"HMSET", k, c[i]>>]

rewriteKey(D, k) ==
    LET o == D.dict[k]
    IN  (CASE o.type = "string" -> <<<<"SET", k, o.v, Nil, "">>>>
           [] o.type = "list"   -> rewriteListObject(k, o)
           [] o.type = "set"    -> rewriteSetObject(k, o)
           [] o.type = "zset"   -> rewriteSortedSetObject(k, o)
           [] o.type = "hash"   -> rewriteHashObject(k, o))
        \o (IF getExpire(D, k) # -1 THEN <<<<"EXPIREAT", k, getExpire(D, k)>>>> ELSE Empty)

rewriteAppendOnlyFile(D, now) ==
    FlattenSeq([i \in 1..Cardinality(DOMAIN D.dict) |->
        LET k == SetToSeq(DOMAIN D.dict)[i]
        IN  IF Skipped(getExpire(D, k), now) THEN Empty ELSE rewriteKey(D, k)])
=============================================================================
