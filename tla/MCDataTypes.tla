---------------------------- MODULE MCDataTypes ----------------------------
(* Two keys and one family of commands at a time.  The elements are two      *)
(* integers, a short string and one too long for a ziplist; longs run from   *)
(* -13 to 12, so that a two digit number overflows.                          *)
EXTENDS DataTypes

CONSTANTS k1, k2, n1, n2, a, big

MCLongMin == -13
MCElemOrder == <<n1, n2, a, big>>
MCSub == [e \in Elems |-> IF e \in {n1, a} THEN k1 ELSE k2]

One == <<"1">>
X   == <<"x">>

StringCalls ==
    {<<"SET", k1, X, Nil, f>> : f \in {"", "NX", "XX"}} \cup {<<"GETSET", k1, <<"0">>>>}
    \cup {<<"SETNX", k, One>> : k \in Keys}
    \cup {<<"SETRANGE", k1, i, s>> : i \in {-1, 1, 3}, s \in {Empty, <<"2">>}}
    \cup {<<"GETRANGE", k1, i, j>> : i \in {-1, 0}, j \in {-2, 5}}
    \cup {<<"MGET", <<k1, k2>>>>, <<"MSET", <<<<k1, One>>, <<k2, X>>>>>>,
          <<"MSET", <<<<k1, X>>, <<k1, One>>>>>>, <<"MSETNX", <<<<k1, One>>, <<k2, X>>>>>>}
    \cup {<<"INCRBY", k1, i>> : i \in {-9, 9}} \cup {<<"INCRBYFLOAT", k1, i>> : i \in {1, 9}}
    \cup {<<"DECRBY", k, 9>> : k \in Keys} \cup {<<"DECRBY", k1, -13>>}
    \cup {<<"APPEND", k1, s>> : s \in {One, <<"-", "1">>}}
    \cup {<<op, k1>> : op \in {"GET", "STRLEN"}} \cup {<<"DEL", <<k1, k2>>>>, <<"DEL", <<k1>>>>}

ListCalls ==
    {<<"PUSH", k, es, w>> : k \in Keys, es \in {<<n1>>, <<a>>, <<a, n1>>}, w \in {"head", "tail"}}
    \cup {<<"PUSHX", k, e, "head">> : k \in Keys, e \in {n1, big}}
    \cup {<<"LINSERT", k1, a, e, w>> : e \in {n1, big}, w \in {"head", "tail"}}
    \cup {<<"LSET", k1, i, e>> : i \in {-3, 0, 1}, e \in {n1, big}}
    \cup {<<"POP", k, w>> : k \in Keys, w \in {"head", "tail"}}
    \cup {<<op, k1, i, j>> : op \in {"LRANGE", "LTRIM"}, i \in {-2, 0, 1}, j \in {-1, 1}}
    \cup {<<"LREM", k1, i, a>> : i \in {-1, 0, 1}}
    \cup {<<"RPOPLPUSH", k, l>> : k \in Keys, l \in Keys}
    \cup {<<"LLEN", k1>>, <<"LINDEX", k1, -1>>, <<"DEL", <<k2>>>>, <<"SADD", k2, <<a>>>>}

SetCalls ==
    {<<op, k, es>> : op \in {"SADD", "SREM"}, k \in Keys, es \in {<<n1>>, <<a>>, <<n2, n1>>, <<big, a>>}}
    \cup {<<"SMOVE", k, l, e>> : k \in Keys, l \in Keys, e \in {n1, a}}
    \cup {<<op, k>> : op \in {"SPOP", "SRANDMEMBER", "SCARD"}, k \in Keys}
    \cup {<<"SRANDMEMBERS", k1, i>> : i \in {-2, 0, 1, 2}}
    \cup {<<op, ks, d>> : op \in {"SINTER", "SUNION", "SDIFF"}, ks \in {<<k1>>, <<k1, k2>>, <<k2, k1>>}, d \in Keys \cup {Nil}}
    \cup {<<"SISMEMBER", k1, e>> : e \in {n1, a}}
    \cup {<<"SETNX", k2, One>>}

HashCalls ==
    {<<op, k1, f, s>> : op \in {"HSET", "HSETNX"}, f \in {a, big}, s \in {One, <<"x", "x">>}}
    \cup {<<"HMSET", k1, ps>> : ps \in {<<<<a, One>>, <<n1, X>>>>, <<<<n1, X>>, <<n2, One>>, <<n1, One>>>>}}
    \cup {<<op, k, f, 9>> : op \in {"HINCRBY", "HINCRBYFLOAT"}, k \in Keys, f \in {a, big}}
    \cup {<<"HDEL", k, fs>> : k \in Keys, fs \in {<<a>>, <<n1, big, n1>>}}
    \cup {<<"HGET", k1, a>>, <<"HMGET", k1, <<a, n1>>>>, <<"HLEN", k1>>, <<"HEXISTS", k1, n1>>,
          <<"HGETALL", k1, TRUE, FALSE>>, <<"PUSH", k2, <<a>>, "head">>}

ScoreRanges == {[min |-> 0, max |-> 1, minex |-> FALSE, maxex |-> TRUE],
                [min |-> 0, max |-> Inf, minex |-> TRUE, maxex |-> FALSE]}

ZsetCalls ==
    {<<"ZADD", k1, <<<<x, e>>>>>> : x \in {0, 1}, e \in {a, big}}
    \cup {<<"ZADD", k2, <<<<1, n1>>, <<1, a>>>>>>, <<"ZADD", k2, <<<<Inf, n1>>, <<1, n1>>>>>>}
    \cup {<<"ZINCRBY", k1, <<<<x, a>>>>>> : x \in {1, -Inf}}
    \cup {<<"ZREM", k, es>> : k \in Keys, es \in {<<n1>>, <<a, big, a>>}}
    \cup {<<"ZREMRANGEBYSCORE", k1, r>> : r \in ScoreRanges}
    \cup {<<"ZREMRANGEBYRANK", k1, i, j>> : i \in {0, 1}, j \in {-1, 0}}
    \cup {<<"ZSTORE", k2, <<k1, k2>>, <<w, 1>>, ag, op>> :
            w \in {-1, 2}, ag \in {"sum", "max"}, op \in {"union", "inter"}}
    \cup {<<"ZSTORE", k1, <<k2, k1>>, <<1, 1>>, "min", "inter">>}
    \cup {<<"ZRANGE", k1, 0, -1, FALSE>>, <<"ZCARD", k1>>, <<"ZSCORE", k1, a>>, <<"ZRANK", k1, a, TRUE>>}
    \cup {<<"ZRANGEBYSCORE", k1, r, 0, -1, b>> : r \in ScoreRanges, b \in BOOLEAN}
    \cup {<<"ZCOUNT", k1, r>> : r \in ScoreRanges}
    \cup {<<"SORT", k1, [by |-> Nil, desc |-> FALSE, alpha |-> TRUE, start |-> 0, count |-> -1,
                         get |-> Empty, store |-> Nil]>>}

Query(by, desc, alpha, start, count, get, store) ==
    [by |-> by, desc |-> desc, alpha |-> alpha, start |-> start, count |-> count, get |-> get, store |-> store]

SortCalls ==
    {<<"SADD", k1, es>> : es \in {<<n1>>, <<n2>>, <<a>>}} \cup {<<"PUSH", k1, <<e>>, "head">> : e \in {n2, a, big}}
    \cup {<<"ZADD", k1, <<<<x, e>>>>>> : x \in {0, 1}, e \in {n1, n2}}
    \cup {<<"HSET", k2, a, One>>, <<"SETNX", k2, One>>, <<"DEL", <<k1>>>>, <<"DEL", <<k2>>>>}
    \cup {<<"SORT", k1, Query(by, desc, alpha, 0, -1, Empty, k2)>> :
            by \in {Nil, "const"}, desc \in BOOLEAN, alpha \in BOOLEAN}
    \cup {<<"SORT", k1, Query("star", FALSE, FALSE, 1, 1, <<"#">>, st)>> : st \in {k2, Nil}}
    \cup {<<"SORT", k1, Query(a, FALSE, TRUE, 0, 2, <<"#", "star">>, Nil)>>,
          <<"SORT", k2, Query(Nil, TRUE, TRUE, -1, 2, Empty, k2)>>}

\* EXPIREAT asks for instants in the past too; SET with a time and INCRBYFLOAT, whose
\* propagated forms differ in the time they leave, keep to keys without an expire.
ExpireCalls ==
    {<<"SET", k, X, Nil, f>> : k \in Keys, f \in {"", "NX"}} \cup {<<"SETEX", k1, One, 1>>}
    \cup {<<"EXPIRE", k1, 1>>} \cup {<<"EXPIREAT", k, t>> : k \in Keys, t \in {0, 2}}
    \cup {<<op, k1>> : op \in {"TTL", "PERSIST", "EXISTS", "TYPE", "GET", "MOVE"}}
    \cup {<<op, k, l>> : op \in {"RENAME", "RENAMENX"}, k \in Keys, l \in Keys}
    \cup {<<"KEYS", Keys>>, <<"RANDOMKEY">>, <<"FLUSHDB">>, <<"FLUSHALL">>, <<"DEL", <<k1, k2>>>>}

MCCalls == [f \in {"string", "list", "set", "hash", "zset", "sort", "expire"} |->
              CASE f = "string" -> StringCalls [] f = "list" -> ListCalls [] f = "set" -> SetCalls
                [] f = "hash" -> HashCalls [] f = "zset" -> ZsetCalls [] f = "sort" -> SortCalls
                [] f = "expire" -> ExpireCalls]
=============================================================================
