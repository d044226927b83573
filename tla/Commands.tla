----------------------------- MODULE Commands -----------------------------
(* The command table of redis.c, and call(), which runs a command and says   *)
(* what is propagated of it.  A command is a sequence: its name, then the    *)
(* parsed arguments the operator of the command takes.                       *)
EXTENDS TSort

\* The row of a command says how it is executed: the set of the records it may leave.
stringTable(S, c) ==
    CASE c[1] = "SET"         -> {setCommand(S, c[2], c[3], c[4], c[5])}
      [] c[1] = "SETNX"       -> {setnxCommand(S, c[2], c[3])}
      [] c[1] = "SETEX"       -> {setexCommand(S, c[2], c[3], c[4])}
      [] c[1] = "GET"         -> {getGenericCommand(S, c[2])}
      [] c[1] = "GETSET"      -> {getsetCommand(S, c[2], c[3])}
      [] c[1] = "SETRANGE"    -> {setrangeCommand(S, c[2], c[3], c[4])}
      [] c[1] = "GETRANGE"    -> {getrangeCommand(S, c[2], c[3], c[4])}
      [] c[1] = "MGET"        -> {mgetCommand(S, c[2])}
      [] c[1] = "MSET"        -> {msetGenericCommand(S, c[2], FALSE)}
      [] c[1] = "MSETNX"      -> {msetGenericCommand(S, c[2], TRUE)}
      [] c[1] = "INCRBY"      -> {incrDecrCommand(S, c[2], c[3])}
      [] c[1] = "DECRBY"      -> {decrbyCommand(S, c[2], c[3])}
      [] c[1] = "INCRBYFLOAT" -> {incrbyfloatCommand(S, c[2], c[3])}
      [] c[1] = "APPEND"      -> {appendCommand(S, c[2], c[3])}
      [] c[1] = "STRLEN"      -> {strlenCommand(S, c[2])}

listTable(S, c) ==
    CASE c[1] = "PUSH"      -> {pushGenericCommand(S, c[2], c[3], c[4])}
      [] c[1] = "PUSHX"     -> {pushxCommand(S, c[2], c[3], c[4])}
      [] c[1] = "LINSERT"   -> {linsertCommand(S, c[2], c[3], c[4], c[5])}
      [] c[1] = "LLEN"      -> {llenCommand(S, c[2])}
      [] c[1] = "LINDEX"    -> {lindexCommand(S, c[2], c[3])}
      [] c[1] = "LSET"      -> {lsetCommand(S, c[2], c[3], c[4])}
      [] c[1] = "POP"       -> {popGenericCommand(S, c[2], c[3])}
      [] c[1] = "LRANGE"    -> {lrangeCommand(S, c[2], c[3], c[4])}
      [] c[1] = "LTRIM"     -> {ltrimCommand(S, c[2], c[3], c[4])}
      [] c[1] = "LREM"      -> {lremCommand(S, c[2], c[3], c[4])}
      [] c[1] = "RPOPLPUSH" -> {rpoplpushCommand(S, c[2], c[3])}

setTable(S, c) ==
    CASE c[1] = "SADD"        -> {saddCommand(S, c[2], c[3])}
      [] c[1] = "SREM"        -> {sremCommand(S, c[2], c[3])}
      [] c[1] = "SMOVE"       -> {smoveCommand(S, c[2], c[3], c[4])}
      [] c[1] = "SISMEMBER"   -> {sismemberCommand(S, c[2], c[3])}
      [] c[1] = "SCARD"       -> {scardCommand(S, c[2])}
      [] c[1] = "SPOP"        -> {spopCommand(S, c[2], e) : e \in RandomElements(S, c[2])}
      [] c[1] = "SRANDMEMBER" -> {srandmemberCommand(S, c[2], e) : e \in RandomElements(S, c[2])}
      [] c[1] = "SRANDMEMBERS" -> srandmemberWithCountCommand(S, c[2], c[3])
      [] c[1] = "SINTER"      -> {sinterGenericCommand(S, c[2], c[3])}
      [] c[1] = "SUNION"      -> {sunionDiffGenericCommand(S, c[2], c[3], "union")}
      [] c[1] = "SDIFF"       -> {sunionDiffGenericCommand(S, c[2], c[3], "diff")}

hashTable(S, c) ==
    CASE c[1] = "HSET"         -> {hsetCommand(S, c[2], c[3], c[4])}
      [] c[1] = "HSETNX"       -> {hsetnxCommand(S, c[2], c[3], c[4])}
      [] c[1] = "HMSET"        -> {hmsetCommand(S, c[2], c[3])}
      [] c[1] = "HINCRBY"      -> {hincrbyCommand(S, c[2], c[3], c[4])}
      [] c[1] = "HINCRBYFLOAT" -> {hincrbyfloatCommand(S, c[2], c[3], c[4])}
      [] c[1] = "HGET"         -> {hgetCommand(S, c[2], c[3])}
      [] c[1] = "HMGET"        -> {hmgetCommand(S, c[2], c[3])}
      [] c[1] = "HDEL"         -> {hdelCommand(S, c[2], c[3])}
      [] c[1] = "HLEN"         -> {hlenCommand(S, c[2])}
      [] c[1] = "HGETALL"      -> {genericHgetallCommand(S, c[2], c[3], c[4])}
      [] c[1] = "HEXISTS"      -> {hexistsCommand(S, c[2], c[3])}

zsetTable(S, c) ==
    CASE c[1] = "ZADD"    -> {zaddGenericCommand(S, c[2], c[3], FALSE)}
      [] c[1] = "ZINCRBY" -> {zaddGenericCommand(S, c[2], c[3], TRUE)}
      [] c[1] = "ZREM"    -> {zremCommand(S, c[2], c[3])}
      [] c[1] = "ZREMRANGEBYSCORE" -> {zremrangebyscoreCommand(S, c[2], c[3])}
      [] c[1] = "ZREMRANGEBYRANK"  -> {zremrangebyrankCommand(S, c[2], c[3], c[4])}
      [] c[1] = "ZSTORE"  -> {zunionInterGenericCommand(S, c[2], c[3], c[4], c[5], c[6])}
      [] c[1] = "ZRANGE"  -> {zrangeGenericCommand(S, c[2], c[3], c[4], c[5])}
      [] c[1] = "ZRANGEBYSCORE" -> {genericZrangebyscoreCommand(S, c[2], c[3], c[4], c[5], c[6])}
      [] c[1] = "ZCOUNT"  -> {zcountCommand(S, c[2], c[3])}
      [] c[1] = "ZCARD"   -> {zcardCommand(S, c[2])}
      [] c[1] = "ZSCORE"  -> {zscoreCommand(S, c[2], c[3])}
      [] c[1] = "ZRANK"   -> {zrankGenericCommand(S, c[2], c[3], c[4])}

genericTable(S, c) ==
    CASE c[1] = "DEL"      -> {delCommand(S, c[2])}
      [] c[1] = "EXISTS"   -> {existsCommand(S, c[2])}
      [] c[1] = "RANDOMKEY" -> randomkeyCommand(S)
      [] c[1] = "KEYS"     -> {keysCommand(S, c[2])}
      [] c[1] = "TYPE"     -> {typeCommand(S, c[2])}
      [] c[1] = "RENAME"   -> {renameGenericCommand(S, c[2], c[3], FALSE)}
      [] c[1] = "RENAMENX" -> {renameGenericCommand(S, c[2], c[3], TRUE)}
      [] c[1] = "MOVE"     -> {moveCommand(S, c[2])}
      [] c[1] = "FLUSHDB"  -> {flushdbCommand(S)}
      [] c[1] = "FLUSHALL" -> {flushallCommand(S)}
      [] c[1] = "EXPIRE"   -> {expireGenericCommand(S, c[2], S.now + c[3])}
      [] c[1] = "EXPIREAT" -> {expireGenericCommand(S, c[2], c[3])}
      [] c[1] = "TTL"      -> {ttlGenericCommand(S, c[2])}
      [] c[1] = "PERSIST"  -> {persistCommand(S, c[2])}
      [] c[1] = "SORT"     -> sortCommand(S, c[2], c[3])

Strings == {"SET", "SETNX", "SETEX", "GET", "GETSET", "SETRANGE", "GETRANGE", "MGET", "MSET", "MSETNX",
            "INCRBY", "DECRBY", "INCRBYFLOAT", "APPEND", "STRLEN"}
Lists   == {"PUSH", "PUSHX", "LINSERT", "LLEN", "LINDEX", "LSET", "POP", "LRANGE", "LTRIM", "LREM", "RPOPLPUSH"}
Sets    == {"SADD", "SREM", "SMOVE", "SISMEMBER", "SCARD", "SPOP", "SRANDMEMBER", "SRANDMEMBERS",
            "SINTER", "SUNION", "SDIFF"}
Hashes  == {"HSET", "HSETNX", "HMSET", "HINCRBY", "HINCRBYFLOAT", "HGET", "HMGET", "HDEL", "HLEN", "HGETALL",
            "HEXISTS"}
Zsets   == {"ZADD", "ZINCRBY", "ZREM", "ZREMRANGEBYSCORE", "ZREMRANGEBYRANK", "ZSTORE", "ZRANGE", "ZRANGEBYSCORE",
            "ZCOUNT", "ZCARD", "ZSCORE", "ZRANK"}

\* c->cmd->proc(c)
proc(S, c) ==
    CASE c[1] \in Strings -> stringTable(S, c)
      [] c[1] \in Lists   -> listTable(S, c)
      [] c[1] \in Sets    -> setTable(S, c)
      [] c[1] \in Hashes  -> hashTable(S, c)
      [] c[1] \in Zsets   -> zsetTable(S, c)
      [] OTHER            -> genericTable(S, c)

\* The record a command starts from: nothing counted, signalled or propagated yet, and its
\* own arguments to propagate.
Start(S, c) == [S EXCEPT !.dirty = 0, !.touched = {}, !.argv = c, !.ready = <<>>, !.dels = <<>>, !.reply = Nil]

call(S, c) == proc(Start(S, c), c)

\* What propagate() is given for the command that left T: the DELs of expired keys, then the
\* command if it changed something.
Propagated(T) == T.dels \o (IF T.dirty > 0 THEN <<T.argv>> ELSE <<>>)

\* A freshly started server.
EmptyServer == [dict |-> Empty, expires |-> Empty, other |-> [dict |-> Empty, expires |-> Empty],
                now |-> 0, dirty |-> 0, touched |-> {}, argv |-> NoCommand, ready |-> <<>>, dels |-> <<>>,
                reply |-> Nil, master |-> TRUE, loading |-> FALSE]

\* The content of a value, whatever its encoding.
ValueOf(o) == IF o.type = "zset" THEN Dict(o) ELSE o.v
Contents(d) == [k \in DOMAIN d |-> <<d[k].type, ValueOf(d[k])>>]

\* How many elements, or bytes.
Size(o) == IF o.type = "set" THEN Cardinality(o.v) ELSE Cardinality(DOMAIN o.v)
=============================================================================
