--------------------------- MODULE MCPersistence ---------------------------
(* Three seconds at most, two keys.  A family is a configuration, what its   *)
(* clients ask and what may fail.                                            *)
EXTENDS Persistence

CONSTANTS k1, k2, n1, a, big

MCLongMin == -3
MCElemOrder == <<n1, a, big>>
MCSub == [e \in Elems |-> k1]

X   == <<"x">>
One == <<"1">>

Default == [appendonly |-> TRUE, fsync |-> "always", nofsync |-> FALSE, save |-> Empty, perc |-> 0]

MCConf ==
    [always   |-> Default,
     everysec |-> [Default EXCEPT !.fsync = "everysec"],
     nofsync  |-> [Default EXCEPT !.nofsync = TRUE, !.perc = 100],
     toggle   |-> [Default EXCEPT !.appendonly = FALSE, !.fsync = "no"],
     types    |-> [Default EXCEPT !.fsync = "no"],
     save     |-> [Default EXCEPT !.appendonly = FALSE, !.save = <<2, 1>>],
     dump     |-> [Default EXCEPT !.appendonly = FALSE]]

Plain == {<<<<"SET", k1, X, Nil, "">>>>, <<<<"INCRBY", k2, 1>>>>}
Brief == {<<<<"SETEX", k1, One, 1>>>>, <<<<"INCRBY", k1, 1>>>>}
Expiring == {<<<<"EXPIRE", k1, 1>>>>}
Trans == {<<<<"DEL", <<k1>>>>, <<"INCRBY", k2, 1>>>>}
Typed == {<<<<"DEL", <<k1>>>>>>, <<<<"PUSH", k1, <<n1, big, a>>, "head">>>>, <<<<"POP", k1, "tail">>>>,
          <<<<"SADD", k1, <<a, n1, big>>>>>>, <<<<"SPOP", k1>>>>,
          <<<<"ZADD", k1, <<<<1, a>>, <<2, n1>>, <<1, n1>>>>>>>>, <<<<"ZINCRBY", k1, <<<<1, big>>>>>>>>,
          <<<<"HMSET", k1, <<<<a, One>>, <<n1, X>>, <<big, X>>>>>>>>, <<<<"HDEL", k1, <<a, big>>>>>>}

MCCalls ==
    [always |-> Plain \cup Trans, everysec |-> Brief, nofsync |-> Plain, toggle |-> Brief \cup Expiring,
     types |-> Typed, save |-> Brief, dump |-> Typed]

MCAsked ==
    [always |-> {"BGREWRITEAOF", "SHUTDOWN"}, everysec |-> {"BGREWRITEAOF"}, nofsync |-> {"BGSAVE"},
     toggle |-> {"APPENDONLY", "BGREWRITEAOF"}, types |-> {"BGREWRITEAOF"},
     save |-> {"BGSAVE", "SAVE", "FLUSHALL", "SHUTDOWN"}, dump |-> {"BGSAVE"}]

MCFaults ==
    [always |-> {"power", "kill", "write"}, everysec |-> {}, nofsync |-> {"kill", "failed"},
     toggle |-> {"fork", "failed", "crashed"}, types |-> {},
     save |-> {"kill", "failed", "fork"}, dump |-> {"kill"}]

Bound(always, everysec, nofsync, toggle, types, save, dump) ==
    [always |-> always, everysec |-> everysec, nofsync |-> nofsync, toggle |-> toggle, types |-> types,
     save |-> save, dump |-> dump]

MCMaxLog   == Bound(4, 3, 2, 2, 3, 1, 1)
MCMaxDirty == Bound(3, 2, 2, 2, 5, 3, 4)
MCMaxNow   == Bound(0, 3, 0, 2, 0, 3, 0)

=============================================================================
