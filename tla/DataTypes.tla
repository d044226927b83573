----------------------------- MODULE DataTypes -----------------------------
(* A master that executes commands, expires keys as time passes and evicts   *)
(* them when memory is short, and a slave fed with what it propagates.  Each *)
(* behaviour keeps to one family of commands, so that every data type is     *)
(* explored on its own (DEL and SORT go with some); time passes in the       *)
(* family "expire" alone.                                                    *)
EXTENDS Commands

CONSTANTS
    Calls,    \* family -> the commands its clients send
    MaxSize,  \* bound: the most elements, or bytes, of a value
    MaxNow    \* bound: the last instant

ASSUME MaxSizeBound == MaxSize \in Nat
ASSUME MaxNowBound == MaxNow \in Nat

VARIABLES
    family,  \* the family of this behaviour
    now,     \* mstime()
    db,      \* the databases of the master: [dict, expires, other]
    slave,   \* those of the slave
    told     \* of the last command: the keys it signalled as modified, and whether it counted

vars == <<family, now, db, slave, told>>

NoKeys == [dict |-> Empty, expires |-> Empty]
Silent == [touched |-> {}, counted |-> FALSE]

Init ==
    /\ family \in DOMAIN Calls
    /\ now = 0
    /\ db = [dict |-> Empty, expires |-> Empty, other |-> NoKeys]
    /\ slave = db
    /\ told = Silent

\* A server that holds d, and what it holds.
Server(d, master) ==
    [EmptyServer EXCEPT !.dict = d.dict, !.expires = d.expires, !.other = d.other, !.now = now, !.master = master]
Held(T) == [dict |-> T.dict, expires |-> T.expires, other |-> T.other]

\* The slave, which is the master's client, after the DELs the master sent for the keys it
\* found expired when it left T, or deleted on its own account.
AfterDels(T) ==
    LET after[i \in 0..Len(T.dels)] ==
            IF i = 0 THEN Server(slave, FALSE) ELSE delCommand(after[i - 1], T.dels[i][2])
    IN  after[Len(T.dels)]

\* The master is left with T; if the command counts the slave, which D is, runs what is
\* propagated of it and is left with one of Rs.
Executed(T, D, Rs) ==
    /\ \A k \in DOMAIN T.dict : Size(T.dict[k]) <= MaxSize
    /\ db' = Held(T)
    /\ slave' = Held(IF T.dirty > 0 THEN CHOOSE R \in Rs : TRUE ELSE D)
    /\ told' = [touched |-> T.touched, counted |-> T.dirty > 0]
    /\ UNCHANGED <<family, now>>

Asked(names) == {c \in Calls[family] : c[1] \in names}
Master(c) == Start(Server(db, TRUE), c)
Slave(T) == Start(AfterDels(T), T.argv)

\* call(), by families: what is propagated of a command belongs to the same part of the
\* command table.
StringCommand ==
    \E c \in Asked(Strings) : \E T \in stringTable(Master(c), c) :
        Executed(T, AfterDels(T), stringTable(Slave(T), T.argv))

ListCommand ==
    \E c \in Asked(Lists) : \E T \in listTable(Master(c), c) :
        Executed(T, AfterDels(T), listTable(Slave(T), T.argv))

SetCommand ==
    \E c \in Asked(Sets) : \E T \in setTable(Master(c), c) :
        Executed(T, AfterDels(T), setTable(Slave(T), T.argv))

HashCommand ==
    \E c \in Asked(Hashes) : \E T \in hashTable(Master(c), c) :
        Executed(T, AfterDels(T), hashTable(Slave(T), T.argv))

ZsetCommand ==
    \E c \in Asked(Zsets) : \E T \in zsetTable(Master(c), c) :
        Executed(T, AfterDels(T), zsetTable(Slave(T), T.argv))

GenericCommand ==
    \E c \in {c \in Calls[family] : c[1] \notin Strings \cup Lists \cup Sets \cup Hashes \cup Zsets} :
        \E T \in genericTable(Master(c), c) :
            Executed(T, AfterDels(T), genericTable(Slave(T), T.argv))

Tick ==
    /\ family = "expire" /\ now < MaxNow
    /\ now' = now + 1
    /\ told' = Silent
    /\ UNCHANGED <<family, db, slave>>

\* The master deletes the keys of ks on its own account.
DeletedByServer(ks) ==
    LET order == SetToSeq(ks)
        after[i \in 0..Len(order)] ==
            IF i = 0 THEN Server(db, TRUE)
            ELSE dbDelete(propagateExpire(after[i - 1], order[i]), order[i])
        T == after[Len(order)]
    IN  /\ db' = Held(T)
        /\ slave' = Held(AfterDels(T))
        /\ told' = Silent
        /\ UNCHANGED <<family, now>>

\* The cycle of databasesCron samples the keys with an expire and deletes those past it.
activeExpireCycle ==
    \E ks \in SUBSET {k \in DOMAIN db.expires : now > db.expires[k]} \ {{}} : DeletedByServer(ks)

\* The keys each policy may choose.  The LRU clock is not modelled: with lru any key may
\* be the idlest of the sample, and under volatile-ttl any of a sample but the latest,
\* or the only one.
Evictable(policy) ==
    CASE policy = "noeviction"      -> {}
      [] policy \in {"allkeys-lru", "allkeys-random"} -> DOMAIN db.dict
      [] policy \in {"volatile-lru", "volatile-random", "volatile-ttl"} -> DOMAIN db.expires

\* Before a command, when memory is short.
freeMemoryIfNeeded ==
    /\ family = "expire"
    /\ \E policy \in {"noeviction", "allkeys-lru", "volatile-ttl"} :
        \E k \in Evictable(policy) : DeletedByServer({k})

Next ==
    \/ StringCommand \/ ListCommand \/ SetCommand \/ HashCommand \/ ZsetCommand \/ GenericCommand
    \/ Tick \/ activeExpireCycle \/ freeMemoryIfNeeded

Spec == Init /\ [][Next]_vars

----------------------------------------------------------------------------
\* Every value is one its type can hold, in an encoding that exists, and no key is left
\* with an empty aggregate: the commands that take the last element out delete the key.
TypeOK ==
    /\ family \in DOMAIN Calls
    /\ now \in 0..MaxNow
    /\ DOMAIN db.expires \subseteq DOMAIN db.dict
    /\ DOMAIN db.other.expires \subseteq DOMAIN db.other.dict
    /\ told \in [touched : SUBSET Keys, counted : BOOLEAN]
    /\ \A k \in DOMAIN db.dict :
        LET o == db.dict[k]
        IN  CASE o.type = "string" -> o.enc \in {"raw", "int"} /\ o.v \in Seq(Byte)
              [] o.type = "list"   -> o.enc \in {"ziplist", "linkedlist"} /\ o.v \in Seq(Elems) \ {Empty}
              [] o.type = "set"    -> o.enc \in {"intset", "ht"} /\ o.v \in SUBSET Elems \ {{}}
              [] o.type = "hash"   -> o.enc \in {"ziplist", "ht"} /\ DOMAIN o.v \in SUBSET Elems \ {{}}
              [] o.type = "zset"   -> o.enc \in {"ziplist", "skiplist"} /\ Dict(o) \in [DOMAIN Dict(o) -> -Inf..Inf]
                                      /\ Dict(o) # Empty

\* A compact encoding only holds what it was made for: an int spells a number in range, an
\* intset has integers only and not too many, a ziplist not too many entries nor a long one
\* (the hash commands test the values, HINCRBY does not test the field), and the pairs of a
\* sorted set lie in a ziplist in their order, each element once.
EncodingFits ==
    TypeOK /\ \A k \in DOMAIN db.dict :
        LET o == db.dict[k]
        IN  /\ o.type = "string" => (o.enc = "int" => string2ll(o.v))
            /\ o.type = "list" /\ o.enc = "ziplist" =>
                    Len(o.v) <= ListMaxZiplist /\ Range(o.v) \cap BigElems = {}
            /\ o.type = "set" /\ o.enc = "intset" =>
                    o.v \subseteq IntElems /\ Cardinality(o.v) <= SetMaxIntset
            /\ o.type = "hash" /\ o.enc = "ziplist" => Cardinality(DOMAIN o.v) <= HashMaxZiplist
            /\ o.type = "zset" /\ o.enc = "ziplist" =>
                    /\ Len(o.v) <= ZsetMaxZiplist
                    /\ \A p \in Range(o.v) : p.ele \notin BigElems
                    /\ \A i, j \in DOMAIN o.v : i < j => Before(o.v[i], o.v[j]) /\ o.v[i].ele # o.v[j].ele

\* The slave holds what the master holds, and expires it at the same time: a command that
\* changes something counts, and what is propagated of it (the SREM of a SPOP, the SET of
\* an INCRBYFLOAT, the DEL of an EXPIRE in the past, or the command itself) does the same to
\* a slave that did the same so far; so do the DELs of expired and evicted keys.
ReplicaAgrees ==
    /\ Contents(slave.dict) = Contents(db.dict) /\ slave.expires = db.expires
    /\ Contents(slave.other.dict) = Contents(db.other.dict)

Differ(d, e) ==
    {k \in DOMAIN d \cup DOMAIN e : ~(k \in DOMAIN d /\ k \in DOMAIN e /\ Contents(d)[k] = Contents(e)[k])}

\* A command that changes what a key holds signals that key, for the clients that watch it,
\* and counts itself as a change, for the slaves and the files.  What no command changed, a
\* key past its expire that is dropped or one that is evicted, is not signalled; nor is MOVE.
ChangeIsSignalled ==
    [][\A k \in Differ(db.dict, db'.dict) :
        \/ k \in told'.touched /\ told'.counted
        \/ k \notin DOMAIN db'.dict /\ (told' = Silent \/ (k \in DOMAIN db.expires /\ now > db.expires[k]))
        \/ db'.other # db.other]_vars
=============================================================================
