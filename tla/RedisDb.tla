------------------------------ MODULE RedisDb ------------------------------
(* The keyspace of the Redis server the game keeps its jobs in, and the API  *)
(* of db.c every command is written with.  A command is an operator over a   *)
(* server record S:                                                          *)
(*   dict, expires  the selected database: key -> value, key -> expire time  *)
(*   other          the database MOVE reaches, as a [dict, expires] record   *)
(*   now            mstime(), which does not move inside one command         *)
(*   dirty          server.dirty, counted from the start of the command      *)
(*   touched        the keys given to signalModifiedKey by the command       *)
(*   argv           the command as call() propagates it, once executed       *)
(*   ready          the keys given to signalListAsReady, in order            *)
(*   dels           the DELs propagateExpire sent ahead of the command       *)
(*   reply          what the client is told                                  *)
(*   master         server.masterhost == NULL;   loading  server.loading     *)
(* A value is [type, enc, v]; what v holds is said in the module of its type.*)
EXTENDS Integers, Sequences, FiniteSets, SequencesExt, FiniteSetsExt, Functions

CONSTANTS Keys,      \* the keys commands name
          Nil,       \* the null reply, and "no value"
          Elems,     \* the strings aggregates hold
          IntElems,  \* those among them that spell an integer
          BigElems   \* those longer than every ..._max_ziplist_value

ASSUME ElemKinds == IntElems \subseteq Elems /\ BigElems \subseteq Elems \ IntElems

\* Replies that carry no data, shared by all commands (redis.c createSharedObjects).
OK        == "OK"
WrongType == "WRONGTYPE"
Err       == "ERR"
Empty     == << >>

NoCommand == << >>

\* A function without some keys of its domain, or without one.
WithoutAll(f, ks) == [x \in DOMAIN f \ ks |-> f[x]]
Without(f, k) == WithoutAll(f, {k})

\* A function with k mapped to v, whether k was in its domain or not.
With(f, k, v) == [x \in DOMAIN f \cup {k} |-> IF x = k THEN v ELSE f[x]]

Answer(S, r) == [S EXCEPT !.reply = r]

dbExists(S, k) == k \in DOMAIN S.dict

lookupKey(S, k) == IF dbExists(S, k) THEN S.dict[k] ELSE Nil

\* -1 stands for "no expire", as in the code; so do the negative times EXPIREAT can store.
getExpire(S, k) == IF k \in DOMAIN S.expires THEN S.expires[k] ELSE -1

\* The program is aborted if the key already exists.
dbAdd(S, k, val) == [S EXCEPT !.dict = With(@, k, val)]

\* The expire of the key stays.
dbOverwrite(S, k, val) == [S EXCEPT !.dict[k] = val]

dbDelete(S, k) == [S EXCEPT !.dict = Without(@, k), !.expires = Without(@, k)]

removeExpire(S, k) == [S EXCEPT !.expires = Without(@, k)]

setExpire(S, k, when) == [S EXCEPT !.expires = With(@, k, when)]

signalModifiedKey(S, k) == [S EXCEPT !.touched = @ \cup {k}]

\* Only a master with aof or slaves has someone to tell; the record keeps what would be told.
propagateExpire(S, k) == [S EXCEPT !.dels = Append(@, <<"DEL", <<k>>>>)]

\* What expireIfNeeded returns: a slave and a loading server only look.
IsExpired(S, k) ==
    /\ getExpire(S, k) >= 0
    /\ ~S.loading
    /\ S.now > getExpire(S, k)

\* What expireIfNeeded does.
expireIfNeeded(S, k) ==
    IF IsExpired(S, k) /\ S.master THEN dbDelete(propagateExpire(S, k), k) ELSE S

\* High level Set: the key becomes persistent and its watchers are told.
setKey(S, k, val) ==
    LET T == expireIfNeeded(S, k)
        U == IF dbExists(T, k) THEN dbOverwrite(T, k, val) ELSE dbAdd(T, k, val)
    IN  signalModifiedKey(removeExpire(U, k), k)

\* The common start of a command on key k: expire it if needed, answer absent when it
\* is missing and WRONGTYPE when it holds another type (lookupKey...OrReply, checkType).
\* What it comes to: the record S, and the value o the command goes on with, if any.
Checked(T, o, type) ==
    IF o.type # type THEN [S |-> Answer(T, WrongType), o |-> Nil] ELSE [S |-> T, o |-> o]

LookupIn(T, k, type, absent) ==
    IF dbExists(T, k) THEN Checked(T, T.dict[k], type) ELSE [S |-> Answer(T, absent), o |-> Nil]
Lookup(S, k, type, absent) == LookupIn(expireIfNeeded(S, k), k, type, absent)

\* The same for a command that starts from a fresh value when the key is missing.
LookupOrNewIn(T, k, type, new) ==
    IF dbExists(T, k) THEN Checked(T, T.dict[k], type) ELSE [S |-> T, o |-> new]
LookupOrNew(S, k, type, new) == LookupOrNewIn(expireIfNeeded(S, k), k, type, new)

\* The command goes on with what was looked up, or has answered.
Then(at, T) == IF at.o = Nil THEN at.S ELSE T

\* The keys ks, one after the other.
ExpireAll(S, ks) ==
    LET after[i \in 0..Len(ks)] == IF i = 0 THEN S ELSE expireIfNeeded(after[i - 1], ks[i])
    IN  after[Len(ks)]

\* The keys ks looked up in their order, up to the first whose type is none of those the
\* command takes (0 when they all are).
TypeOf(o) == IF o = Nil THEN "none" ELSE o.type
FirstOf(is) == IF is = {} THEN 0 ELSE Min(is)
StopsAt(S, ks, types) ==
    FirstOf({i \in DOMAIN ks : TypeOf(lookupKey(expireIfNeeded(S, ks[i]), ks[i])) \notin types})
LookupAll(S, ks, types) ==
    LET stop == StopsAt(S, ks, types)
    IN  ExpireAll(S, IF stop = 0 THEN ks ELSE SubSeq(ks, 1, stop))

\* A change of the value of k that counts n, as every command records it.
Changed(S, k, n) == [signalModifiedKey(S, k) EXCEPT !.dirty = @ + n]

\* k holds val from here on, or is deleted when the aggregate val was left empty.
IsEmpty(val) == IF val.type = "set" THEN val.v = {} ELSE DOMAIN val.v = {}
Store(S, k, val) == IF IsEmpty(val) THEN dbDelete(S, k) ELSE dbAdd(S, k, val)

----------------------------------------------------------------------------
\* Ranges of indices, as LRANGE, LTRIM, ZRANGE and ZREMRANGEBYRANK sanitise them: the
\* 1-based first and last position, first > last when the range is empty.
Sanitised(start, end, len) ==
    LET s == Max({0, IF start < 0 THEN len + start ELSE start})
        e == IF end < 0 THEN len + end ELSE end
    IN  IF s > e \/ s >= len THEN <<1, 0>> ELSE <<s + 1, Min({e + 1, len})>>

\* The 1-based position of index i, from the tail when it is negative; 0 when out of range.
Position(i, len) ==
    LET p == IF i < 0 THEN len + i + 1 ELSE i + 1 IN IF p \in 1..len THEN p ELSE 0

----------------------------------------------------------------------------
\* The commands of db.c.

delCommand(S, ks) ==
    LET gone == ToSet(ks) \cap DOMAIN S.dict
        n == Cardinality(gone)
    IN  Answer([S EXCEPT !.dict = WithoutAll(@, gone), !.expires = WithoutAll(@, gone),
                         !.touched = @ \cup gone, !.dirty = @ + n], n)

existsCommand(S, k) ==
    LET T == expireIfNeeded(S, k) IN Answer(T, IF dbExists(T, k) THEN 1 ELSE 0)

\* dbRandomKey draws until it meets a key that is not expired, deleting the expired ones on
\* its way: any set of them.  A slave deletes nothing, and draws on forever when all are expired.
randomkeyCommand(S) ==
    LET expired == {k \in DOMAIN S.dict : IsExpired(S, k)}
        Met(ks) == ExpireAll(S, SetToSeq(ks))
    IN  {Answer(Met(ks), k) : ks \in SUBSET expired, k \in DOMAIN S.dict \ expired}
          \cup (IF DOMAIN S.dict = expired /\ (S.master \/ expired = {}) THEN {Answer(Met(expired), Nil)} ELSE {})

keysCommand(S, matching) ==
    Answer(ExpireAll(S, SetToSeq(matching)), {k \in matching : ~IsExpired(S, k)})

typeCommand(S, k) ==
    LET T == expireIfNeeded(S, k)
    IN  Answer(T, IF dbExists(T, k) THEN T.dict[k].type ELSE "none")

renameGenericCommand(S, src, dst, nx) ==
    LET T == expireIfNeeded(S, src)
        U == expireIfNeeded(T, dst)
        moved == dbDelete(dbAdd(dbDelete(U, dst), dst, T.dict[src]), src)
        timed == IF getExpire(T, src) # -1 THEN setExpire(moved, dst, T.expires[src]) ELSE moved
    IN  IF src = dst THEN Answer(S, Err)
        ELSE IF ~dbExists(T, src) THEN Answer(T, Err)
        ELSE IF nx /\ dbExists(U, dst) THEN Answer(U, 0)
        ELSE Answer(Changed(signalModifiedKey(timed, src), dst, 1), IF nx THEN 1 ELSE OK)

\* SELECT 1 and back: the other database becomes the selected one.
selectDb(S) ==
    [S EXCEPT !.dict = S.other.dict, !.expires = S.other.expires,
              !.other = [dict |-> S.dict, expires |-> S.expires]]

\* The expire does not move with the value and no watcher is told.
moveCommand(S, k) ==
    LET T == expireIfNeeded(S, k)
        D == expireIfNeeded(selectDb(T), k)
        moved == dbDelete(selectDb(dbAdd(D, k, T.dict[k])), k)
    IN  IF ~dbExists(T, k) THEN Answer(T, 0)
        ELSE IF dbExists(D, k) THEN Answer(selectDb(D), 0)
        ELSE Answer([moved EXCEPT !.dirty = @ + 1], 1)

flushdbCommand(S) ==
    Answer([S EXCEPT !.dirty = @ + Cardinality(DOMAIN S.dict), !.touched = @ \cup DOMAIN S.dict,
                     !.dict = Empty, !.expires = Empty], OK)

emptyDb(S) ==
    [S EXCEPT !.dict = Empty, !.expires = Empty, !.other = [dict |-> Empty, expires |-> Empty],
              !.dirty = @ + Cardinality(DOMAIN S.dict) + Cardinality(DOMAIN S.other.dict)]

\* What it does to a running save is in the module of persistence.
flushallCommand(S) ==
    Answer([emptyDb(S) EXCEPT !.dirty = @ + 1, !.touched = @ \cup DOMAIN S.dict], OK)

\* EXPIRE, PEXPIRE, EXPIREAT and PEXPIREAT; when is the absolute time they ask for.
expireGenericCommand(S, k, when) ==
    LET T == expireIfNeeded(S, k)
    IN  IF ~dbExists(T, k) THEN Answer(T, 0)
        ELSE IF when <= T.now /\ ~T.loading /\ T.master
        THEN Answer([Changed(dbDelete(T, k), k, 1) EXCEPT !.argv = <<"DEL", <<k>>>>], 1)
        ELSE Answer(Changed(setExpire(T, k, when), k, 1), 1)

\* TTL never expires the key: it reads the expire of a key that may be past it.
ttlGenericCommand(S, k) ==
    LET ttl == getExpire(S, k) - S.now
    IN  Answer(S, IF getExpire(S, k) # -1 /\ ttl >= 0 THEN ttl ELSE -1)

\* Neither an expired key is deleted here nor a watcher told.
persistCommand(S, k) ==
    IF k \in DOMAIN S.dict /\ k \in DOMAIN S.expires
    THEN Answer([removeExpire(S, k) EXCEPT !.dirty = @ + 1], 1)
    ELSE Answer(S, 0)
=============================================================================
