----------------------------- MODULE Networking -----------------------------
(* The clients of the Redis server: networking.c, multi.c's watched keys,    *)
(* pubsub.c and the blocked clients of t_list.c, as operators over W, the    *)
(* part of the server they touch:                                            *)
(*   dict           the dataset                                              *)
(*   cl             the state of every client                                *)
(*   blocking_keys, watched_keys, channels   key or channel -> its clients   *)
(*   patterns       the <<client, pattern>> subscriptions, in order          *)
(*   ready          server.ready_keys                                        *)
(*   unblocked      server.unblocked_clients                                 *)
(*   toclose        server.clients_to_close                                  *)
(*   link           what was propagated and has not reached the slave yet    *)
(*   maxidletime    server.maxidletime, 0 for none                           *)
(*   counted        the clients whose socket does not take every reply at    *)
(*                  once                                                     *)
(* Times are kept relative to server.unixtime, which only serverCron moves.  *)
EXTENDS Commands

CONSTANTS
    Clients,      \* the connections a client may hold
    Channels,     \* the channels commands name
    Matches,      \* pattern -> the channels stringmatchlen matches it with
    Buffer,       \* the replies the static buffer of a client holds
    HardLimit,    \* of the output list, per class: [normal, pubsub] -> limit (0: none)
    SoftLimit,    \* the same for the soft limit
    SoftSeconds,  \* soft_limit_seconds
    MaxClients    \* server.maxclients

ASSUME ConnectionsBound == IsFiniteSet(Clients) /\ Matches \in [DOMAIN Matches -> SUBSET Channels]
ASSUME LimitsBound == \A l \in {HardLimit, SoftLimit} : l \in [{"normal", "pubsub"} -> Nat]
ASSUME TimesBound == SoftSeconds \in Nat /\ Buffer \in Nat /\ MaxClients \in Nat \ {0}

Never == -1   \* no timeout, no time yet

\* createClient: left is what remains of the timeout of a blocked client, soft the time
\* since the soft limit was reached; seen, which is not in the code, is what the keys held when
\* they were watched.
NewClient ==
    [alive |-> TRUE, authenticated |-> FALSE, flags |-> {}, querybuf |-> Empty, commands |-> Empty,
     keys |-> {}, left |-> Never, target |-> Nil, where |-> "head",
     watched |-> {}, seen |-> Empty, subs |-> {}, pats |-> {},
     buf |-> 0, list |-> 0, soft |-> Never, idle |-> 0]

NoClient == [NewClient EXCEPT !.alive = FALSE]

SetFlags(W, c, fs) == [W EXCEPT !.cl[c].flags = @ \cup fs]
ClearFlags(W, c, fs) == [W EXCEPT !.cl[c].flags = @ \ fs]
Has(W, c, f) == f \in W.cl[c].flags

\* An index maps a key to the list of its clients, and has no entry for an empty list.  The
\* client enters the lists of the keys ks, or leaves them.
Join(index, ks, c) ==
    [k \in DOMAIN index \cup ks |->
        IF k \notin ks THEN index[k] ELSE IF k \in DOMAIN index THEN Append(index[k], c) ELSE <<c>>]
Leave(index, ks, c) ==
    LET Left(k) == IF k \in ks THEN RemoveFirst(index[k], c) ELSE index[k]
    IN  [k \in {k \in DOMAIN index : Left(k) # Empty} |-> Left(k)]

----------------------------------------------------------------------------
\* Replies.

Subscribed(W, c) == W.cl[c].subs # {} \/ W.cl[c].pats # {}

getClientLimitClass(W, c) == IF Subscribed(W, c) THEN "pubsub" ELSE "normal"

Reached(limit, used) == limit > 0 /\ used >= limit

\* The time the soft limit was reached at is started, kept or forgotten.
checkClientOutputBufferLimits(W, c) ==
    LET class == getClientLimitClass(W, c)
        me == W.cl[c]
        soft == Reached(SoftLimit[class], me.list)
    IN  [W |-> [W EXCEPT !.cl[c].soft = IF ~soft THEN Never ELSE IF me.soft = Never THEN 0 ELSE me.soft],
         over |-> Reached(HardLimit[class], me.list) \/ (soft /\ me.soft > SoftSeconds)]

freeClientAsync(W, c) ==
    IF Has(W, c, "CLOSE_ASAP") THEN W ELSE [SetFlags(W, c, {"CLOSE_ASAP"}) EXCEPT !.toclose = Append(@, c)]

\* Mutant: the limits are not looked at.
asyncCloseNever(W, c) == W

asyncCloseClientOnOutputBufferLimitReached(W, c) ==
    LET check == checkClientOutputBufferLimits(W, c)
    IN  IF W.cl[c].list = 0 \/ Has(W, c, "CLOSE_ASAP") THEN W
        ELSE IF check.over THEN freeClientAsync(check.W, c) ELSE check.W

\* A reply goes to the static buffer as long as it fits and nothing is in the list yet.
addReply(W, c) ==
    IF c \notin W.counted \/ Has(W, c, "CLOSE_AFTER_REPLY") THEN W
    ELSE IF W.cl[c].list = 0 /\ W.cl[c].buf < Buffer THEN [W EXCEPT !.cl[c].buf = @ + 1]
    ELSE asyncCloseClientOnOutputBufferLimitReached([W EXCEPT !.cl[c].list = @ + 1], c)

----------------------------------------------------------------------------
\* Watched keys, multi.c.

Content(d, k) == IF k \notin DOMAIN d THEN Nil ELSE IF d[k].type = "zset" THEN Dict(d[k]) ELSE d[k].v

\* The keys the client does not watch yet.
watchForKey(W, c, ks) ==
    LET new == ks \ W.cl[c].watched
    IN  [W EXCEPT !.watched_keys = Join(@, new, c), !.cl[c].watched = @ \cup new,
                  !.cl[c].seen = [k \in DOMAIN @ \cup new |-> IF k \in new THEN Content(W.dict, k) ELSE @[k]]]

unwatchAllKeys(W, c) ==
    [W EXCEPT !.watched_keys = Leave(@, W.cl[c].watched, c), !.cl[c].watched = {}, !.cl[c].seen = Empty]

\* c becomes dirty.
Dirty(W, cs) ==
    [W EXCEPT !.cl = [c \in Clients |->
        IF c \in cs THEN [W.cl[c] EXCEPT !.flags = @ \cup {"DIRTY_CAS"}] ELSE W.cl[c]]]

\* Mutant: only the first client in the list is told.
touchFirstWatcher(W, ks) ==
    Dirty(W, {Head(W.watched_keys[k]) : k \in ks \cap DOMAIN W.watched_keys})

\* The keys of a command, one after the other.
touchWatchedKey(W, ks) ==
    Dirty(W, {c \in Clients : \E k \in ks \cap DOMAIN W.watched_keys : Contains(W.watched_keys[k], c)})

\* Of the keys watched, those a flush takes away.
touchWatchedKeysOnFlush(W) == Dirty(W, {c \in Clients : W.cl[c].watched \cap DOMAIN W.dict # {}})

----------------------------------------------------------------------------
\* Publish and subscribe, pubsub.c.

pubsubSubscribeChannel(W, c, ch) ==
    addReply(IF ch \in W.cl[c].subs THEN W
             ELSE [W EXCEPT !.cl[c].subs = @ \cup {ch}, !.channels = Join(@, {ch}, c)], c)

pubsubUnsubscribeChannel(W, c, ch, notify) ==
    LET U == IF ch \in W.cl[c].subs
             THEN [W EXCEPT !.cl[c].subs = @ \ {ch}, !.channels = Leave(@, {ch}, c)] ELSE W
    IN  IF notify THEN addReply(U, c) ELSE U

pubsubSubscribePattern(W, c, p) ==
    addReply(IF p \in W.cl[c].pats THEN W
             ELSE [W EXCEPT !.cl[c].pats = @ \cup {p}, !.patterns = Append(@, <<c, p>>)], c)

pubsubUnsubscribePattern(W, c, p, notify) ==
    LET U == IF p \in W.cl[c].pats
             THEN [W EXCEPT !.cl[c].pats = @ \ {p}, !.patterns = RemoveFirst(@, <<c, p>>)] ELSE W
    IN  IF notify THEN addReply(U, c) ELSE U

\* One channel, or one pattern, after the other.
UnsubscribeChannels(W, c, chs, notify) ==
    LET run[n \in 0..Len(chs)] == IF n = 0 THEN W ELSE pubsubUnsubscribeChannel(run[n - 1], c, chs[n], notify)
    IN  run[Len(chs)]

UnsubscribePatterns(W, c, ps, notify) ==
    LET run[n \in 0..Len(ps)] == IF n = 0 THEN W ELSE pubsubUnsubscribePattern(run[n - 1], c, ps[n], notify)
    IN  run[Len(ps)]

\* A client subscribed to nothing is still answered.
pubsubUnsubscribeAllChannels(W, c, notify) ==
    IF W.cl[c].subs = {} THEN IF notify THEN addReply(W, c) ELSE W
    ELSE UnsubscribeChannels(W, c, SetToSeq(W.cl[c].subs), notify)

pubsubUnsubscribeAllPatterns(W, c, notify) ==
    IF W.cl[c].pats = {} THEN IF notify THEN addReply(W, c) ELSE W
    ELSE UnsubscribePatterns(W, c, SetToSeq(W.cl[c].pats), notify)

\* One message per subscription to the channel, then one per pattern that matches it.
pubsubPublishMessage(W, ch) ==
    LET direct == IF ch \in DOMAIN W.channels THEN W.channels[ch] ELSE Empty
        Match(A, s) == IF ch \in Matches[s[2]] THEN addReply(A, s[1]) ELSE A
        told[n \in 0..Len(direct)] == IF n = 0 THEN W ELSE addReply(told[n - 1], direct[n])
        run[n \in 0..Len(W.patterns)] == IF n = 0 THEN told[Len(direct)] ELSE Match(run[n - 1], W.patterns[n])
    IN  run[Len(W.patterns)]

----------------------------------------------------------------------------
\* Clients blocked on lists, t_list.c.

blockForKeys(W, c, ks, timeout, target, where) ==
    SetFlags([W EXCEPT !.blocking_keys = Join(@, ks, c),
                       !.cl[c] = [@ EXCEPT !.keys = ks, !.left = timeout, !.target = target, !.where = where]],
             c, {"BLOCKED"})

\* The client is queued for beforeSleep whether it is in the queue or not.
unblockClientWaitingData(W, c) ==
    LET U == [W EXCEPT !.blocking_keys = Leave(@, W.cl[c].keys, c), !.unblocked = Append(@, c),
                       !.cl[c] = [@ EXCEPT !.keys = {}, !.left = Never, !.target = Nil, !.where = "head"]]
    IN  SetFlags(ClearFlags(U, c, {"BLOCKED"}), c, {"UNBLOCKED"})

----------------------------------------------------------------------------
\* Connections.

\* A client that is blocked, watches keys or is subscribed.
Detached(W, c) ==
    LET U == IF Has(W, c, "BLOCKED") THEN unblockClientWaitingData(W, c) ELSE W
    IN  pubsubUnsubscribeAllPatterns(pubsubUnsubscribeAllChannels(unwatchAllKeys(U, c), c, FALSE), c, FALSE)

NotUnblocked(W, c) == IF Has(W, c, "UNBLOCKED") THEN [W EXCEPT !.unblocked = RemoveFirst(@, c)] ELSE W
NotToClose(W, c) == IF Has(W, c, "CLOSE_ASAP") THEN [W EXCEPT !.toclose = RemoveFirst(@, c)] ELSE W

\* Everything that points to the client is undone before it is gone.
freeClient(W, c) == [NotToClose(NotUnblocked(Detached(W, c), c), c) EXCEPT !.cl[c] = NoClient]

\* The client is only created to be told that there are too many.
acceptCommonHandler(W, c) ==
    LET U == [W EXCEPT !.cl[c] = NewClient]
    IN  IF Cardinality({d \in Clients : U.cl[d].alive}) > MaxClients THEN freeClient(U, c) ELSE U

\* freeClient finds the flag cleared and leaves the queue alone.
freeClientsInAsyncFreeQueue(W) ==
    LET Close(A, c) == freeClient(ClearFlags(A, c, {"CLOSE_ASAP"}), c)
        run[n \in 0..Len(W.toclose)] == IF n = 0 THEN W ELSE Close(run[n - 1], W.toclose[n])
    IN  [run[Len(W.toclose)] EXCEPT !.toclose = Empty]

\* n replies leave, those of the static buffer first; a client that asked to is closed after
\* the last one.
sendReplyToClient(W, c, n) ==
    LET b == Min({n, W.cl[c].buf})
        U == [W EXCEPT !.cl[c].buf = @ - b, !.cl[c].list = @ - (n - b), !.cl[c].idle = 0]
    IN  IF n = W.cl[c].buf + W.cl[c].list /\ Has(U, c, "CLOSE_AFTER_REPLY") THEN freeClient(U, c) ELSE U

\* Nothing is idle that is blocked or subscribed.
clientsCronHandleTimeout(W, c) ==
    IF W.maxidletime > 0 /\ ~Has(W, c, "BLOCKED") /\ ~Subscribed(W, c) /\ W.cl[c].idle > W.maxidletime
    THEN freeClient(W, c)
    ELSE IF Has(W, c, "BLOCKED") /\ W.cl[c].left # Never /\ W.cl[c].left = 0
    THEN unblockClientWaitingData(addReply(W, c), c)
    ELSE W
=============================================================================
