------------------------------ MODULE Clients ------------------------------
(* The event loop of the Redis server and what it does for its clients:      *)
(* reading and executing their commands (processCommand, call, EXEC), the    *)
(* clients blocked on lists, timeouts, closing, and the feeding of a slave.  *)
EXTENDS Networking

CONSTANTS
    Asked,      \* family -> client -> the batches of commands it may send at once
    MaxSize,    \* bound: the most elements of a list
    MaxQueued,  \* bound: the most commands of a transaction
    MaxUnread,  \* bound: the most commands left unread, of a client that is blocked or to be closed
    MaxLink,    \* bound: the most commands on their way to the slave when a client fires
    MaxOut,     \* bound: the most replies waiting for a client
    Modes,      \* family -> the modes its server may be in
    MaxIdle,    \* family -> server.maxidletime
    Slow        \* family -> the clients that may be slow to read their replies

\* What a client may send: the name of a command and its parsed arguments.
Where == {"head", "tail"}
Some(X) == Seq(X) \ {Empty}
Command ==
    ({"SET"} \X Keys \X Seq(Byte) \X {Nil} \X {"", "NX", "XX"})
        \cup ({"GET"} \X Keys) \cup ({"INCRBY"} \X Keys \X Int)
        \cup ({"PUSH"} \X Keys \X Some(Elems) \X Where) \cup ({"POP"} \X Keys \X Where)
        \cup ({"RPOPLPUSH"} \X Keys \X Keys) \cup ({"DEL"} \X Some(Keys))
        \cup ({"BPOP"} \X Some(Keys) \X Where \X Nat) \cup ({"BRPOPLPUSH"} \X Keys \X Keys \X Nat)
        \cup ({"WATCH"} \X Some(Keys)) \cup ({"PUBLISH"} \X Channels)
        \cup ({"SUBSCRIBE"} \X Some(Channels)) \cup ({"UNSUBSCRIBE"} \X Seq(Channels))
        \cup ({"PSUBSCRIBE"} \X Some(DOMAIN Matches)) \cup ({"PUNSUBSCRIBE"} \X Seq(DOMAIN Matches))
        \cup ({"KILL"} \X Clients) \cup ({"AUTH"} \X BOOLEAN)
        \cup {<<name>> : name \in {"FLUSHALL", "MULTI", "EXEC", "DISCARD", "UNWATCH", "QUIT", "BOGUS"}}

ASSUME FamiliesBound ==
    /\ \A f \in DOMAIN Asked : \A c \in Clients : Asked[f][c] \subseteq Seq(Command)
    /\ \A f \in DOMAIN Asked : MaxIdle[f] \in Nat /\ Slow[f] \subseteq Clients

VARIABLES
    family,    \* the family of this behaviour
    mode,      \* "normal", or what makes processCommand refuse commands
    dict, cl, blocking_keys, watched_keys, channels, patterns, unblocked, toclose, link,
    slave,     \* the slave: its dataset, and the transaction it is in the middle of
    fired      \* the clients whose file event was handled since the last beforeSleep

vars == <<family, mode, dict, cl, blocking_keys, watched_keys, channels, patterns, unblocked, toclose, link,
          slave, fired>>

World == [dict |-> dict, cl |-> cl, blocking_keys |-> blocking_keys, watched_keys |-> watched_keys,
          channels |-> channels, patterns |-> patterns, ready |-> Empty, unblocked |-> unblocked,
          toclose |-> toclose, link |-> link,
          maxidletime |-> MaxIdle[family], counted |-> Slow[family]]

\* V is the state after the step (\E names the value, so that it is computed once).
Become(V) ==
    \E W \in {V} :
        /\ dict' = W.dict /\ cl' = W.cl /\ blocking_keys' = W.blocking_keys /\ watched_keys' = W.watched_keys
        /\ channels' = W.channels /\ patterns' = W.patterns /\ unblocked' = W.unblocked /\ toclose' = W.toclose
        /\ link' = W.link

Init ==
    /\ family \in DOMAIN Asked
    /\ mode \in Modes[family]
    /\ dict = Empty /\ cl = [c \in Clients |-> NoClient]
    /\ blocking_keys = Empty /\ watched_keys = Empty /\ channels = Empty /\ patterns = Empty
    /\ unblocked = Empty /\ toclose = Empty /\ link = Empty
    /\ slave = [dict |-> Empty, multi |-> FALSE, commands |-> Empty]
    /\ fired = {}

----------------------------------------------------------------------------
\* The flags of the command table.
Name(q) == q[1]
Flags(q) ==
    CASE Name(q) \in {"SET", "PUSH", "INCRBY"}      -> {"write", "denyoom"}
      [] Name(q) \in {"DEL", "POP", "FLUSHALL", "BPOP", "RPOPLPUSH"} -> {"write"}
      [] Name(q) = "BRPOPLPUSH"                     -> {"write", "denyoom"}
      [] Name(q) \in {"SUBSCRIBE", "UNSUBSCRIBE", "PSUBSCRIBE", "PUNSUBSCRIBE"} -> {"readonly", "loading", "stale"}
      [] Name(q) = "PUBLISH"                        -> {"readonly", "loading", "stale", "force"}
      [] Name(q) = "AUTH"                           -> {"readonly", "loading"}
      [] Name(q) = "EXEC"                           -> {}
      [] OTHER                                      -> {"readonly"}

propagate(W, q) == [W EXCEPT !.link = Append(@, q)]

\* The list of ready keys gets a key once, and only when somebody waits for it.
SignalReady(W, k) ==
    IF k \in DOMAIN W.blocking_keys /\ ~Contains(W.ready, k) THEN [W EXCEPT !.ready = Append(@, k)] ELSE W

\* The commands of the dataset these clients send, as call() runs them.
OfDataset == {"SET", "GET", "INCRBY", "PUSH", "POP", "RPOPLPUSH", "DEL", "FLUSHALL"}
Dataset(S, q) ==
    CASE Name(q) = "SET"       -> setCommand(S, q[2], q[3], q[4], q[5])
      [] Name(q) = "GET"       -> getGenericCommand(S, q[2])
      [] Name(q) = "INCRBY"    -> incrDecrCommand(S, q[2], q[3])
      [] Name(q) = "PUSH"      -> pushGenericCommand(S, q[2], q[3], q[4])
      [] Name(q) = "POP"       -> popGenericCommand(S, q[2], q[3])
      [] Name(q) = "RPOPLPUSH" -> rpoplpushCommand(S, q[2], q[3])
      [] Name(q) = "DEL"       -> delCommand(S, q[2])
      [] Name(q) = "FLUSHALL"  -> flushallCommand(S)

ServerOf(d, master) == [EmptyServer EXCEPT !.dict = d, !.master = master]

\* The watchers of what a command changed are told, the lists it made are ready, and it is
\* propagated if it changed something.
Told(W, T) ==
    LET watchers == touchWatchedKey([W EXCEPT !.dict = T.dict], T.touched)
        run[n \in 0..Len(T.ready)] == IF n = 0 THEN watchers ELSE SignalReady(run[n - 1], T.ready[n])
    IN  [run[Len(T.ready)] EXCEPT !.link = @ \o Propagated(T)]

\* FLUSHALL tells the watchers before it takes the keys away.
Run(W, q) ==
    Told(IF Name(q) = "FLUSHALL" THEN touchWatchedKeysOnFlush(W) ELSE W,
         Dataset(Start(ServerOf(W.dict, TRUE), q), q))

\* The server after n rounds of a loop.
Rounds(Step(_), W, n) ==
    LET run[i \in 0..n] == IF i = 0 THEN W ELSE Step(run[i - 1])
    IN  run[n]

IsList(W, k) == k \in DOMAIN W.dict /\ W.dict[k].type = "list"

Timeout(t) == IF t = 0 THEN Never ELSE t + 1

\* BLPOP and BRPOP: the first key that holds something decides.
blockingPopGenericCommand(W, c, ks, where, timeout, inmulti) ==
    LET there == FirstOf({i \in DOMAIN ks : ks[i] \in DOMAIN W.dict})
    IN  IF there # 0
        THEN IF IsList(W, ks[there]) THEN Run(addReply(W, c), <<"POP", ks[there], where>>) ELSE addReply(W, c)
        ELSE IF inmulti THEN addReply(W, c)
        ELSE blockForKeys(W, c, ToSet(ks), Timeout(timeout), Nil, where)

brpoplpushCommand(W, c, k, target, timeout, inmulti) ==
    IF k \in DOMAIN W.dict
    THEN IF IsList(W, k) THEN Run(addReply(W, c), <<"RPOPLPUSH", k, target>>) ELSE addReply(W, c)
    ELSE IF inmulti THEN addReply(W, c)
    ELSE blockForKeys(W, c, {k}, Timeout(timeout), target, "tail")

----------------------------------------------------------------------------
\* Clients served, once the command that made a list is done.

\* Mutant: the element is not put back.
serveAndForget(W, c, k, target, e, where) ==
    LET popped == propagate(W, <<"POP", k, where>>)
        T == rpoplpushHandlePush(ServerOf(W.dict, TRUE), target, e)
        touched == touchWatchedKey([popped EXCEPT !.dict = T.dict], {target})
        pushed == IF T.ready = Empty THEN touched ELSE SignalReady(touched, target)
    IN  IF target = Nil THEN addReply(popped, c)
        ELSE IF target \in DOMAIN W.dict /\ ~IsList(W, target) THEN addReply(W, c)
        ELSE addReply(propagate(pushed, <<"PUSH", target, <<e>>, "head">>), c)

\* The element popped for the client goes to it, or to its target; when that is no list the
\* client is only told, and the element put back.
serveClientBlockedOnList(W, c, k, target, e, where) ==
    LET popped == propagate(W, <<"POP", k, where>>)
        T == rpoplpushHandlePush(ServerOf(W.dict, TRUE), target, e)
        touched == touchWatchedKey([popped EXCEPT !.dict = T.dict], {target})
        pushed == IF T.ready = Empty THEN touched ELSE SignalReady(touched, target)
    IN  IF target = Nil THEN addReply(popped, c)
        ELSE IF target \in DOMAIN W.dict /\ ~IsList(W, target)
        THEN addReply([W EXCEPT !.dict[k] = listTypePush(@, e, where)], c)
        ELSE addReply(propagate(pushed, <<"PUSH", target, <<e>>, "head">>), c)

\* Mutant: the client that blocked last is served.
ServeLast(W, k) ==
    LET c == Last(W.blocking_keys[k])
        me == W.cl[c]
        e == Popped(W.dict[k], me.where)
        U == unblockClientWaitingData([W EXCEPT !.dict[k] = listTypePop(@, me.where)], c)
    IN  IF W.dict[k].v = Empty THEN W ELSE serveClientBlockedOnList(U, c, k, me.target, e, me.where)

\* One of the clients that wait for k, the first.
ServeFirst(W, k) ==
    LET c == Head(W.blocking_keys[k])
        me == W.cl[c]
        e == Popped(W.dict[k], me.where)
        U == unblockClientWaitingData([W EXCEPT !.dict[k] = listTypePop(@, me.where)], c)
    IN  IF W.dict[k].v = Empty THEN W ELSE serveClientBlockedOnList(U, c, k, me.target, e, me.where)

\* A list that is empty now goes.
DropEmpty(U, k) == IF U.dict[k].v = Empty THEN [U EXCEPT !.dict = Without(@, k)] ELSE U

\* Mutant: one client is served and the others wait on.
ServeOne(W, k) ==
    IF ~IsList(W, k) THEN W
    ELSE DropEmpty(IF k \in DOMAIN W.blocking_keys THEN ServeFirst(W, k) ELSE W, k)

\* All of them while there are elements.
ServeKey(W, k) ==
    LET n == IF k \in DOMAIN W.blocking_keys THEN Len(W.blocking_keys[k]) ELSE 0
    IN  IF ~IsList(W, k) THEN W ELSE DropEmpty(Rounds(LAMBDA A : ServeFirst(A, k), W, n), k)

Waiting(W) == {c \in Clients : Has(W, c, "BLOCKED")}

\* Serving a BRPOPLPUSH may make another list ready; a list that is ready serves somebody, who
\* then waits no more, or is gone from the ready ones.
ServeReady(A) == IF A.ready = Empty THEN A ELSE ServeKey([A EXCEPT !.ready = Tail(@)], Head(A.ready))
handleClientsBlockedOnLists(W) ==
    Rounds(ServeReady, W, Len(W.ready) + Cardinality(Waiting(W)))

----------------------------------------------------------------------------
\* Transactions.

queueMultiCommand(W, c, q) == [W EXCEPT !.cl[c].commands = Append(@, q)]

discardTransaction(W, c) ==
    unwatchAllKeys(ClearFlags([W EXCEPT !.cl[c].commands = Empty],
                              c, {"MULTI", "DIRTY_CAS", "DIRTY_EXEC"}), c)

flagTransaction(W, c) == IF Has(W, c, "MULTI") THEN SetFlags(W, c, {"DIRTY_EXEC"}) ELSE W

multiCommand(W, c) == addReply(IF Has(W, c, "MULTI") THEN W ELSE SetFlags(W, c, {"MULTI"}), c)

discardCommand(W, c) == addReply(IF Has(W, c, "MULTI") THEN discardTransaction(W, c) ELSE W, c)

watchCommand(W, c, ks) ==
    addReply(IF Has(W, c, "MULTI") THEN W ELSE watchForKey(W, c, ToSet(ks)), c)

unwatchCommand(W, c) == addReply(ClearFlags(unwatchAllKeys(W, c), c, {"DIRTY_CAS"}), c)

\* A client that kills itself is closed once it has its reply.
clientKill(W, c, d) ==
    IF ~W.cl[d].alive THEN addReply(W, c)
    ELSE IF d = c THEN SetFlags(addReply(W, c), c, {"CLOSE_AFTER_REPLY"})
    ELSE freeClient(addReply(W, c), d)

authCommand(W, c, right) == addReply([W EXCEPT !.cl[c].authenticated = right], c)

publishCommand(W, c, ch) == propagate(addReply(pubsubPublishMessage(W, ch), c), <<"PUBLISH", ch>>)

subscribeCommand(W, c, chs) ==
    LET run[n \in 0..Len(chs)] == IF n = 0 THEN W ELSE pubsubSubscribeChannel(run[n - 1], c, chs[n])
    IN  run[Len(chs)]

psubscribeCommand(W, c, ps) ==
    LET run[n \in 0..Len(ps)] == IF n = 0 THEN W ELSE pubsubSubscribePattern(run[n - 1], c, ps[n])
    IN  run[Len(ps)]

unsubscribeCommand(W, c, chs) ==
    IF chs = Empty THEN pubsubUnsubscribeAllChannels(W, c, TRUE) ELSE UnsubscribeChannels(W, c, chs, TRUE)

punsubscribeCommand(W, c, ps) ==
    IF ps = Empty THEN pubsubUnsubscribeAllPatterns(W, c, TRUE) ELSE UnsubscribePatterns(W, c, ps, TRUE)

\* c->cmd->proc(c), and the propagation of call(); EXEC is below.
callCommand(W, c, q, inmulti) ==
    CASE Name(q) = "BPOP"         -> blockingPopGenericCommand(W, c, q[2], q[3], q[4], inmulti)
      [] Name(q) = "BRPOPLPUSH"   -> brpoplpushCommand(W, c, q[2], q[3], q[4], inmulti)
      [] Name(q) = "MULTI"        -> multiCommand(W, c)
      [] Name(q) = "DISCARD"      -> discardCommand(W, c)
      [] Name(q) = "WATCH"        -> watchCommand(W, c, q[2])
      [] Name(q) = "UNWATCH"      -> unwatchCommand(W, c)
      [] Name(q) = "SUBSCRIBE"    -> subscribeCommand(W, c, q[2])
      [] Name(q) = "UNSUBSCRIBE"  -> unsubscribeCommand(W, c, q[2])
      [] Name(q) = "PSUBSCRIBE"   -> psubscribeCommand(W, c, q[2])
      [] Name(q) = "PUNSUBSCRIBE" -> punsubscribeCommand(W, c, q[2])
      [] Name(q) = "PUBLISH"      -> publishCommand(W, c, q[2])
      [] Name(q) = "KILL"         -> clientKill(W, c, q[2])
      [] Name(q) = "AUTH"         -> authCommand(W, c, q[2])
      [] Name(q) \in OfDataset    -> addReply(Run(W, q), c)

\* MULTI is propagated ahead of the first command that may write, EXEC at the end if MULTI was.
Executed(W, c) ==
    LET qs == W.cl[c].commands
        first == FirstOf({i \in DOMAIN qs : "readonly" \notin Flags(qs[i])})
        Begin(A) == propagate(A, <<"MULTI">>)
        run[n \in 0..Len(qs)] ==
            IF n = 0 THEN unwatchAllKeys(W, c)
            ELSE callCommand(IF n = first THEN Begin(run[n - 1]) ELSE run[n - 1], c, qs[n], TRUE)
        Close(V) == IF first # 0 THEN propagate(V, <<"EXEC">>) ELSE V
    IN  Close(discardTransaction(addReply(run[Len(qs)], c), c))

execCommand(W, c) ==
    IF ~Has(W, c, "MULTI") THEN addReply(W, c)
    ELSE IF Has(W, c, "DIRTY_CAS") \/ Has(W, c, "DIRTY_EXEC") THEN discardTransaction(addReply(W, c), c)
    ELSE Executed(W, c)

----------------------------------------------------------------------------
\* Why a command is refused, in the order of processCommand, and whether a transaction it
\* was meant for is flagged.
Refusal(W, c, q) ==
    IF Name(q) = "BOGUS" THEN "flags"
    ELSE IF mode = "password" /\ ~W.cl[c].authenticated /\ Name(q) # "AUTH" THEN "flags"
    ELSE IF mode = "oom" /\ "denyoom" \in Flags(q) THEN "flags"
    ELSE IF mode = "bgsaveerr" /\ "write" \in Flags(q) THEN "flags"
    ELSE IF mode = "roslave" /\ "write" \in Flags(q) THEN "silent"
    ELSE IF /\ Subscribed(W, c)
            /\ Name(q) \notin {"SUBSCRIBE", "UNSUBSCRIBE", "PSUBSCRIBE", "PUNSUBSCRIBE"} THEN "silent"
    ELSE IF mode = "stale" /\ "stale" \notin Flags(q) THEN "flags"
    ELSE IF mode = "loading" /\ "loading" \notin Flags(q) THEN "silent"
    ELSE IF mode = "slowscript" /\ Name(q) # "AUTH" THEN "flags"
    ELSE "none"

processCommand(W, c, q) ==
    LET refusal == Refusal(W, c, q)
    IN  IF Name(q) = "QUIT" THEN SetFlags(addReply(W, c), c, {"CLOSE_AFTER_REPLY"})
        ELSE IF refusal = "flags" THEN addReply(flagTransaction(W, c), c)
        ELSE IF refusal = "silent" THEN addReply(W, c)
        ELSE IF Has(W, c, "MULTI") /\ Name(q) \notin {"EXEC", "DISCARD", "MULTI", "WATCH"}
        THEN addReply(queueMultiCommand(W, c, q), c)
        ELSE handleClientsBlockedOnLists(
                IF Name(q) = "EXEC" THEN execCommand(W, c) ELSE callCommand(W, c, q, FALSE))

\* Commands are processed until the client blocks or is to be closed.
ProcessNext(A, c) ==
    IF A.cl[c].querybuf = Empty \/ Has(A, c, "BLOCKED") \/ Has(A, c, "CLOSE_AFTER_REPLY") THEN A
    ELSE processCommand([A EXCEPT !.cl[c].querybuf = Tail(@)], c, Head(A.cl[c].querybuf))
processInputBuffer(W, c) ==
    Rounds(LAMBDA A : ProcessNext(A, c), W, Len(W.cl[c].querybuf))

----------------------------------------------------------------------------
\* The event loop.

InBounds(W) ==
    /\ \A k \in DOMAIN W.dict : Len(W.dict[k].v) <= MaxSize
    /\ \A c \in Clients : Len(W.cl[c].commands) <= MaxQueued /\ Len(W.cl[c].querybuf) <= MaxUnread
                          /\ W.cl[c].buf + W.cl[c].list <= MaxOut

\* A client may fire again once beforeSleep ran, and that is of no consequence when nobody
\* waits for it.
FileEvent(V, c) ==
    /\ Len(link) <= MaxLink
    /\ \E W \in {V} :
        /\ InBounds(W) /\ Become(W)
        /\ fired' = IF W.unblocked = Empty THEN {} ELSE fired \cup {c}
    /\ UNCHANGED <<family, mode, slave>>

Accept(c) ==
    /\ Asked[family][c] # {} /\ ~cl[c].alive /\ ~Contains(unblocked, c)
    /\ FileEvent(acceptCommonHandler(World, c), c)

readQueryFromClient(c) ==
    /\ cl[c].alive /\ c \notin fired
    /\ \E batch \in Asked[family][c] :
        FileEvent(processInputBuffer([World EXCEPT !.cl[c].querybuf = @ \o batch, !.cl[c].idle = 0], c), c)

Disconnect(c) ==
    /\ cl[c].alive /\ c \notin fired
    /\ FileEvent(freeClient(World, c), c)

\* The socket takes one reply, or all of them.
SendReply(c) ==
    LET waiting == cl[c].buf + cl[c].list
    IN  /\ cl[c].alive
        /\ waiting > 0 \/ "CLOSE_AFTER_REPLY" \in cl[c].flags
        /\ \E n \in {Min({1, waiting}), waiting} : FileEvent(sendReplyToClient(World, c, n), c)

\* beforeSleep: what a client sent while it was blocked is executed, and so is what that
\* unblocks.  Whoever is queued again was waiting, or had a command to wait with.
Unread(W) == UNION {{c} \X DOMAIN W.cl[c].querybuf : c \in Clients}
ReadAgain(A, c) == processInputBuffer(ClearFlags([A EXCEPT !.unblocked = Tail(@)], c, {"UNBLOCKED"}), c)
ReadFirst(A) == IF A.unblocked = Empty THEN A ELSE ReadAgain(A, Head(A.unblocked))
ProcessUnblocked(W) ==
    Rounds(ReadFirst, W, Len(W.unblocked) + Cardinality(Waiting(W)) + Cardinality(Unread(W)))

beforeSleep(V) ==
    /\ \E W \in {ProcessUnblocked(V)} : InBounds(W) /\ Become(W)
    /\ fired' = {}
    /\ UNCHANGED <<family, mode, slave>>

Sleep == unblocked # Empty /\ beforeSleep(World)

\* dt seconds pass on server.unixtime.
Elapse(W, dt) ==
    [W EXCEPT !.cl = [c \in Clients |->
        IF ~W.cl[c].alive THEN W.cl[c]
        ELSE [W.cl[c] EXCEPT !.idle = IF W.maxidletime = 0 THEN 0 ELSE Min({@ + dt, W.maxidletime + 1}),
                             !.left = IF @ = Never THEN Never ELSE Max({@ - dt, 0}),
                             !.soft = IF @ = Never THEN Never ELSE Min({@ + dt, SoftSeconds + 1})]]]

\* A client that clientsCron frees is not looked at again.
clientsCron(W) ==
    LET order == SetToSeq(Clients)
        Handle(A, c) == IF A.cl[c].alive THEN clientsCronHandleTimeout(A, c) ELSE A
        run[n \in 0..Len(order)] == IF n = 0 THEN W ELSE Handle(run[n - 1], order[n])
    IN  run[Len(order)]

\* serverCron, and the beforeSleep that ends its iteration.
serverCron(dt) == beforeSleep(freeClientsInAsyncFreeQueue(clientsCron(Elapse(World, dt))))

\* The slave executes what it is sent; a transaction only when EXEC comes.
Apply(d, q) ==
    IF Name(q) = "PUBLISH" THEN d
    ELSE Dataset(Start(ServerOf(d, FALSE), q), q).dict

ApplyAll(d, qs) ==
    LET after[n \in 0..Len(qs)] == IF n = 0 THEN d ELSE Apply(after[n - 1], qs[n])
    IN  after[Len(qs)]

SlaveReads ==
    /\ link # Empty
    /\ link' = Tail(link)
    /\ LET q == Head(link)
       IN  slave' = IF Name(q) = "MULTI" THEN [slave EXCEPT !.multi = TRUE]
                    ELSE IF Name(q) = "EXEC"
                    THEN [dict |-> ApplyAll(slave.dict, slave.commands), multi |-> FALSE, commands |-> Empty]
                    ELSE IF slave.multi THEN [slave EXCEPT !.commands = Append(@, q)]
                    ELSE [slave EXCEPT !.dict = Apply(@, q)]
    /\ UNCHANGED <<family, mode, dict, cl, blocking_keys, watched_keys, channels, patterns, unblocked, toclose, fired>>

\* The server becomes a slave, runs out of memory, fails to save, and recovers.
ModeChange ==
    /\ mode' \in Modes[family] \ {mode}
    /\ UNCHANGED <<family, dict, cl, blocking_keys, watched_keys, channels, patterns, unblocked, toclose, link,
                   slave, fired>>

Cron == \E dt \in {0, 1} : serverCron(dt)

Next ==
    \/ \E c \in Clients : Accept(c) \/ readQueryFromClient(c) \/ Disconnect(c) \/ SendReply(c)
    \/ Sleep \/ Cron \/ SlaveReads \/ ModeChange

Spec == Init /\ [][Next]_vars

----------------------------------------------------------------------------
AllFlags == {"MULTI", "DIRTY_CAS", "DIRTY_EXEC", "BLOCKED", "UNBLOCKED", "CLOSE_ASAP", "CLOSE_AFTER_REPLY"}

\* The lists of the server name clients that are there, with the flag that says so; a
\* client that is gone has left nothing behind.
TypeOK ==
    /\ mode \in Modes[family]
    /\ \A c \in Clients : cl[c].flags \subseteq AllFlags /\ (~cl[c].alive => cl[c] = NoClient)
    /\ \A c \in Clients : "UNBLOCKED" \in cl[c].flags => Contains(unblocked, c)
    /\ \A c \in Clients : Contains(toclose, c) <=> "CLOSE_ASAP" \in cl[c].flags
    /\ IsInjective(toclose)
    /\ slave.multi \in BOOLEAN /\ (~slave.multi => slave.commands = Empty)

\* Nobody is blocked on a list that has elements: a list that is made serves those who wait
\* for it before anything else happens.
NobodyWaitsForNothing ==
    \A k \in DOMAIN blocking_keys : ~IsList(World, k)

\* What a client says it waits for, watches and is subscribed to is what the tables of the
\* server say, with no empty list, no double entry and nobody who is gone: freeClient, a
\* served or timed out BLPOP, EXEC and UNSUBSCRIBE take both sides down, and no client is
\* left waiting for a list that has come.
IndexesAgree ==
    /\ TypeOK
    /\ \A index \in {blocking_keys, watched_keys, channels} :
        \A k \in DOMAIN index : index[k] # Empty /\ IsInjective(index[k])
    /\ IsInjective(patterns)
    /\ \A c \in Clients :
        /\ {k \in DOMAIN blocking_keys : Contains(blocking_keys[k], c)} = cl[c].keys
        /\ {k \in DOMAIN watched_keys : Contains(watched_keys[k], c)} = cl[c].watched
        /\ {ch \in DOMAIN channels : Contains(channels[ch], c)} = cl[c].subs
        /\ {p \in DOMAIN Matches : Contains(patterns, <<c, p>>)} = cl[c].pats
        /\ (cl[c].keys # {}) <=> ("BLOCKED" \in cl[c].flags)
    /\ NobodyWaitsForNothing

\* Optimistic locking: while EXEC would run, every watched key still holds what it held
\* when it was watched, whoever wrote since: a command, a transaction, a served client.
WatchSound ==
    \A c \in Clients : "DIRTY_CAS" \notin cl[c].flags =>
        \A k \in DOMAIN cl[c].seen : Content(dict, k) = cl[c].seen[k]

\* Once the slave has read everything it holds what the master holds: the pops and pushes
\* of served clients, rewritten commands and whole transactions are propagated in order.
SlaveAgrees ==
    (link = Empty /\ mode = "normal") =>
        /\ ~slave.multi
        /\ DOMAIN slave.dict = DOMAIN dict
        /\ \A k \in DOMAIN dict : Content(slave.dict, k) = Content(dict, k)

\* A client over the hard limit of its class is to be closed at the next serverCron, in
\* whichever class it was when the replies came.
OverLimitCloses ==
    \A c \in Clients : Reached(HardLimit[getClientLimitClass(World, c)], cl[c].list) =>
        cl[c].flags \cap {"CLOSE_ASAP", "CLOSE_AFTER_REPLY"} # {}

\* Those who wait for one key are served in the order they blocked: nobody is served past
\* a client that blocked for the same key before.
NoOvertaking ==
    [][\A k \in DOMAIN blocking_keys : \A i, j \in DOMAIN blocking_keys[k] :
        LET c == blocking_keys[k][i]
            d == blocking_keys[k][j]
        IN  (i < j /\ cl[d].keys = {k} /\ ~Contains(unblocked, d) /\ Contains(unblocked', d))
                => Contains(unblocked', c) \/ ~cl'[c].alive]_vars

\* A client that is closed is in no queue of the server any more: freeClient takes it from
\* the list of the unblocked clients.
ClosedIsForgotten == \A c \in Clients : Contains(unblocked, c) => cl[c].alive
=============================================================================
