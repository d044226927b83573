------------------------------ MODULE Sentinel ------------------------------
(* One Redis Sentinel (sentinel.c) that monitors one master: its table of    *)
(* instances, links and ages, what it does with every reply, and its timer.  *)
(* A sentinel is the record S:                                               *)
(*   ri                 instance -> sentinelRedisInstance, the master being  *)
(*                      the instance MasterId, slaves and sentinels named by *)
(*                      their addresses                                      *)
(*   tilt, tiltAge      the TILT mode and the time since it began            *)
(*   late               whether too much time passed since the last timer    *)
(*   scripts, running   the queue of its user scripts, and the count of them *)
(*                      "in execution right now"                             *)
(*   wild               commands in flight on links that were closed         *)
(* A time of the code is the time since, Never if it is 0.  A loop of the    *)
(* code is a function from the number of its rounds to what they leave.      *)
EXTENDS Integers, Sequences, SequencesExt, FiniteSetsExt, Functions

CONSTANTS
    MasterId,  \* the name of the master
    Me,        \* the run id of this sentinel, a number
    Rank,      \* Redis address -> the order of its run id
    T,         \* the periods of sentinel.c and of its configuration
    CapOf,     \* bound: age -> the value from which it makes no difference
    MaxPending,       \* SENTINEL_MAX_PENDING_COMMANDS
    ScriptMaxQueue,   \* SENTINEL_SCRIPT_MAX_QUEUE
    ScriptMaxRunning, \* SENTINEL_SCRIPT_MAX_RUNNING
    ScriptMaxRetry,   \* SENTINEL_SCRIPT_MAX_RETRY
    ScriptMaxRuntime, \* SENTINEL_SCRIPT_MAX_RUNTIME
    ScriptRetryDelay, \* SENTINEL_SCRIPT_RETRY_DELAY
    Nil

Never == 99
Unknown == 0 \* the leader "?"

----------------------------------------------------------------------------
\* The user scripts: scheduled by events, forked by the timer, collected when their process ends
\* and tried again when it says so.
\* A job is running, waits, or has ended with a result nobody collected: wait is how long it
\* may not run, age how long it has run.
NewJob(type) == [type |-> type, st |-> "scheduled", retry |-> 0, wait |-> 0, age |-> 0]
Results == {"ok", "again", "error"}
IsRunning(j) == j.st # "scheduled"

\* The first job of the queue q that satisfies Test, 0 if none does.
FirstJob(q, Test(_)) == SelectInSeq(q, Test)

\* A new job goes to the tail; over the limit the oldest job that is not running goes.
sentinelScheduleScriptExecution(S, type) ==
    LET q == Append(S.scripts, NewJob(type))
        old == FirstJob(q, LAMBDA j : ~IsRunning(j))
    IN  [S EXCEPT !.scripts = IF Len(q) > ScriptMaxQueue /\ old # 0 THEN RemoveAt(q, old) ELSE q]

\* A failed fork counts as a try, so that retry_num may pass the limit it is compared with.
MaxRetrySeen == ScriptMaxRetry + 1 \* bound: the highest retry_num told apart

\* A fork that fails leaves the job scheduled.
Forked(j, forked) ==
    [j EXCEPT !.retry = Min({@ + 1, MaxRetrySeen}), !.age = 0, !.st = IF forked THEN "running" ELSE "scheduled"]
Started(R, i, forked) ==
    [R EXCEPT !.running = IF forked THEN @ + 1 ELSE @, !.scripts[i] = Forked(@, forked)]

\* From the oldest on, while the limit is not reached.
sentinelRunPendingScripts(S, forked) ==
    LET run[n \in 0..Len(S.scripts)] ==
            IF n = 0 THEN S
            ELSE LET R == run[n - 1] IN
                 IF R.running >= ScriptMaxRunning \/ IsRunning(R.scripts[n]) \/ R.scripts[n].wait > 0 THEN R
                 ELSE Started(R, n, forked)
    IN  run[Len(S.scripts)]

sentinelScriptRetryDelay(retry) == ScriptRetryDelay * (2 ^ (retry - 1))

\* A job that ended: tried again after a delay, or removed.  Only what is removed is
\* taken from the count.
Collected(R, i) ==
    LET j == R.scripts[i] IN
    IF j.st = "again" /\ j.retry # ScriptMaxRetry
    THEN [R EXCEPT !.scripts[i] = [j EXCEPT !.st = "scheduled", !.age = 0, !.wait = sentinelScriptRetryDelay(j.retry)]]
    ELSE [R EXCEPT !.scripts = RemoveAt(@, i), !.running = @ - 1]

sentinelCollectTerminatedScripts(S) ==
    LET run[n \in 0..Len(S.scripts)] ==
            IF n = 0 THEN S
            ELSE LET i == FirstJob(run[n - 1].scripts, LAMBDA j : j.st \in Results)
                 IN  IF i = 0 THEN run[n - 1] ELSE Collected(run[n - 1], i)
    IN  run[Len(S.scripts)]

\* A script that runs too long is killed by a signal: its process ends to be tried again.
sentinelKillTimedoutScripts(S) ==
    [S EXCEPT !.scripts = [i \in DOMAIN @ |-> IF @[i].st = "running" /\ @[i].age > ScriptMaxRuntime
                                              THEN [@[i] EXCEPT !.st = "again"] ELSE @[i]]]

----------------------------------------------------------------------------
M(S) == S.ri[MasterId]
Of(S, type) == {i \in DOMAIN S.ri : S.ri[i].type = type}
Has(r, flag) == flag \in r.flags
Set(S, i, r) == [S EXCEPT !.ri[i] = r]
\* Something done to all instances of a type, each by itself.
Each(S, type, Op(_)) == [S EXCEPT !.ri = [i \in DOMAIN @ |-> IF @[i].type = type THEN Op(@[i]) ELSE @[i]]]

\* An event of the level that calls the notification script.
sentinelEvent(S, type, conf) == IF conf.notify THEN sentinelScheduleScriptExecution(S, type) ELSE S
sentinelCallClientReconfScript(S, state, conf) == IF conf.reconf THEN sentinelScheduleScriptExecution(S, state) ELSE S

createSentinelRedisInstance(type, addr, flags) ==
    [type |-> type, addr |-> addr, flags |-> flags \cup {"DISCONNECTED"}, runid |-> Nil,
     cc |-> Nil, out |-> <<>>, pend |-> 0, conn |-> Never, pc |-> FALSE, pcconn |-> Never, pcact |-> Never,
     avail |-> 0, pong |-> 0, pub |-> 0, md |-> 0, sdown |-> Never, odown |-> Never, info |-> Never,
     mdown |-> 0, prio |-> 1, sent |-> Never, host |-> Nil, linkup |-> FALSE,
     leader |-> Nil, fstate |-> "NONE", fchange |-> Never, fstart |-> 0, promoted |-> Nil]

\* New instances, unless their table has one of that name.
Created(S, ids, type, flags) ==
    [S EXCEPT !.ri = [i \in DOMAIN S.ri \cup ids |->
                         IF i \in DOMAIN S.ri THEN S.ri[i] ELSE createSentinelRedisInstance(type, i, flags)]]

Roles == {"SLAVEOF", "NOONE"}
Counted(r) == r.pend + 1
\* redisAsyncCommand: the command waits for the event loop to write it; some callers do not count it.
Send(r, cmd) == [r EXCEPT !.out = Append(@, cmd), !.pend = Counted(r)]
SendUncounted(r, cmd) == [r EXCEPT !.out = Append(@, cmd)]
\* The event loop has written what was sent before.
WrittenLink(r) == IF r.cc = Nil THEN r ELSE [r EXCEPT !.cc = r.cc \o r.out, !.out = <<>>]
Written(S) == [S EXCEPT !.ri = [i \in DOMAIN @ |-> WrittenLink(@[i])]]

\* What is in flight may still reach a Redis instance; what was not written is lost with the link.
InFlight(r) == IF r.cc = Nil \/ r.type = "sentinel" THEN {}
               ELSE {<<r.addr, c>> : c \in {d \in Range(r.cc) : d[1] \in Roles}}
Closed(r) == [r EXCEPT !.cc = Nil, !.out = <<>>, !.pend = 0, !.flags = @ \cup {"DISCONNECTED"}]
sentinelKillLink(S, i) == [S EXCEPT !.ri[i] = Closed(@), !.wild = @ \cup InFlight(S.ri[i])]
KillPubsub(r) == [r EXCEPT !.pc = FALSE, !.flags = @ \cup {"DISCONNECTED"}]
Removed(S, ids) == [S EXCEPT !.ri = [i \in DOMAIN @ \ ids |-> @[i]],
                             !.wild = @ \cup UNION {InFlight(S.ri[i]) : i \in ids}]

\* Both connections of a master, the command connection of the others.
sentinelReconnectInstance(S, i) ==
    LET r == S.ri[i]
        c == IF r.cc = Nil THEN [r EXCEPT !.cc = <<>>, !.conn = 0] ELSE r
        p == IF r.type = "master" /\ ~r.pc THEN [c EXCEPT !.pc = TRUE, !.pcconn = 0] ELSE c
    IN  IF Has(r, "DISCONNECTED") THEN Set(S, i, [p EXCEPT !.flags = @ \ {"DISCONNECTED"}]) ELSE S

\* INFO when it is due, else PING, else the hello message.
sentinelPingInstance(S, i) ==
    LET r == S.ri[i]
        fast == r.type = "slave" /\ (Has(M(S), "O_DOWN") \/ Has(M(S), "FAILOVER_IN_PROGRESS"))
        period == IF fast THEN T.infoFast ELSE T.info
    IN  IF Has(r, "DISCONNECTED") \/ r.pend >= MaxPending THEN S
        ELSE IF r.type # "sentinel" /\ r.info > period THEN Set(S, i, Send(r, <<"INFO">>))
        ELSE IF r.pong > T.ping THEN Set(S, i, Send(r, <<"PING">>))
        ELSE IF r.type = "master" /\ r.pub > T.publish THEN Set(S, i, Send(r, <<"PUBLISH">>))
        ELSE S

----------------------------------------------------------------------------
\* Mutant: an answer is never too old.
AnswersForever(r) == r

\* An answer that is too old is forgotten.
RecentAnswer(r) == IF r.md > T.validity THEN [r EXCEPT !.flags = @ \ {"MASTER_DOWN"}, !.leader = Nil] ELSE r

\* The other sentinels are asked whether the master is down and whom they vote for.
\* At most one question waits on a link (a bound).
sentinelAskMasterStateToOtherSentinels(S) ==
    LET idle == ~Has(M(S), "S_DOWN") /\ ~Has(M(S), "FAILOVER_IN_PROGRESS")
        asked(r) == r.cc # Nil /\ <<"ASK">> \in Range(r.cc) \cup Range(r.out)
        Ask(r) == IF idle \/ Has(r, "DISCONNECTED") \/ r.md < T.ask \/ asked(r) THEN RecentAnswer(r)
                  ELSE Send(RecentAnswer(r), <<"ASK">>)
    IN  Each(S, "sentinel", Ask)

\* A link without activity is closed; then the silence of the instance decides.
sentinelCheckSubjectivelyDown(S, i, conf) ==
    LET r == S.ri[i]
        K == IF r.cc # Nil /\ r.conn > T.reconnect /\ r.pong > T.down \div 2 THEN sentinelKillLink(S, i) ELSE S
        P == IF r.pc /\ r.pcconn > T.reconnect /\ r.pcact > 3 * T.publish
             THEN Set(K, i, KillPubsub(K.ri[i])) ELSE K
        D == Set(P, i, [P.ri[i] EXCEPT !.sdown = 0, !.flags = @ \cup {"S_DOWN"}])
        U == Set(P, i, [P.ri[i] EXCEPT !.flags = @ \ {"S_DOWN", "SCRIPT_KILL_SENT"}])
    IN  CASE r.avail > T.down /\ ~Has(r, "S_DOWN") -> sentinelEvent(D, "+sdown", conf)
          [] r.avail <= T.down /\ Has(r, "S_DOWN") -> sentinelEvent(U, "-sdown", conf)
          [] OTHER -> P

\* The master is objectively down if this sentinel and enough others say so.
sentinelCheckObjectivelyDown(S, conf) ==
    LET m == M(S)
        odown == Has(m, "S_DOWN")
              /\ 1 + Cardinality({i \in Of(S, "sentinel") : Has(S.ri[i], "MASTER_DOWN")}) >= conf.quorum
        D == Set(S, MasterId, [m EXCEPT !.odown = 0, !.flags = @ \cup {"O_DOWN"}])
        U == Set(S, MasterId, [m EXCEPT !.flags = @ \ {"O_DOWN"}])
    IN  CASE odown /\ ~Has(m, "O_DOWN") -> sentinelEvent(D, "+odown", conf)
          [] ~odown /\ Has(m, "O_DOWN") -> sentinelEvent(U, "-odown", conf)
          [] OTHER -> S

\* The smallest run id of the sentinels that may fail the master over and answered lately.
sentinelGetSubjectiveLeader(S) ==
    LET Able(r) == Has(r, "CAN_FAILOVER")
        others == {i \in Of(S, "sentinel") : LET r == S.ri[i] IN
                       r.avail <= T.validity /\ Able(r) /\ ~Has(r, "DISCONNECTED") /\ r.runid # Nil}
        runids == {S.ri[i].runid : i \in others} \cup (IF Able(M(S)) THEN {Me} ELSE {})
    IN  IF runids = {} THEN Nil ELSE Min(runids)

\* The leader most voters agree on, if they are a majority and a quorum.
sentinelGetObjectiveLeader(S, conf) ==
    LET mine == sentinelGetSubjectiveLeader(S)
        voters == {i \in Of(S, "sentinel") :
                       /\ S.ri[i].leader # Nil
                       /\ Has(M(S), "FAILOVER_IN_PROGRESS") \/ Has(S.ri[i], "MASTER_DOWN")}
        Votes(l) == Cardinality({i \in voters : S.ri[i].leader = l}) + (IF l = mine THEN 1 ELSE 0)
        all == Cardinality(voters) + (IF mine = Nil THEN 0 ELSE 1)
        runids == {S.ri[i].leader : i \in voters} \cup ({mine} \ {Nil})
        won == {l \in runids : Votes(l) >= all \div 2 + 1 /\ Votes(l) >= conf.quorum}
    IN  IF won = {} THEN Nil ELSE CHOOSE l \in won : TRUE

\* A slave that is up and connected, answered and told about itself lately, may be promoted and
\* did not lose the master long before it went down: the one of the lowest priority and run id.
sentinelSelectSlave(S) ==
    LET m == M(S)
        down == Has(m, "S_DOWN")
        known == IF down THEN T.validity ELSE T.validity + T.info
        good == {i \in Of(S, "slave") : LET r == S.ri[i] IN
                     /\ r.flags \cap {"S_DOWN", "O_DOWN", "DISCONNECTED", "DEMOTE"} = {}
                     /\ r.avail <= T.validity /\ r.info <= known
                     /\ r.prio # 0
                     /\ r.mdown <= (IF down THEN m.sdown ELSE 0) + T.many * T.down}
        Before(i, j) == \/ S.ri[i].prio < S.ri[j].prio
                        \/ S.ri[i].prio = S.ri[j].prio /\ Rank[i] <= Rank[j]
    IN  IF good = {} THEN Nil ELSE CHOOSE i \in good : \A j \in good : Before(i, j)

\* This sentinel begins a failover as its leader, or takes one over.
Led(S, state, start) ==
    Set(S, MasterId, [M(S) EXCEPT !.fstate = state, !.fchange = 0, !.fstart = start,
                                  !.flags = @ \cup {"FAILOVER_IN_PROGRESS", "I_AM_THE_LEADER"}])
sentinelStartFailover(S, delay, conf) ==
    sentinelEvent(sentinelEvent(Led(S, "WAIT_START", delay), "+failover-triggered", conf),
                  "+failover-state-wait-start", conf)
TakeOver(S, conf) ==
    sentinelEvent(Led(sentinelEvent(S, "+failover-takedown", conf), "RECONF_SLAVES", M(S).fstart),
                  "+failover-triggered", conf)

Flagged(S, flags) == Each(S, "slave", LAMBDA r : [r EXCEPT !.flags = @ \cup flags])
Unflagged(S, flags) == Each(S, "slave", LAMBDA r : [r EXCEPT !.flags = @ \ flags])

sentinelStartFailoverIfNeeded(S, delay, conf) ==
    LET m == M(S)
        inprog == Has(m, "FAILOVER_IN_PROGRESS")
    IN  IF ~Has(m, "CAN_FAILOVER") \/ ~(Has(m, "O_DOWN") \/ inprog) THEN S
        ELSE IF sentinelGetObjectiveLeader(S, conf) # Me THEN S
        ELSE IF inprog
             THEN IF Has(m, "I_AM_THE_LEADER") \/ m.fchange < T.failover \div 4 THEN S
                  ELSE Unflagged(TakeOver(S, conf), {"RECONF_SENT"})
        ELSE IF sentinelSelectSlave(S) = Nil THEN S
        ELSE sentinelStartFailover(S, delay, conf)

----------------------------------------------------------------------------
Progress(S, state) == Set(S, MasterId, [M(S) EXCEPT !.fstate = state, !.fchange = 0])

Reconf == {"RECONF_SENT", "RECONF_INPROG", "RECONF_DONE"}
Touched(m, r) == Has(m, "I_AM_THE_LEADER") /\ ~Has(r, "DISCONNECTED") /\ r.flags \cap ({"PROMOTED"} \cup Reconf) # {}
SentBack(m, r) == IF Touched(m, r) THEN SendUncounted(r, <<"SLAVEOF", m.addr>>) ELSE r

\* Mutant: a slave that was being reconfigured stays so.
UndoneButInProgress(m, r) == [SentBack(m, r) EXCEPT !.flags = @ \ {"RECONF_SENT", "RECONF_DONE"}]

\* The leader sends the slaves it touched back to the old master, and everybody forgets the failover.
Undone(m, r) == [SentBack(m, r) EXCEPT !.flags = @ \ Reconf]
sentinelAbortFailover(S, conf) ==
    LET m == M(S)
        R == Each(S, "slave", LAMBDA r : Undone(m, r))
        F == Set(R, MasterId, [m EXCEPT !.flags = @ \ {"FAILOVER_IN_PROGRESS", "I_AM_THE_LEADER", "FORCE_FAILOVER"},
                                        !.fstate = "NONE", !.fchange = 0, !.promoted = Nil])
        P == Set(F, m.promoted, [F.ri[m.promoted] EXCEPT !.flags = @ \ {"PROMOTED"}])
    IN  IF m.promoted = Nil THEN F ELSE sentinelCallClientReconfScript(P, "abort", conf)

\* The master may have come back; otherwise the chosen delay passes.
sentinelFailoverWaitStart(S, conf) ==
    IF M(S).flags \cap {"S_DOWN", "O_DOWN", "FORCE_FAILOVER"} = {}
    THEN sentinelAbortFailover(sentinelEvent(S, "-failover-abort-master-is-back", conf), conf)
    ELSE IF M(S).fstart > 0 THEN S
    ELSE sentinelEvent(Progress(S, "SELECT_SLAVE"), "+failover-state-select-slave", conf)

\* The slave p is to be the master, or is one already.
Elected(S, p, state) ==
    LET P == Set(S, p, [S.ri[p] EXCEPT !.flags = @ \cup {"PROMOTED"}])
    IN  Progress(Set(P, MasterId, [M(P) EXCEPT !.promoted = p]), state)

sentinelFailoverSelectSlave(S, conf) ==
    LET p == sentinelSelectSlave(S)
    IN  IF p = Nil
        THEN sentinelAbortFailover(sentinelEvent(S, "-failover-abort-no-good-slave", conf), conf)
        ELSE sentinelEvent(Elected(S, p, "SEND_SLAVEOF_NOONE"), "+selected-slave", conf)

sentinelFailoverSendSlaveOfNoOne(S) ==
    LET p == M(S).promoted IN
    IF Has(S.ri[p], "DISCONNECTED") THEN S
    ELSE Progress(Set(S, p, Send(S.ri[p], <<"NOONE">>)), "WAIT_PROMOTION")

\* A slave that does not become a master in time is given up, and another one chosen.
sentinelFailoverWaitPromotion(S, conf) ==
    LET p == M(S).promoted
        P == Set(S, p, [S.ri[p] EXCEPT !.flags = @ \ {"PROMOTED"}])
        Q == Progress(Set(P, MasterId, [M(P) EXCEPT !.promoted = Nil]), "SELECT_SLAVE")
    IN  IF M(S).fchange < T.promotion THEN S
        ELSE sentinelEvent(sentinelEvent(Q, "-promotion-timeout", conf), "+failover-state-select-slave", conf)

\* The failover ends when the slaves that can be reached follow the promoted one, or too much
\* time has passed: then the leader sends SLAVEOF to all that are left, whoever they are.
FailoverEnded(S, timeout, conf) ==
    LET E == IF timeout THEN sentinelEvent(S, "+failover-end-for-timeout", conf) ELSE S
    IN  sentinelCallClientReconfScript(Progress(sentinelEvent(E, "+failover-end", conf), "UPDATE_CONFIG"), "end", conf)

\* Told to follow the server a, a slave has the flag RECONF_SENT.
Told(r, a) == [SendUncounted(r, <<"SLAVEOF", a>>) EXCEPT !.flags = @ \cup {"RECONF_SENT"}]

sentinelFailoverDetectEnd(S, conf) ==
    LET m == M(S)
        left == {i \in Of(S, "slave") : S.ri[i].flags \cap {"PROMOTED", "RECONF_DONE", "S_DOWN"} = {}}
        timeout == m.fchange > T.failover
        E == FailoverEnded(S, timeout, conf)
        Tell(r) == IF r.flags \cap {"RECONF_DONE", "RECONF_SENT", "DISCONNECTED"} = {} THEN Told(r, m.promoted) ELSE r
    IN  IF m.promoted = Nil THEN S
        ELSE IF Has(S.ri[m.promoted], "S_DOWN") \/ (left # {} /\ ~timeout) THEN S
        ELSE IF timeout /\ Has(m, "I_AM_THE_LEADER") THEN Each(E, "slave", Tell)
        ELSE E

\* One slave: whether it was told too long ago is asked before whether it may be told.
Retried(r) == IF Has(r, "RECONF_SENT") /\ r.sent > T.reconf THEN [r EXCEPT !.flags = @ \ {"RECONF_SENT"}] ELSE r
Ready(r) == Retried(r).flags \cap {"DISCONNECTED", "RECONF_SENT", "RECONF_INPROG"} = {}
Reconfiguring(r, a) ==
    IF Ready(r) THEN [Told(Retried(r), a) EXCEPT !.pend = Counted(r), !.sent = 0] ELSE Retried(r)

\* At most parallel slaves at a time are told to follow the promoted one.
sentinelFailoverReconfNextSlave(S, conf) ==
    LET busy == {i \in Of(S, "slave") : Has(S.ri[i], "RECONF_SENT") \/ Has(S.ri[i], "RECONF_INPROG")}
        slaves == SetToSeq(Of(S, "slave"))
        run[n \in 0..Len(slaves)] ==
            IF n = 0 THEN [S |-> S, n |-> Cardinality(busy)]
            ELSE LET A == run[n - 1]
                     r == A.S.ri[slaves[n]]
                 IN  IF A.n >= conf.parallel \/ Has(r, "PROMOTED") \/ Has(r, "RECONF_DONE") THEN A
                     ELSE [S |-> Set(A.S, slaves[n], Reconfiguring(r, M(S).promoted)),
                           n |-> IF Ready(r) THEN A.n + 1 ELSE A.n]
    IN  sentinelFailoverDetectEnd(run[Len(slaves)].S, conf)

sentinelFailoverStateMachine(S, conf) ==
    LET state == M(S).fstate
        next == CASE state = "WAIT_START" -> sentinelFailoverWaitStart(S, conf)
                  [] state = "SELECT_SLAVE" -> sentinelFailoverSelectSlave(S, conf)
                  [] state = "SEND_SLAVEOF_NOONE" -> sentinelFailoverSendSlaveOfNoOne(S)
                  [] state = "WAIT_PROMOTION" -> sentinelFailoverWaitPromotion(S, conf)
                  [] state = "RECONF_SLAVES" -> sentinelFailoverReconfNextSlave(S, conf)
                  [] state = "DETECT_END" -> sentinelFailoverDetectEnd(S, conf)
                  [] OTHER -> S
    IN  IF Has(M(S), "FAILOVER_IN_PROGRESS") THEN next ELSE S

\* A promoted slave that stays down for long ends the failover.
sentinelAbortFailoverIfNeeded(S, conf) ==
    LET p == M(S).promoted
    IN  IF ~Has(M(S), "FAILOVER_IN_PROGRESS") \/ p = Nil THEN S
        ELSE IF ~Has(S.ri[p], "S_DOWN") \/ S.ri[p].sdown < T.many * T.down THEN S
        ELSE sentinelAbortFailover(sentinelEvent(S, "-failover-abort-x-sdown", conf), conf)

\* The master without its slaves, its sentinels and its failover.
sentinelResetMaster(S) ==
    LET R == Removed(S, DOMAIN S.ri \ {MasterId})
        m == IF M(S).cc = Nil THEN M(R) ELSE Closed(M(R))
        p == IF M(S).pc THEN KillPubsub(m) ELSE m
    IN  [Set(R, MasterId, [p EXCEPT !.flags = @ \cap {"CAN_FAILOVER", "DISCONNECTED"}, !.leader = Nil,
                                    !.fstate = "NONE", !.fchange = Never, !.fstart = 0, !.promoted = Nil,
                                    !.runid = Nil, !.host = Nil, !.avail = 0, !.pong = 0])
         EXCEPT !.wild = @ \cup InFlight(M(S))]

sentinelResetMasterAndChangeAddress(S, addr) ==
    LET R == sentinelResetMaster(S)
    IN  Set(R, MasterId, [M(R) EXCEPT !.addr = addr, !.sdown = Never, !.odown = Never])

\* The promoted slave is the master, and the old master a slave to be demoted.
sentinelFailoverSwitchToPromotedSlave(S, conf) ==
    LET m == M(S)
        E == sentinelEvent(S, "+switch-master", conf)
    IN  IF m.promoted = Nil THEN sentinelResetMasterAndChangeAddress(E, m.addr)
        ELSE Created(sentinelResetMasterAndChangeAddress(E, m.promoted), {m.addr}, "slave", {"DEMOTE"})

\* Mutant: the TILT mode ends at once.
TiltedAtOnce(S) == FALSE

\* The TILT mode lasts for a period.
Tilted(S) == S.tilt /\ S.tiltAge < T.tilt

\* What is done about every instance.
Monitored(S, i) ==
    LET P == sentinelPingInstance(sentinelReconnectInstance(S, i), i)
    IN  IF i = MasterId THEN sentinelAskMasterStateToOtherSentinels(P) ELSE P

\* What is done about the master alone.
FailedOver(S, delay, conf) ==
    sentinelFailoverStateMachine(
        sentinelStartFailoverIfNeeded(sentinelCheckObjectivelyDown(S, conf), delay, conf), conf)

\* The acting half, unless the mode is TILT.
Acted(S, i, delay, conf) ==
    LET D == sentinelCheckSubjectivelyDown([S EXCEPT !.tilt = FALSE], i, conf)
    IN  IF Tilted(S) THEN S
        ELSE IF i = MasterId THEN sentinelAbortFailoverIfNeeded(FailedOver(D, delay, conf), conf)
        ELSE D

sentinelHandleRedisInstance(S, i, delay, conf) == Acted(Monitored(S, i), i, delay, conf)

\* The master, then its slaves and sentinels.
Handled(S, delay, conf) ==
    LET order == <<MasterId>> \o SetToSeq(DOMAIN S.ri \ {MasterId})
        run[n \in 0..Len(order)] ==
            IF n = 0 THEN S ELSE sentinelHandleRedisInstance(run[n - 1], order[n], delay, conf)
    IN  run[Len(order)]

\* Mutant: the address is not changed when the old master has come back.
SwitchedWhileDown(S, conf) ==
    IF M(S).fstate = "UPDATE_CONFIG" /\ Has(M(S), "S_DOWN") THEN sentinelFailoverSwitchToPromotedSlave(S, conf) ELSE S

Switched(S, conf) ==
    IF M(S).fstate = "UPDATE_CONFIG" THEN sentinelFailoverSwitchToPromotedSlave(S, conf) ELSE S

sentinelHandleDictOfRedisInstances(S, delay, conf) == Switched(Handled(S, delay, conf), conf)

sentinelCheckTiltCondition(S) ==
    IF S.late THEN [S EXCEPT !.tilt = TRUE, !.tiltAge = 0, !.late = FALSE] ELSE S

sentinelTimer(S, delay, forked, conf) ==
    sentinelKillTimedoutScripts(sentinelCollectTerminatedScripts(sentinelRunPendingScripts(
        sentinelHandleDictOfRedisInstances(sentinelCheckTiltCondition(Written(S)), delay, conf), forked)))

----------------------------------------------------------------------------
\* What INFO says: the role with its master and link, the run id and, of a master, its slaves.
Refreshed(r, info) ==
    [r EXCEPT !.runid = info.runid, !.info = 0, !.mdown = info.mdown,
              !.host = IF info.role = "slave" THEN info.of ELSE @,
              !.linkup = IF info.role = "slave" THEN info.link ELSE @,
              !.prio = IF info.role = "slave" THEN info.prio ELSE @]

\* An old master that came back is told to follow the new one, once both are well known.
Demote(S, i) ==
    LET m == M(S)
        wait == 2 * T.info + 2 * T.down
        recent == Min({m.sdown, m.odown})
        known == m.flags \cap {"S_DOWN", "O_DOWN"} = {} /\ m.info < 2 * T.info
    IN  IF recent <= wait \/ S.tiltAge < wait THEN S
        ELSE IF known THEN Set(S, i, SendUncounted(S.ri[i], <<"SLAVEOF", m.addr>>))
        ELSE Set(S, i, [S.ri[i] EXCEPT !.flags = @ \ {"DEMOTE"}])

\* Another sentinel, or somebody, promoted the slave i.
Observe(S, i, conf) ==
    LET A == IF Has(M(S), "FAILOVER_IN_PROGRESS")
             THEN sentinelAbortFailover(sentinelEvent(S, "-failover-abort-race", conf), conf) ELSE S
        P == Elected(sentinelEvent(A, "+failover-detected", conf), i, "DETECT_END")
        F == Set(P, MasterId, [M(P) EXCEPT !.flags = @ \cup {"FAILOVER_IN_PROGRESS"}])
        D == Set(F, i, [F.ri[i] EXCEPT !.flags = @ \ {"DEMOTE"}])
    IN  Flagged(sentinelCallClientReconfScript(D, "start", conf), {"RECONF_SENT"})

\* The slave i says it is a master; reboot: with a run id this sentinel did not know.
\* [S, done]: done when nothing else is read from the reply.
RoleSwitch(S, i, reboot, conf) ==
    LET r == S.ri[i]
        m == M(S)
        inprog == Has(m, "FAILOVER_IN_PROGRESS")
        leads == inprog /\ Has(m, "I_AM_THE_LEADER")
        Go(R) == [S |-> R, done |-> FALSE]
        promotion == sentinelCallClientReconfScript(
                         sentinelEvent(sentinelEvent(Progress(S, "RECONF_SLAVES"), "+promoted-slave", conf),
                                       "+failover-state-reconf-slaves", conf), "start", conf)
    IN  IF ~S.tilt /\ Has(r, "DEMOTE") THEN Go(Demote(S, i))
        ELSE IF ~inprog /\ reboot
             THEN [S |-> Removed(sentinelEvent(S, "-slave-restart-as-master", conf), {i}), done |-> TRUE]
        ELSE IF ~S.tilt /\ Has(r, "PROMOTED") THEN Go(IF leads /\ m.fstate = "WAIT_PROMOTION" THEN promotion ELSE S)
        ELSE IF ~S.tilt /\ (~inprog \/ (leads /\ m.fstate = "WAIT_START")) THEN Go(Observe(S, i, conf))
        ELSE Go(S)

\* The slave follows the promoted one, and then has its data.
Reconfigured(S, i) ==
    LET r == S.ri[i]
        a == IF Has(r, "RECONF_SENT") /\ r.host = M(S).promoted
             THEN [r EXCEPT !.flags = (@ \ {"RECONF_SENT"}) \cup {"RECONF_INPROG"}] ELSE r
        b == IF Has(a, "RECONF_INPROG") /\ r.linkup
             THEN [a EXCEPT !.flags = (@ \ {"RECONF_INPROG"}) \cup {"RECONF_DONE"}, !.fchange = 0] ELSE a
    IN  Set(S, i, [b EXCEPT !.flags = @ \ {"DEMOTE"}])

sentinelRefreshInstanceInfo(S, i, info, conf) ==
    LET r == S.ri[i]
        R == Set(S, i, Refreshed(r, info))
        A == Created(R, info.slaves, "slave", {})
        reboot == r.runid # info.runid
        W == IF r.type = "slave" /\ info.role = "master" THEN RoleSwitch(R, i, reboot, conf)
             ELSE [S |-> IF r.type = "master" THEN A ELSE R, done |-> FALSE]
    IN  IF r.type = "master" /\ info.role = "slave"
        THEN sentinelResetMasterAndChangeAddress(sentinelEvent(R, "+redirect-to-master", conf), info.of)
        ELSE IF W.done \/ W.S.tilt THEN W.S
        ELSE IF r.type = "slave" /\ info.role = "slave" THEN Reconfigured(W.S, i)
        ELSE W.S
=============================================================================
