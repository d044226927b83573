---------------------------- MODULE SentinelNet ----------------------------
(* A sentinel and what it monitors: Redis servers that crash, restart and    *)
(* replicate, the links to them with the commands in flight, other sentinels *)
(* with their hello messages and votes, the clock, and the clients of the    *)
(* sentinel itself.                                                          *)
EXTENDS Sentinel

CONSTANTS
    Addr,    \* the Redis servers
    First,   \* the one that is the master at the beginning
    Conf     \* family -> the configuration of the sentinel, and what may happen

Plain == {"INFO", "PING", "PUBLISH", "ASK", "NOONE", "KILL"}
Command == {<<x>> : x \in Plain} \cup ({"SLAVEOF"} \X Addr)

\* The servers, the other sentinels and the master's name are apart.  Ages are capped where they
\* make no difference any more, below Never.
ASSUME SentinelAssumption ==
    /\ IsFiniteSet(Addr) /\ First \in Addr /\ MasterId \notin Addr
    /\ Nil \notin Addr \cup Seq(Command)
    /\ Me \in Nat /\ {MaxPending, ScriptMaxQueue, ScriptMaxRunning} \subseteq Nat
    /\ {T.tilt, T.validity, CapOf.md, CapOf.tilt} \subseteq Int
    /\ T.tilt <= CapOf.tilt /\ T.tilt <= Never
    /\ DOMAIN CapOf \subseteq {"conn", "pcconn", "pcact", "avail", "pong", "pub", "md", "sdown", "odown", "info",
                               "mdown", "sent", "fchange", "tilt"}
    /\ \A a \in Addr : Rank[a] \in Nat
    /\ \A f \in DOMAIN Conf : /\ \A h \in Conf[f].hellos : h.addr \notin Addr \cup {MasterId}
                             /\ \A a \in Addr : Conf[f].prio[a] \in Nat /\ Conf[f].slaveof[a] \subseteq Addr

VARIABLES
    family, \* the family of this behaviour
    st,     \* the sentinel
    inst,   \* Redis server -> [up, busy, role, of, link, mdown, boots]
    ran,    \* whether the timer ran since the clock last moved
    left,   \* how often each fault may still happen
    masters \* the servers that were masters or were named as masters, kept for the properties

vars == <<family, st, inst, ran, left, masters>>

conf == Conf[family]

\* initSentinel and the configuration: one master, no slaves and no sentinels known yet.
Init ==
    /\ family \in DOMAIN Conf
    /\ st = [ri |-> [i \in {MasterId} |-> [createSentinelRedisInstance("master", First,
                                     IF conf.can THEN {"CAN_FAILOVER"} ELSE {}) EXCEPT !.prio = 0]],
             tilt |-> FALSE, tiltAge |-> Never, late |-> FALSE, scripts |-> <<>>, running |-> 0, wild |-> {}]
    /\ inst = [a \in Addr |-> [up |-> a \in conf.servers, busy |-> FALSE, role |-> IF a = First THEN "master" ELSE "slave",
                               of |-> IF a = First THEN Nil ELSE First, link |-> a \in conf.servers \ {First}, mdown |-> 0, boots |-> 0]]
    /\ ran = FALSE /\ left = conf.left /\ masters = {First}

----------------------------------------------------------------------------
\* The Redis servers: what a role command does, and what INFO says.
Cut(E, a) == [b \in Addr |-> IF E[b].of = a /\ E[b].link THEN [E[b] EXCEPT !.link = FALSE, !.mdown = 0] ELSE E[b]]
Commanded(E, a, cmd) ==
    CASE E[a].up /\ cmd[1] = "SLAVEOF" -> Cut([E EXCEPT ![a].role = "slave", ![a].of = cmd[2], ![a].link = FALSE, ![a].mdown = 0], a)
      [] E[a].up /\ cmd[1] = "NOONE" -> [E EXCEPT ![a].role = "master", ![a].of = Nil, ![a].link = FALSE, ![a].mdown = 0]
      [] E[a].up /\ cmd[1] = "KILL" -> [E EXCEPT ![a].busy = FALSE]
      [] OTHER -> E

InfoOf(E, a) ==
    [runid |-> E[a].boots, role |-> E[a].role, of |-> E[a].of, link |-> E[a].link,
     mdown |-> IF E[a].role = "slave" /\ ~E[a].link THEN E[a].mdown ELSE 0, prio |-> conf.prio[a],
     slaves |-> {b \in Addr : E[b].up /\ E[b].role = "slave" /\ E[b].of = a /\ E[b].link}]

\* The callbacks of the replies; a reply of another sentinel is its vote.
MinPending == -1 \* bound: the lowest value of pending_commands, which some replies take below 0
Received(r) == [r EXCEPT !.cc = Tail(@), !.pend = IF @ > MinPending THEN @ - 1 ELSE @]

sentinelPingReplyCallback(S, i, busy) ==
    LET r == S.ri[i]
        kill == busy /\ Has(r, "S_DOWN") /\ ~Has(r, "SCRIPT_KILL_SENT")
        k == IF kill THEN [SendUncounted(r, <<"KILL">>) EXCEPT !.flags = @ \cup {"SCRIPT_KILL_SENT"}] ELSE r
    IN  Set(S, i, [k EXCEPT !.pong = 0, !.avail = IF busy THEN @ ELSE 0])

\* Its own hello message comes back to the sentinel.
sentinelPublishReplyCallback(S, i) ==
    Set(S, i, [S.ri[i] EXCEPT !.pub = 0, !.pcact = IF S.ri[i].pc THEN 0 ELSE @])

sentinelReceiveIsMasterDownReply(S, i, vote) ==
    Set(S, i, [S.ri[i] EXCEPT !.md = 0, !.leader = vote[2],
                              !.flags = IF vote[1] THEN @ \cup {"MASTER_DOWN"} ELSE @ \ {"MASTER_DOWN"}])

Replied(S, E, i, cmd, vote) ==
    LET R == Set(S, i, Received(S.ri[i]))
        a == R.ri[i].addr
    IN  CASE cmd[1] = "INFO" -> sentinelRefreshInstanceInfo(R, i, InfoOf(E, a), conf)
          [] cmd[1] = "PING" -> sentinelPingReplyCallback(R, i, a \in Addr /\ E[a].busy)
          [] cmd[1] = "PUBLISH" -> sentinelPublishReplyCallback(R, i)
          [] cmd[1] = "ASK" -> sentinelReceiveIsMasterDownReply(R, i, vote)
          [] OTHER -> R

\* A reply is still waited for on the link to the instance i.
Open(S, i) == i \in DOMAIN S.ri /\ S.ri[i].cc \notin {Nil, <<>>}
Reachable(i) == IF st.ri[i].addr \in Addr THEN inst[st.ri[i].addr].up ELSE TRUE
Waiting(i) == st.ri[i].cc # Nil /\ st.ri[i].cc \o st.ri[i].out # <<>>

Claims(E) == {a \in Addr : E[a].role = "master"} \cup {E[a].of : a \in {b \in Addr : E[b].role = "slave"}}

\* A command reaches the instance i, if it is a Redis server.
Executed(E, i, cmd) == IF st.ri[i].addr \in Addr THEN Commanded(E, st.ri[i].addr, cmd) ELSE E

\* The instance executes what waits on its link, and the replies arrive together.
Answered(i) ==
    /\ i \in DOMAIN st.ri /\ Waiting(i) /\ Reachable(i)
    /\ \E vote \in (IF st.ri[i].type = "sentinel" THEN conf.votes[i] ELSE {Nil}) :
         LET cmds == Written(st).ri[i].cc
             run[n \in 0..Len(cmds)] ==
                 IF n = 0 THEN [E |-> inst, S |-> Written(st), masters |-> masters]
                 ELSE LET A == run[n - 1]
                          E == Executed(A.E, i, cmds[n])
                      IN  IF ~Open(A.S, i) THEN A
                          ELSE [E |-> E, S |-> Replied(A.S, E, i, cmds[n], vote), masters |-> A.masters \cup Claims(E)]
         IN  \E A \in {run[Len(cmds)]} : st' = A.S /\ inst' = A.E /\ masters' = A.masters
    /\ UNCHANGED <<family, ran, left>>

Spend(what) == left[what] > 0 /\ left' = [left EXCEPT ![what] = @ - 1]

\* sentinelDisconnectCallback: the link fails; the first n commands were executed.
Disconnected(i) ==
    /\ i \in DOMAIN st.ri /\ st.ri[i].cc # Nil /\ Spend("disconnect")
    /\ \E n \in 0..Len(st.ri[i].cc) :
         LET r == st.ri[i]
             run[k \in 0..n] == IF k = 0 THEN inst ELSE Executed(run[k - 1], i, r.cc[k])
             E == IF Reachable(i) THEN run[n] ELSE inst
         IN  /\ inst' = E /\ masters' = masters \cup Claims(E)
             /\ st' = Set(st, i, [r EXCEPT !.cc = Nil, !.out = <<>>, !.flags = @ \cup {"DISCONNECTED"},
                                           !.pend = Max({@ - Len(r.cc \o r.out), MinPending})])
    /\ UNCHANGED <<family, ran>>

PubsubDisconnected ==
    /\ M(st).pc /\ Spend("disconnect")
    /\ st' = Set(st, MasterId, KillPubsub(M(st)))
    /\ UNCHANGED <<family, inst, ran, masters>>

removeMatchingSentinelsFromMaster(S, h) == {i \in Of(S, "sentinel") : S.ri[i].runid = h.runid \/ i = h.addr}

\* A hello message of another sentinel, through the master: a sentinel with a known address and
\* run id is refreshed, any other replaces all that have its address or its run id.
sentinelReceiveHelloMessages(h) ==
    LET same == {i \in Of(st, "sentinel") : st.ri[i].runid = h.runid /\ i = h.addr}
        N == Created(Removed(st, removeMatchingSentinelsFromMaster(st, h)), {h.addr}, "sentinel", {})
        S == IF same = {} THEN Set(N, h.addr, [N.ri[h.addr] EXCEPT !.runid = h.runid]) ELSE st
        P == Set(S, MasterId, [M(S) EXCEPT !.pcact = 0])
        Can(f) == IF h.can THEN f \cup {"CAN_FAILOVER"} ELSE f \ {"CAN_FAILOVER"}
    IN  /\ M(st).pc /\ inst[M(st).addr].up
        /\ st' = Set(P, h.addr, [P.ri[h.addr] EXCEPT !.flags = Can(@)])
        /\ st' # st
        /\ UNCHANGED <<family, inst, ran, left, masters>>

----------------------------------------------------------------------------
\* The timer, ten times a second: what it can do in a period is done before the clock moves.
Timed(delay, forked) == sentinelTimer(st, delay, forked, conf)
Timer ==
    /\ \E delay \in T.delays, forked \in conf.forks : st' = Timed(delay, forked) /\ (st' # st \/ ~ran)
    /\ ran' = TRUE
    /\ UNCHANGED <<family, inst, left, masters>>

Age(f, v) == IF v = Never THEN v ELSE Min({v + 1, CapOf[f]})
Sooner(v) == Max({v - 1, 0})
OlderInst(r) ==
    [f \in DOMAIN r |-> CASE f \in DOMAIN CapOf -> Age(f, r[f])
                          [] f = "fstart" -> Sooner(r[f])
                          [] OTHER -> r[f]]
OlderJob(j) ==
    [j EXCEPT !.wait = Sooner(@), !.age = IF j.st = "running" THEN Min({@ + 1, ScriptMaxRuntime + 1}) ELSE @]
Older(S) ==
    [S EXCEPT !.ri = [i \in DOMAIN @ |-> OlderInst(@[i])], !.tiltAge = Age("tilt", @),
              !.scripts = [n \in DOMAIN @ |-> OlderJob(@[n])]]

\* Within a period every server that is up answers, and the replication links come up, unless a
\* dataset is too big for that.
CanReplicate(a) == inst[a].up /\ inst[a].role = "slave" /\ ~inst[a].link /\ inst[a].of # a /\ inst[inst[a].of].up
Settled ==
    /\ \A i \in DOMAIN st.ri : Reachable(i) => ~Waiting(i)
    /\ \A delay \in T.delays, forked \in conf.forks : Timed(delay, forked) = st
    /\ st.wild = {}
    /\ conf.sync => \A a \in Addr : ~CanReplicate(a)

\* Some periods are too short for that.
Tick ==
    /\ ran /\ IF Settled THEN UNCHANGED left ELSE Spend("silence")
    /\ st' = Older(st) /\ ran' = FALSE
    /\ inst' = [a \in Addr |-> [inst[a] EXCEPT !.mdown = IF inst[a].role = "slave" /\ ~inst[a].link
                                                         THEN Min({@ + 1, CapOf.mdown}) ELSE 0]]
    /\ UNCHANGED <<family, masters>>

\* The process was stopped, or the clock set: the next timer notices.
TimeJump == Spend("jump") /\ st' = [st EXCEPT !.late = TRUE] /\ UNCHANGED <<family, inst, ran, masters>>

----------------------------------------------------------------------------
\* The servers.
Crash(a) ==
    /\ a \in conf.weak /\ inst[a].up /\ Spend("crash")
    /\ inst' = Cut([inst EXCEPT ![a].up = FALSE, ![a].busy = FALSE, ![a].link = FALSE, ![a].mdown = 0], a)
    /\ UNCHANGED <<family, st, ran, masters>>

\* It starts as its configuration file says: a master, or a slave of a server.
Reboot(a) ==
    /\ ~inst[a].up /\ Spend("reboot")
    /\ \E of \in {Nil} \cup conf.slaveof[a] :
         inst' = [inst EXCEPT ![a].up = TRUE, ![a].role = IF of = Nil THEN "master" ELSE "slave",
                              ![a].of = of, ![a].boots = @ + 1]
    /\ masters' = masters \cup Claims(inst')
    /\ UNCHANGED <<family, st, ran>>

\* A slow script makes it answer -BUSY.
Script(a) ==
    /\ inst[a].up /\ ~inst[a].busy /\ Spend("busy") /\ inst' = [inst EXCEPT ![a].busy = TRUE]
    /\ UNCHANGED <<family, st, ran, masters>>

Replicate(a) ==
    /\ CanReplicate(a) /\ inst' = [inst EXCEPT ![a].link = TRUE, ![a].mdown = 0]
    /\ UNCHANGED <<family, st, ran, left, masters>>

\* A role command of another sentinel, or of an administrator.
SomebodyCommands(a, cmd) ==
    /\ inst[a].up /\ Spend("somebody") /\ inst' = Commanded(inst, a, cmd) /\ inst' # inst
    /\ masters' = masters \cup Claims(inst')
    /\ UNCHANGED <<family, st, ran>>

\* A command of a link that was closed arrives after all, or does not.
LateCommand(w) ==
    /\ w \in st.wild /\ st' = [st EXCEPT !.wild = @ \ {w}]
    /\ inst' \in {inst, Commanded(inst, w[1], w[2])}
    /\ masters' = masters \cup Claims(inst')
    /\ UNCHANGED <<family, ran, left>>

\* The process of a script ends.
ScriptEnds(n) ==
    /\ st.scripts[n].st = "running"
    /\ \E result \in Results : st' = [st EXCEPT !.scripts[n].st = result]
    /\ UNCHANGED <<family, inst, ran, left, masters>>

----------------------------------------------------------------------------
\* The clients of the sentinel: SENTINEL RESET, SENTINEL FAILOVER.
sentinelResetMastersByPattern ==
    /\ Spend("reset")
    /\ st' = sentinelEvent(sentinelResetMaster(st), "+reset-master", conf)
    /\ UNCHANGED <<family, inst, ran, masters>>

sentinelFailoverCommand ==
    /\ Spend("forced")
    /\ ~Has(M(st), "FAILOVER_IN_PROGRESS") /\ sentinelSelectSlave(st) # Nil
    /\ \E delay \in T.delays :
         LET S == sentinelStartFailover(st, delay, conf)
         IN  st' = [S EXCEPT !.ri[MasterId].flags = @ \cup {"FORCE_FAILOVER"}]
    /\ UNCHANGED <<family, inst, ran, masters>>

Promoted == {"RECONF_SLAVES", "DETECT_END", "UPDATE_CONFIG"}

\* Mutant: the slave is named before it is a master.
PromotedTooEarly(m) == Has(m, "FAILOVER_IN_PROGRESS") /\ m.promoted # Nil

\* The promoted slave is the master as soon as it says so.
PromotedIsMaster(m) == Has(m, "FAILOVER_IN_PROGRESS") /\ m.promoted # Nil /\ m.fstate \in Promoted

\* SENTINEL get-master-addr-by-name; Nil is -IDONTKNOW.
getMasterAddrByName ==
    IF M(st).info = Never THEN Nil ELSE IF PromotedIsMaster(M(st)) THEN M(st).promoted ELSE M(st).addr

\* SENTINEL is-master-down-by-addr: what this sentinel tells the others, <<down, vote>>.
isMasterDownByAddr(a) ==
    LET ours == M(st).addr = a
        leader == IF ours THEN sentinelGetSubjectiveLeader(st) ELSE Nil
    IN  <<~st.tilt /\ ours /\ Has(M(st), "S_DOWN"), IF leader = Nil THEN Unknown ELSE leader>>

RoleCommands == {<<"NOONE">>} \cup {<<"SLAVEOF", a>> : a \in Addr}

Next ==
    \/ Timer
    \/ Tick
    \/ \E i \in DOMAIN st.ri : Answered(i) \/ Disconnected(i)
    \/ PubsubDisconnected
    \/ \E h \in conf.hellos : sentinelReceiveHelloMessages(h)
    \/ TimeJump
    \/ \E a \in Addr : Crash(a) \/ Reboot(a) \/ Script(a) \/ Replicate(a)
    \/ \E a \in Addr, cmd \in RoleCommands : SomebodyCommands(a, cmd)
    \/ \E w \in st.wild : LateCommand(w)
    \/ \E n \in DOMAIN st.scripts : ScriptEnds(n)
    \/ sentinelResetMastersByPattern
    \/ sentinelFailoverCommand

Spec == Init /\ [][Next]_vars

\* Time never stops.  In the end it passes only when the timer has done what it can and the servers
\* have answered and replicate, so that all of these go on too.
FairSpec == Spec /\ []<><<Tick>>_vars

----------------------------------------------------------------------------
States == {"NONE", "WAIT_START", "SELECT_SLAVE", "SEND_SLAVEOF_NOONE", "WAIT_PROMOTION"} \cup Promoted
Slaves == Of(st, "slave")

TypeOK ==
    /\ family \in DOMAIN Conf /\ MasterId \in DOMAIN st.ri
    /\ \A i \in DOMAIN st.ri : LET r == st.ri[i] IN
           /\ r.type = "master" <=> i = MasterId
           /\ r.pend >= MinPending /\ (r.type # "slave" => r.pend <= MaxPending + 1)
           /\ r.cc = Nil => r.out = <<>> /\ Has(r, "DISCONNECTED")
    /\ M(st).fstate \in States \ {"UPDATE_CONFIG"}
    /\ Len(st.scripts) <= ScriptMaxQueue /\ st.running <= ScriptMaxRunning

\* A failover is in progress or none of its marks are left: the promoted slave is one of the
\* slaves and the only one flagged, and no slave is being reconfigured without a promoted slave,
\* whose address the handling of INFO reads (sentinel.c:1609).
FailoverConsistent ==
    LET m == M(st)
        busy == {i \in Slaves : Has(st.ri[i], "RECONF_SENT") \/ Has(st.ri[i], "RECONF_INPROG")}
    IN  /\ Has(m, "FAILOVER_IN_PROGRESS") <=> m.fstate # "NONE"
        /\ Has(m, "I_AM_THE_LEADER") => Has(m, "FAILOVER_IN_PROGRESS")
        /\ {i \in Slaves : Has(st.ri[i], "PROMOTED")} = {m.promoted} \ {Nil}
        /\ m.fstate \in {"SEND_SLAVEOF_NOONE", "WAIT_PROMOTION"} \cup Promoted \/ busy # {} => m.promoted # Nil

\* No sentinel is counted twice: entries have run ids of their own, however the others restart
\* or move.
OneEntryPerSentinel ==
    \A i, j \in Of(st, "sentinel") : i # j => st.ri[i].runid # st.ri[j].runid

\* The table of instances, with the failover it is in.
InstancesAgree == TypeOK /\ FailoverConsistent /\ OneEntryPerSentinel

\* The address clients are given is of a server that is or was a master, or that somebody
\* replicated from: never of a slave about to be promoted.
AddressWasMaster == getMasterAddrByName \in masters \cup {Nil}

\* The master becomes objectively down on answers that are recent.
ODownIsFresh ==
    [][Has(M(st'), "O_DOWN") /\ ~Has(M(st), "O_DOWN") =>
         1 + Cardinality({i \in Of(st', "sentinel") : Has(st'.ri[i], "MASTER_DOWN") /\ st'.ri[i].md <= T.validity})
           >= conf.quorum]_vars

\* While the clock is not to be trusted, which is for a period after it jumped, no server is told
\* to change its role and no sentinel that the master is down.
RolesSent(S, i) ==
    IF i \in DOMAIN S.ri /\ S.ri[i].cc # Nil THEN {c \in Range(S.ri[i].cc \o S.ri[i].out) : c[1] \in Roles} ELSE {}
TiltHolds ==
    [][st'.tiltAge < T.tilt => /\ ~isMasterDownByAddr(M(st).addr)'[1]
                               /\ \A i \in DOMAIN st.ri : RolesSent(st', i) \subseteq RolesSent(st, i)]_vars

\* A failover ends, once the servers that are up answer.
FailoverEnds == Has(M(st), "FAILOVER_IN_PROGRESS") ~> ~Has(M(st), "FAILOVER_IN_PROGRESS")
=============================================================================
