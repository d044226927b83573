---------------------------- MODULE Replication ----------------------------
(* Master and slaves of Redis, replication.c: the handshake, the dump a      *)
(* background save writes for the slaves that wait, the commands kept for    *)
(* them meanwhile and fed to them later, slaves of slaves, SLAVEOF, and what *)
(* failing links, forks and processes do to all that.                        *)
EXTENDS Integers, Sequences, FiniteSets, FiniteSetsExt, Functions

CONSTANTS
    Node,  \* the servers
    Nil,
    Conf,  \* family -> [master: whom each server replicates from, dbs: the databases, moves: who may
           \* be told to replicate from whom, weak: who crashes or loses its link, pings: whether slaves are pinged,
           \* left: what may happen]
    Pool   \* bound: the connections, numbers, that each server may have to its masters at a time
Fault == {"write", "slow", "loading", "fork", "laterfork", "save", "disk", "load", "bgsave", "cut", "crash", "slaveof"}
ASSUME ReplicationAssumption ==
    /\ Nil \notin Node
    /\ Pool \in [Node -> SUBSET (Nat \ {0})]
    /\ \A f \in DOMAIN Conf : /\ Conf[f].master \in [Node -> Node \cup {Nil}]
                             /\ Conf[f].dbs \subseteq Nat
                             /\ Conf[f].left \in [Fault -> Nat]

VARIABLES
    family, \* the family of this behaviour
    node,   \* the servers
    conn,   \* the connections from a slave s to a master m, with the client the master has for it
    writes, \* how many writes there were
    left    \* how often each fault may still happen

Conns == UNION Range(Pool)
vars == <<family, node, conn, writes, left>>
conf == Conf[family]

\* A dataset is the sequence of the writes it holds, each with the database it went to.
NoChild == [st |-> "none", snap |-> <<>>]

\* repl is replstate, sel slaveseldb, buf what waits in the output buffer until the slave is online;
\* out is on its way to the slave, cmds to the master.  up: the wire is not cut.
NoConn == [s |-> Nil, m |-> Nil, sopen |-> FALSE, mopen |-> FALSE, up |-> FALSE, cmds |-> <<>>, out |-> <<>>,
           repl |-> "NONE", sel |-> 0, buf |-> <<>>, file |-> <<>>, sent |-> FALSE]

\* rs is server.repl_state, c the connection to the master, got what was read of the transfer, sel the
\* database the master selected, disk the dump file.
NewNode(data, master) ==
    [up |-> TRUE, data |-> data, disk |-> data, mh |-> master, rs |-> IF master = Nil THEN "NONE" ELSE "CONNECT",
     c |-> 0, got |-> "nothing", sel |-> 0, slaves |-> <<>>, child |-> NoChild]

Init ==
    /\ family \in DOMAIN Conf
    /\ node = [n \in Node |-> NewNode(<<>>, conf.master[n])]
    /\ conn = [k \in Conns |-> NoConn] /\ writes = 0 /\ left = conf.left

Spend(what) == left[what] > 0 /\ left' = [left EXCEPT ![what] = @ - 1]

----------------------------------------------------------------------------
\* Operators over R = [node, conn].
Now == [node |-> node, conn |-> conn]
Becomes(R) == node' = R.node /\ conn' = [k \in Conns |-> IF R.conn[k].sopen \/ R.conn[k].mopen THEN R.conn[k] ELSE NoConn]

\* One side closes; what it had written may still be read by the other.
SlaveCloses(R, n) == [R EXCEPT !.conn[R.node[n].c].sopen = FALSE, !.conn[R.node[n].c].out = <<>>, !.node[n].c = 0]
\* The list without the members of ks.
Without(list, ks) ==
    LET kept[i \in 0..Len(list)] ==
            IF i = 0 THEN <<>> ELSE IF list[i] \in ks THEN kept[i - 1] ELSE Append(kept[i - 1], list[i])
    IN  kept[Len(list)]
\* freeClient of slaves of n.
MasterCloses(R, n, ks) ==
    [R EXCEPT !.conn = [k \in Conns |-> IF k \in ks THEN [R.conn[k] EXCEPT !.mopen = FALSE] ELSE R.conn[k]],
              !.node[n].slaves = Without(@, ks)]

\* Mutant: the slaves stay.
StayConnected(R, n) == R

disconnectSlaves(R, n) == MasterCloses(R, n, Range(R.node[n].slaves))

\* freeClient of server.master: the slaves of this server have to synchronize again, unless it
\* is no slave any more.
freeMaster(R, n) ==
    LET F == [SlaveCloses(R, n) EXCEPT !.node[n].rs = "CONNECT"]
    IN  IF R.node[n].mh # Nil THEN disconnectSlaves(F, n) ELSE F

\* replicationAbortSyncTransfer, undoConnectWithMaster
BackToConnect(R, n) == [SlaveCloses(R, n) EXCEPT !.node[n].rs = "CONNECT"]
Handshake == {"CONNECTING", "RECEIVE_PONG"}

cancelReplicationHandshake(R, n) == IF R.node[n].rs \in Handshake \cup {"TRANSFER"} THEN BackToConnect(R, n) ELSE R

LinkLost(R, n) == IF R.node[n].rs = "CONNECTED" THEN freeMaster(R, n) ELSE BackToConnect(R, n)

\* A reply waits in the buffer as long as the slave is not online; it does not get through a wire that
\* is cut, or to a slave that has closed.
addReply(cl, items) ==
    IF cl.repl \notin {"NONE", "ONLINE"} THEN [cl EXCEPT !.buf = @ \o items]
    ELSE IF cl.up /\ cl.sopen THEN [cl EXCEPT !.out = @ \o items] ELSE cl

Fed(cl, d, w) ==
    IF cl.repl = "WAIT_BGSAVE_START" THEN cl
    ELSE [addReply(cl, IF cl.sel = d THEN <<<<"WRITE", w>>>> ELSE <<<<"SELECT", d>>, <<"WRITE", w>>>>) EXCEPT !.sel = d]

replicationFeedSlaves(R, n, d, w) ==
    [R EXCEPT !.conn = [k \in Conns |-> IF k \in Range(R.node[n].slaves) THEN Fed(R.conn[k], d, w) ELSE R.conn[k]]]

\* A write to the database d of n, which its slaves are fed.
Written(R, n, d, w) ==
    replicationFeedSlaves([R EXCEPT !.node[n].data = Append(@, <<w, d>>)], n, d, w)

rdbSaveBackground(R, n) == [R EXCEPT !.node[n].child = [st |-> "running", snap |-> R.node[n].data]]

----------------------------------------------------------------------------
\* The master.

\* A slave waits for the save under way if another one registers the differences since it
\* began, else for the next one.
Waiting(R, n, st) == {k \in Range(R.node[n].slaves) : R.conn[k].repl = st}
Attached(R, n, k, st) ==
    [R EXCEPT !.conn[k].repl = st, !.conn[k].sel = 0, !.node[n].slaves = Append(@, k)]
Refused(R, k) == [R EXCEPT !.conn[k] = addReply(@, <<<<"ERR">>>>)]

\* Mutant: the differences of the other slave are not copied.
JoinsWithoutBuffer(R, n, k) == Attached(R, n, k, "WAIT_BGSAVE_END")

\* Another slave waits for the save that runs.
Joins(R, n, k) ==
    LET list  == R.node[n].slaves
        other == list[Min({i \in DOMAIN list : list[i] \in Waiting(R, n, "WAIT_BGSAVE_END")})]
    IN  Attached([R EXCEPT !.conn[k].buf = R.conn[other].buf], n, k, "WAIT_BGSAVE_END")

Stale(R, n) == R.node[n].mh # Nil /\ R.node[n].rs # "CONNECTED"

syncCommand(R, n, k, forked) ==
    IF R.conn[k].repl # "NONE" THEN R
    ELSE IF Stale(R, n) THEN Refused(R, k)
    ELSE IF R.node[n].child.st # "none" THEN IF Waiting(R, n, "WAIT_BGSAVE_END") # {} THEN Joins(R, n, k)
                                             ELSE Attached(R, n, k, "WAIT_BGSAVE_START")
    ELSE IF forked THEN Attached(rdbSaveBackground(R, n), n, k, "WAIT_BGSAVE_END") ELSE Refused(R, k)

\* The next command of a connection; a server that loads its dataset answers with an error.
Commanded(k) ==
    LET n == conn[k].m
        R == [Now EXCEPT !.conn[k].cmds = Tail(@)]
    IN  /\ conn[k].mopen /\ conn[k].up /\ conn[k].cmds # <<>>
        /\ CASE Head(conn[k].cmds) = "PING" ->
                    \/ Becomes([R EXCEPT !.conn[k] = addReply(@, <<<<"PONG">>>>)]) /\ UNCHANGED left
                    \/ Becomes(Refused(R, k)) /\ Spend("loading")
             [] Head(conn[k].cmds) = "REPLCONF" ->
                    Becomes([R EXCEPT !.conn[k] = addReply(@, <<<<"OK">>>>)]) /\ UNCHANGED left
             [] Head(conn[k].cmds) = "SYNC" ->
                    \/ Becomes(syncCommand(R, n, k, TRUE)) /\ UNCHANGED left
                    \/ Becomes(syncCommand(R, n, k, FALSE)) /\ node'[n].slaves = node[n].slaves /\ Spend("fork")
        /\ UNCHANGED <<family, writes>>

\* The child ends; a dump it has written replaces the file.
ChildExits(n) ==
    /\ node[n].child.st = "running"
    /\ \/ node' = [node EXCEPT ![n].child.st = "ok", ![n].disk = node[n].child.snap] /\ UNCHANGED left
       \/ node' = [node EXCEPT ![n].child.st = "failed"] /\ Spend("save")
    /\ UNCHANGED <<family, conn, writes>>

\* What the end of a save means for one slave; disk is the dump, if there is one.
SaveEnded(cl, ok, disk) ==
    CASE cl.repl = "WAIT_BGSAVE_START" -> [cl EXCEPT !.repl = "WAIT_BGSAVE_END"]
      [] cl.repl = "WAIT_BGSAVE_END" /\ ok -> [cl EXCEPT !.repl = "SEND_BULK", !.file = disk, !.sent = FALSE]
      [] OTHER -> cl

\* Every slave is told; those that waited for a save that failed are closed.
SlavesTold(R, n, ok) ==
    LET E == [R EXCEPT !.conn = [k \in Conns |-> IF k \in Range(R.node[n].slaves)
                                                 THEN SaveEnded(R.conn[k], ok, R.node[n].disk) ELSE R.conn[k]]]
    IN  IF ok THEN E ELSE MasterCloses(E, n, Waiting(R, n, "WAIT_BGSAVE_END"))

\* Mutant: the next save is not begun.
SlavesToldOnly(R, n, ok, forked) == SlavesTold(R, n, ok)

\* Those that wait for a save to begin get one; if the fork fails none of them is closed, because
\* their state has changed already.
updateSlavesWaitingBgsave(R, n, ok, forked) ==
    LET E == SlavesTold(R, n, ok)
    IN  IF Waiting(R, n, "WAIT_BGSAVE_START") = {} THEN E
        ELSE IF forked THEN rdbSaveBackground(E, n)
        ELSE MasterCloses(E, n, Waiting(E, n, "WAIT_BGSAVE_START"))

backgroundSaveDoneHandler(n) ==
    LET ok == node[n].child.st = "ok"
        R == [Now EXCEPT !.node[n].child = NoChild]
    IN  /\ node[n].child.st \in {"ok", "failed"}
        /\ \/ Becomes(updateSlavesWaitingBgsave(R, n, ok, TRUE)) /\ UNCHANGED left
           \/ /\ Waiting(R, n, "WAIT_BGSAVE_START") # {} /\ Spend("laterfork")
              /\ Becomes(updateSlavesWaitingBgsave(R, n, ok, FALSE))
        /\ UNCHANGED <<family, writes>>

\* A client or the save points ask for a dump.
bgsaveCommand(n) ==
    /\ node[n].up /\ node[n].child.st = "none" /\ Spend("bgsave")
    /\ Becomes(rdbSaveBackground(Now, n))
    /\ UNCHANGED <<family, writes>>

\* The dump in two pieces, the first with its length; then the slave is online, and its buffer goes out.
sendBulkToSlave(k) ==
    LET cl == conn[k] IN
    /\ cl.mopen /\ cl.up /\ cl.repl = "SEND_BULK"
    /\ Becomes([Now EXCEPT !.conn[k] =
                  IF ~cl.sent THEN [cl EXCEPT !.out = @ \o <<<<"SIZE">>, <<"PART">>>>, !.sent = TRUE]
                  ELSE [cl EXCEPT !.out = Append(@, <<"LAST", cl.file>>) \o cl.buf, !.buf = <<>>, !.repl = "ONLINE", !.file = <<>>]])
    /\ UNCHANGED <<family, writes, left>>

\* The master notices that the link is gone.
ClientLost(k) ==
    /\ conn[k].mopen /\ (~conn[k].sopen \/ ~conn[k].up)
    /\ Becomes(MasterCloses(Now, conn[k].m, {k}))
    /\ UNCHANGED <<family, writes, left>>

\* A client writes; slaves are read only.
Write(n, d) ==
    /\ node[n].up /\ node[n].mh = Nil /\ Spend("write")
    /\ writes' = writes + 1
    /\ Becomes(Written(Now, n, d, writes + 1))
    /\ UNCHANGED family

----------------------------------------------------------------------------
\* The slave.

FreeConns(R, n) == {k \in Pool[n] : ~R.conn[k].sopen /\ ~R.conn[k].mopen}
connectWithMaster(R, n) ==
    LET k == Min(FreeConns(R, n))
        m == R.node[n].mh
    IN  [R EXCEPT !.node[n].c = k, !.node[n].rs = "CONNECTING",
                  !.conn[k] = [NoConn EXCEPT !.s = n, !.m = m, !.sopen = TRUE, !.mopen = R.node[m].up, !.up = TRUE]]

\* Mutant: a transfer has all the time it needs.
TransferForever(rs) == rs \in Handshake \cup {"CONNECTED"}

\* The states in which silence is limited.
Limited(rs) == rs \in Handshake \cup {"TRANSFER", "CONNECTED"}

Silent(n) == node[n].c # 0 /\ conn[node[n].c].out = <<>>
CutOff(n) == node[n].c # 0 /\ ~conn[node[n].c].up

\* Those in the middle of a transfer are left alone, those before it get a newline.  At most one
\* ping waits on a link (a bound).
Pinged(cl) ==
    LET ping == IF cl.repl = "ONLINE" THEN <<"PING">> ELSE <<"NL">>
    IN  IF cl.repl = "SEND_BULK" \/ ~cl.up \/ ~cl.sopen \/ ping \in Range(cl.out) THEN cl ELSE [cl EXCEPT !.out = Append(@, ping)]

\* A silent link is given up, a missing one opened, the slaves are pinged now and then.
replicationCron(n, late, ping) ==
    /\ node[n].up
    /\ LET T == IF late THEN LinkLost(Now, n) ELSE Now
           C == IF T.node[n].rs = "CONNECT" /\ FreeConns(T, n) # {} THEN connectWithMaster(T, n) ELSE T
           P == IF ping THEN [C EXCEPT !.conn = [k \in Conns |-> IF k \in Range(C.node[n].slaves) THEN Pinged(C.conn[k])
                                                                 ELSE C.conn[k]]] ELSE C
       IN  /\ ping => conf.pings
           /\ late => Limited(node[n].rs) /\ Silent(n)
           /\ IF late /\ ~CutOff(n) THEN Spend("slow") ELSE UNCHANGED left
           /\ P # Now /\ Becomes(P)
    /\ UNCHANGED <<family, writes>>

Next1(k) == Head(conn[k].out)
Readable(n) == node[n].up /\ node[n].c # 0 /\ conn[node[n].c].out # <<>>
Eof(n) == node[n].up /\ Silent(n) /\ conn[node[n].c].up /\ ~conn[node[n].c].mopen
Consumed(n) == [Now EXCEPT !.conn[node[n].c].out = Tail(@)]
Sends(R, n, cmds) == IF R.conn[node[n].c].up THEN [R EXCEPT !.conn[node[n].c].cmds = @ \o cmds] ELSE R

\* The connection is there: PING.
syncConnected(n) ==
    /\ node[n].up /\ node[n].rs = "CONNECTING"
    /\ IF Eof(n) THEN Becomes(BackToConnect(Now, n))
       ELSE Becomes([Sends(Now, n, <<"PING">>) EXCEPT !.node[n].rs = "RECEIVE_PONG"])
    /\ UNCHANGED <<family, writes, left>>

\* The answer to PING: REPLCONF, whose answer is waited for but does not matter, and SYNC, unless
\* something fails.
syncWithMaster(n) ==
    /\ node[n].rs = "RECEIVE_PONG" /\ Readable(n)
    /\ LET R == Consumed(n)
           T == [R EXCEPT !.node[n].rs = "TRANSFER", !.node[n].got = "nothing"]
       IN  IF Next1(node[n].c) = <<"ERR">> THEN Becomes(BackToConnect(R, n)) /\ UNCHANGED left
           ELSE \/ Becomes(Sends(T, n, <<"SYNC">>)) /\ UNCHANGED left
                \/ Becomes(Sends(T, n, <<"REPLCONF", "SYNC">>)) /\ Spend("slow")
                \/ Becomes(BackToConnect(Sends(R, n, <<"SYNC">>), n)) /\ Spend("disk")
    /\ UNCHANGED <<family, writes>>

\* The dump replaces the dataset, and the connection becomes that of the master.
Loaded(R, n, file) ==
    [R EXCEPT !.node[n].data = file, !.node[n].rs = "CONNECTED", !.node[n].sel = 0]

readSyncBulkPayload(n) ==
    /\ node[n].rs = "TRANSFER" /\ Readable(n)
    /\ LET R == Consumed(n)
           item == Next1(node[n].c)
           Failed == Becomes(BackToConnect(R, n))
       IN  CASE node[n].got = "nothing" -> Becomes(IF item[1] = "NL" THEN R ELSE IF item[1] = "SIZE"
                                                   THEN [R EXCEPT !.node[n].got = "size"] ELSE BackToConnect(R, n)) /\ UNCHANGED left
             [] node[n].got # "nothing" /\ item[1] = "LAST" ->
                    \/ Becomes(Loaded([R EXCEPT !.node[n].disk = item[2]], n, item[2])) /\ UNCHANGED left
                    \/ Becomes(BackToConnect([R EXCEPT !.node[n].disk = item[2], !.node[n].data = <<>>], n)) /\ Spend("load")
                    \/ Failed /\ Spend("disk")
             [] OTHER -> \/ Becomes([R EXCEPT !.node[n].got = "part"]) /\ UNCHANGED left
                         \/ Failed /\ Spend("disk")
    /\ UNCHANGED <<family, writes>>

\* What a connected master sends is executed, and fed to the slaves of the slave.
masterCommand(n) ==
    /\ node[n].rs = "CONNECTED" /\ Readable(n)
    /\ LET item == Next1(node[n].c)
           R == Consumed(n)
       IN  Becomes(CASE item[1] = "SELECT" -> [R EXCEPT !.node[n].sel = item[2]]
                     [] item[1] = "WRITE" -> Written(R, n, node[n].sel, item[2])
                     [] OTHER -> R)
    /\ UNCHANGED <<family, writes, left>>

\* The master has closed the connection.
MasterGone(n) ==
    /\ Eof(n) /\ node[n].rs # "CONNECTING" /\ Becomes(LinkLost(Now, n))
    /\ UNCHANGED <<family, writes, left>>

\* SLAVEOF NO ONE keeps the slaves; SLAVEOF makes all of them synchronize again.
slaveofCommand(n, m) ==
    /\ <<n, m>> \in conf.moves /\ node[n].up /\ m # node[n].mh /\ Spend("slaveof")
    /\ LET H == [Now EXCEPT !.node[n].mh = m]
           F == IF node[n].rs = "CONNECTED" THEN freeMaster(H, n) ELSE H
           D == IF m = Nil THEN F ELSE disconnectSlaves(F, n)
       IN  Becomes([cancelReplicationHandshake(D, n) EXCEPT !.node[n].rs = IF m = Nil THEN "NONE" ELSE "CONNECT"])
    /\ UNCHANGED <<family, writes>>

----------------------------------------------------------------------------
\* The world.

\* The wire is cut: some of what is on its way arrives, and nobody is told.
Cut(k) ==
    /\ conn[k].s \in conf.weak /\ conn[k].up /\ Spend("cut")
    /\ \E i \in 0..Len(conn[k].out) :
         conn' = [conn EXCEPT ![k].up = FALSE, ![k].out = SubSeq(@, 1, i), ![k].cmds = <<>>]
    /\ UNCHANGED <<family, node, writes>>

Crash(n) ==
    /\ n \in conf.weak /\ node[n].up /\ Spend("crash")
    /\ LET S == IF node[n].c = 0 THEN Now ELSE SlaveCloses(Now, n)
           R == [S EXCEPT !.conn = [k \in Conns |-> IF @[k].m = n THEN [@[k] EXCEPT !.mopen = FALSE] ELSE @[k]]]
       IN  Becomes([R EXCEPT !.node[n] = [NewNode(<<>>, Nil) EXCEPT !.up = FALSE, !.disk = node[n].disk]])
    /\ UNCHANGED <<family, writes>>

\* With its dump, and as its configuration file says.
Restart(n) ==
    /\ ~node[n].up
    /\ node' = [node EXCEPT ![n] = NewNode(node[n].disk, conf.master[n])]
    /\ UNCHANGED <<family, conn, writes, left>>

\* The event of the link of n to its master.
LinkEvent(n) == syncConnected(n) \/ syncWithMaster(n) \/ readSyncBulkPayload(n) \/ masterCommand(n) \/ MasterGone(n)
Saves(n) == ChildExits(n) \/ backgroundSaveDoneHandler(n)
Serves(k) == Commanded(k) \/ sendBulkToSlave(k) \/ ClientLost(k)

Next ==
    \/ \E n \in Node : LinkEvent(n) \/ Saves(n) \/ bgsaveCommand(n) \/ Crash(n) \/ Restart(n)
    \/ \E n \in Node, late, ping \in BOOLEAN : replicationCron(n, late, ping)
    \/ \E k \in Conns : Serves(k) \/ Cut(k)
    \/ \E n \in Node, d \in conf.dbs : Write(n, d)
    \/ \E n \in Node, m \in Node \cup {Nil} : slaveofCommand(n, m)

Spec == Init /\ [][Next]_vars

\* Processes run, their timers fire and what is sent is delivered or lost.
FairSpec ==
    /\ Spec
    /\ \A n \in Node : /\ WF_vars(LinkEvent(n)) /\ WF_vars(Saves(n)) /\ WF_vars(Restart(n))
                       /\ WF_vars(replicationCron(n, FALSE, FALSE))
                       /\ WF_vars(CutOff(n) /\ replicationCron(n, TRUE, FALSE))
    /\ \A k \in Conns : WF_vars(Serves(k))

----------------------------------------------------------------------------
TypeOK ==
    /\ \A n \in Node : LET N == node[n] IN
           /\ N.up => (N.rs = "NONE" <=> N.mh = Nil)
           /\ N.c # 0 <=> N.rs \in Handshake \cup {"TRANSFER", "CONNECTED"}
           /\ N.c # 0 => conn[N.c].sopen /\ conn[N.c].s = n /\ conn[N.c].m = N.mh
           /\ \A k \in Range(N.slaves) : conn[k].mopen /\ conn[k].m = n /\ conn[k].repl # "NONE"
    /\ \A k \in Conns : conn[k].mopen /\ conn[k].repl # "NONE" => k \in Range(node[conn[k].m].slaves)

\* What one item, and what the items of a stream make of a dataset and the selected database.
ExecutedOne(A, item) ==
    CASE item[1] = "SELECT" -> [data |-> A.data, d |-> item[2]]
      [] item[1] = "WRITE"  -> [data |-> Append(A.data, <<item[2], A.d>>), d |-> A.d]
      [] item[1] = "LAST"   -> [data |-> item[2], d |-> 0]
      [] OTHER -> A
Executed(data, d, items) ==
    LET run[i \in 0..Len(items)] ==
            IF i = 0 THEN [data |-> data, d |-> d] ELSE ExecutedOne(run[i - 1], items[i])
    IN  run[Len(items)].data

\* Whatever a slave waits for, its dump and what is kept for it give the dataset of its master
\* (syncCommand's "differences between the BGSAVE and the current dataset"), and so does what an
\* online slave holds with what is on its way to it.
StreamCompletes ==
    \A k \in Conns : conn[k].mopen =>
        LET cl == conn[k]
            master == node[cl.m]
        IN  CASE cl.repl = "WAIT_BGSAVE_END" -> master.child.st \in {"running", "ok"}
                                                => Executed(master.child.snap, 0, cl.buf) = master.data
              [] cl.repl = "SEND_BULK" -> Executed(cl.file, 0, cl.buf) = master.data
              [] cl.repl = "ONLINE" /\ cl.up /\ cl.sopen ->
                     Executed(node[cl.s].data, node[cl.s].sel, cl.out) = master.data
              [] OTHER -> TRUE

\* A slave that waits for a dump waits for one that is being written.
WaitsForAChild ==
    \A k \in Conns : conn[k].mopen /\ conn[k].repl \in {"WAIT_BGSAVE_START", "WAIT_BGSAVE_END"}
                    => node[conn[k].m].child.st # "none"

\* A server feeds slaves only while its own dataset is one its slaves have been fed: a
\* master, or a slave that is connected to its master.
FedWhileCurrent == TypeOK /\ \A n \in Node : node[n].slaves # <<>> => ~Stale(Now, n)

\* When nothing goes wrong any more, every slave comes to hold the dataset of its master; unless
\* servers were made slaves of each other.
Rooted(n) ==
    LET up[i \in 0..Cardinality(Node)] == IF i = 0 THEN n ELSE IF up[i - 1] = Nil THEN Nil ELSE node[up[i - 1]].mh
    IN  up[Cardinality(Node)] = Nil
UpToDate(n) == node[n].mh # Nil => node[n].rs = "CONNECTED" /\ node[n].data = node[node[n].mh].data
Converges == <>[](\A n \in Node : Rooted(n) => UpToDate(n))
=============================================================================
