------------------------- MODULE Replication_proofs -------------------------
(***************************************************************************)
(* Theorems about Replication.                                             *)
(*                                                                         *)
(* The operators of the model take a system R = [node, conn] and give      *)
(* another, and most actions apply several of them.  So the invariant is   *)
(* stated of any R (Typed, Linked, Waits, Complete), and what an operator  *)
(* does to R is stated as a relation (SameLinks, Leaves, Closes, Attaches, *)
(* Connects, Crashes, Forgets; Own, Reads, Writes, Quietly, Told, Joined). *)
(* A lemma ...Effect shows that an operator does this, a lemma ...Sound    *)
(* that a relation or an action keeps what both ends know of each other,   *)
(* a lemma ...Complete that it keeps the streams complete.                 *)
(***************************************************************************)
EXTENDS Replication, SumTheorems, SequenceTheorems
----------------------------------------------------------------------------
\* Types.  Every operator of the model takes and gives a system: its servers and connections.
Db == {0} \cup UNION {Conf[f].dbs : f \in DOMAIN Conf}
Data == Seq(Nat \X Db)
Silence == {"PONG", "ERR", "OK", "NL", "PING", "SIZE", "PART"}
Item == {<<x>> : x \in Silence} \cup ({"WRITE"} \X Nat) \cup ({"SELECT"} \X Db) \cup ({"LAST"} \X Data)
Child == [st : {"none", "running", "ok", "failed"}, snap : Data]
Server ==
    [up : BOOLEAN, data : Data, disk : Data, mh : Node \cup {Nil},
     rs : {"NONE", "CONNECT", "CONNECTING", "RECEIVE_PONG", "TRANSFER", "CONNECTED"}, c : Conns \cup {0},
     got : {"nothing", "size", "part"}, sel : Db, slaves : Seq(Conns), child : Child]
Link ==
    [s : Node \cup {Nil}, m : Node \cup {Nil}, sopen : BOOLEAN, mopen : BOOLEAN, up : BOOLEAN,
     cmds : Seq({"PING", "REPLCONF", "SYNC"}), out : Seq(Item),
     repl : {"NONE", "WAIT_BGSAVE_START", "WAIT_BGSAVE_END", "SEND_BULK", "ONLINE"}, sel : Db, buf : Seq(Item),
     file : Data, sent : BOOLEAN]
Typed(R) ==
    DOMAIN R = {"node", "conn"} /\ R.node \in [Node -> Server] /\ R.conn \in [Conns -> Link]

\* What a server does about its master, and the connection it has for it.
Modes(R) ==
    \A n \in Node :
        /\ R.node[n].up => (R.node[n].rs = "NONE" <=> R.node[n].mh = Nil)
        /\ ~R.node[n].up => R.node[n].rs = "NONE" /\ R.node[n].slaves = <<>> /\ R.node[n].child.st = "none"
        /\ R.node[n].c # 0 <=> R.node[n].rs \in Handshake \cup {"TRANSFER", "CONNECTED"}
MasterKnown(R) ==
    \A n \in Node :
        R.node[n].c # 0 => /\ R.conn[R.node[n].c].sopen
                           /\ R.conn[R.node[n].c].s = n /\ R.conn[R.node[n].c].m = R.node[n].mh
\* The connections a server takes for slaves are theirs.
SlavesKnown(R) ==
    \A n \in Node : \A k \in Range(R.node[n].slaves) :
        k \in Conns /\ R.conn[k].mopen /\ R.conn[k].m = n /\ R.conn[k].repl # "NONE"
\* Who waits for a dataset has no slaves.
Current(R) == \A n \in Node : R.node[n].slaves # <<>> => ~Stale(R, n)
\* Whoever has a connection open is up and knows it.
Ends(R) ==
    \A k \in Conns :
        /\ R.conn[k].sopen => R.conn[k].s \in Node /\ R.node[R.conn[k].s].c = k
        /\ R.conn[k].mopen => R.conn[k].m \in Node /\ R.node[R.conn[k].m].up
        /\ R.conn[k].mopen /\ R.conn[k].repl # "NONE" => k \in Range(R.node[R.conn[k].m].slaves)
Linked(R) == Modes(R) /\ MasterKnown(R) /\ SlavesKnown(R) /\ Current(R) /\ Ends(R)

Waits(R) ==
    \A k \in Conns : R.conn[k].mopen /\ R.conn[k].repl \in {"WAIT_BGSAVE_START", "WAIT_BGSAVE_END"}
                    => R.node[R.conn[k].m].child.st # "none"

\* What does not touch a dataset, and what comes after a dump.
Neutral(items) == \A i \in DOMAIN items : items[i][1] \in Silence
NoLast(items) == \A i \in DOMAIN items : items[i][1] # "LAST"
OneLast(items) ==
    \E i \in DOMAIN items : /\ items[i][1] = "LAST"
                            /\ \A j \in DOMAIN items : j < i => items[j][1] \in Silence
                            /\ \A j \in DOMAIN items : i < j => items[j][1] # "LAST"

\* The master's side of a connection: what waits for the slave.
Buffered(R, k) ==
    LET cl == R.conn[k]
        master == R.node[cl.m]
    IN  /\ cl.repl \in {"NONE", "WAIT_BGSAVE_START"} => Neutral(cl.buf)
        /\ NoLast(cl.buf)
        /\ cl.repl = "WAIT_BGSAVE_END" /\ master.child.st \in {"running", "ok"}
           => Executed(master.child.snap, 0, cl.buf) = master.data
        /\ cl.repl = "WAIT_BGSAVE_END" /\ master.child.st = "ok" => master.disk = master.child.snap
        /\ cl.repl = "SEND_BULK" => Executed(cl.file, 0, cl.buf) = master.data
\* What is on its way, and the slave.
Streams(R, k) ==
    LET cl == R.conn[k]
        slave == R.node[cl.s]
    IN  /\ cl.repl # "ONLINE" => Neutral(cl.out) /\ slave.rs # "CONNECTED"
        /\ slave.rs \in Handshake => cl.repl = "NONE" /\ "SYNC" \notin Range(cl.cmds)
        /\ cl.repl = "ONLINE" /\ slave.rs = "TRANSFER" => OneLast(cl.out)
        /\ cl.repl = "ONLINE" /\ slave.rs = "CONNECTED" => NoLast(cl.out)
        /\ cl.repl = "ONLINE" => Executed(slave.data, 0, cl.out) = R.node[cl.m].data
        /\ cl.repl # "NONE" => cl.s # cl.m
CompleteAt(R, k) == R.conn[k].mopen => /\ Buffered(R, k)
                                       /\ R.conn[k].up /\ R.conn[k].sopen => Streams(R, k)
Complete(R) == \A k \in Conns : CompleteAt(R, k)

----------------------------------------------------------------------------
\* What the operators of the model do to a system R, the result is Q.

Busy == Handshake \cup {"TRANSFER"}
Waiters == {"WAIT_BGSAVE_START", "WAIT_BGSAVE_END"}

\* Nobody opens or closes anything.
SameLinks(R, Q) ==
    /\ \A n \in Node :
        /\ Q.node[n].up = R.node[n].up /\ Q.node[n].mh = R.node[n].mh /\ Q.node[n].c = R.node[n].c
        /\ Q.node[n].slaves = R.node[n].slaves
        /\ Q.node[n].rs = R.node[n].rs \/ (R.node[n].rs \in Busy /\ Q.node[n].rs \in Busy \cup {"CONNECTED"})
        /\ ~R.node[n].up => Q.node[n].child.st = R.node[n].child.st
    /\ \A k \in Conns :
        /\ Q.conn[k].s = R.conn[k].s /\ Q.conn[k].m = R.conn[k].m
        /\ Q.conn[k].sopen = R.conn[k].sopen /\ Q.conn[k].mopen = R.conn[k].mopen
        /\ Q.conn[k].repl = "NONE" <=> R.conn[k].repl = "NONE"
SameWaits(R, Q) ==
    /\ \A n \in Node : R.node[n].child.st # "none" => Q.node[n].child.st # "none"
    /\ \A k \in Conns : Q.conn[k].repl \in Waiters => R.conn[k].repl \in Waiters

\* Server n leaves its master, and drops its slaves or not.
Leaves(R, Q, n, drop) ==
    /\ \A p \in Node : p # n => Q.node[p] = R.node[p]
    /\ Q.node[n].up = R.node[n].up /\ Q.node[n].child = R.node[n].child
    /\ Q.node[n].c = 0
    /\ Q.node[n].slaves = (IF drop THEN <<>> ELSE R.node[n].slaves)
    /\ Q.node[n].slaves # <<>> => Q.node[n].data = R.node[n].data /\ Q.node[n].disk = R.node[n].disk
    /\ \A k \in Conns :
        /\ Q.conn[k].s = R.conn[k].s /\ Q.conn[k].m = R.conn[k].m
        /\ Q.conn[k].sopen <=> R.conn[k].sopen /\ k # R.node[n].c
        /\ Q.conn[k].mopen <=> R.conn[k].mopen /\ ~(drop /\ k \in Range(R.node[n].slaves))
        /\ Q.conn[k].up = R.conn[k].up /\ Q.conn[k].repl = R.conn[k].repl
        /\ Q.conn[k].buf = R.conn[k].buf /\ Q.conn[k].file = R.conn[k].file
        /\ k # R.node[n].c => Q.conn[k].out = R.conn[k].out /\ Q.conn[k].cmds = R.conn[k].cmds

\* Server n closes the connections ks.
Closes(R, Q, n, ks) ==
    /\ \A p \in Node :
        /\ Q.node[p].up = R.node[p].up /\ Q.node[p].child = R.node[p].child
        /\ Q.node[p].mh = R.node[p].mh /\ Q.node[p].c = R.node[p].c /\ Q.node[p].rs = R.node[p].rs
        /\ Q.node[p].data = R.node[p].data /\ Q.node[p].disk = R.node[p].disk
        /\ p # n \/ R.node[p].slaves = <<>> => Q.node[p].slaves = R.node[p].slaves
        /\ p # n => Q.node[p] = R.node[p]
    /\ Range(Q.node[n].slaves) = Range(R.node[n].slaves) \ ks
    /\ \A k \in Conns :
        /\ Q.conn[k].s = R.conn[k].s /\ Q.conn[k].m = R.conn[k].m
        /\ Q.conn[k].sopen = R.conn[k].sopen /\ (Q.conn[k].mopen <=> R.conn[k].mopen /\ k \notin ks)
        /\ Q.conn[k].up = R.conn[k].up /\ Q.conn[k].repl = R.conn[k].repl
        /\ Q.conn[k].buf = R.conn[k].buf /\ Q.conn[k].file = R.conn[k].file /\ Q.conn[k].cmds = R.conn[k].cmds
        /\ Q.conn[k].out = R.conn[k].out

\* Server n takes the connection k for a slave that waits.
Attaches(R, Q, n, k) ==
    /\ \A p \in Node :
        /\ Q.node[p].up = R.node[p].up /\ Q.node[p].mh = R.node[p].mh /\ Q.node[p].c = R.node[p].c
        /\ Q.node[p].rs = R.node[p].rs
        /\ p # n => Q.node[p].slaves = R.node[p].slaves /\ Q.node[p].child = R.node[p].child
    /\ Range(Q.node[n].slaves) = Range(R.node[n].slaves) \cup {k}
    /\ Q.node[n].child.st # "none"
    /\ \A j \in Conns :
        /\ Q.conn[j].s = R.conn[j].s /\ Q.conn[j].m = R.conn[j].m
        /\ Q.conn[j].sopen = R.conn[j].sopen /\ Q.conn[j].mopen = R.conn[j].mopen
        /\ j # k => Q.conn[j].repl = R.conn[j].repl
    /\ Q.conn[k].repl \in Waiters

\* Server n opens the connection k to its master.
Connects(R, Q, n, k) ==
    /\ \A p \in Node : p # n => Q.node[p] = R.node[p]
    /\ Q.node[n].up = R.node[n].up /\ Q.node[n].mh = R.node[n].mh /\ Q.node[n].slaves = R.node[n].slaves
    /\ Q.node[n].child = R.node[n].child /\ Q.node[n].data = R.node[n].data /\ Q.node[n].disk = R.node[n].disk
    /\ Q.node[n].c = k /\ Q.node[n].rs = "CONNECTING"
    /\ \A j \in Conns : j # k => Q.conn[j] = R.conn[j]
    /\ Q.conn[k].s = n /\ Q.conn[k].m = R.node[n].mh /\ Q.conn[k].repl = "NONE"
    /\ Q.conn[k].sopen /\ Q.conn[k].mopen = R.node[R.node[n].mh].up
    /\ Q.conn[k].out = <<>> /\ Q.conn[k].buf = <<>> /\ Q.conn[k].cmds = <<>>

\* Server n dies.
Crashes(R, Q, n) ==
    /\ \A p \in Node : p # n => Q.node[p] = R.node[p]
    /\ ~Q.node[n].up /\ Q.node[n].mh = Nil /\ Q.node[n].c = 0 /\ Q.node[n].rs = "NONE"
    /\ Q.node[n].slaves = <<>> /\ Q.node[n].child.st = "none"
    /\ \A k \in Conns :
        /\ Q.conn[k].s = R.conn[k].s /\ Q.conn[k].m = R.conn[k].m
        /\ Q.conn[k].sopen <=> R.conn[k].sopen /\ k # R.node[n].c
        /\ Q.conn[k].mopen <=> R.conn[k].mopen /\ R.conn[k].m # n
        /\ Q.conn[k].up = R.conn[k].up /\ Q.conn[k].repl = R.conn[k].repl
        /\ Q.conn[k].buf = R.conn[k].buf /\ Q.conn[k].file = R.conn[k].file /\ Q.conn[k].cmds = R.conn[k].cmds
        /\ k # R.node[n].c => Q.conn[k].out = R.conn[k].out

\* Connections that nobody has open any more are forgotten.
Forgets(R, Q) ==
    /\ Q.node = R.node
    /\ \A k \in Conns : IF R.conn[k].sopen \/ R.conn[k].mopen THEN Q.conn[k] = R.conn[k]
                        ELSE ~Q.conn[k].sopen /\ ~Q.conn[k].mopen

\* What every state of every system satisfies.
Sound == Typed(Now) /\ Linked(Now)

----------------------------------------------------------------------------
\* Lists and functions.

LEMMA EmptyLists ==
  /\ <<>> \in Seq(Item) /\ <<>> \in Seq(Conns) /\ <<>> \in Data
  /\ <<>> \in Seq({"PING", "REPLCONF", "SYNC"})
  /\ NoChild \in Child /\ 0 \in Db
BY DEF NoChild, Child, Data, Db

\* A recursive function along a list whose steps stay in V exists, and stays in V.
IsRun(r, V, n, b, F) == r \in [0..n -> V] /\ \A i \in 0..n : r[i] = IF i = 0 THEN b ELSE F[i][r[i - 1]]
LEMMA RunExists ==
  ASSUME NEW V, NEW n \in Nat, NEW b \in V, NEW F \in [1..n -> [V -> V]]
  PROVE  \E r : IsRun(r, V, n, b, F)
<1> DEFINE Upto(r, m) == r \in [0..m -> V] /\ \A i \in 0..m : r[i] = IF i = 0 THEN b ELSE F[i][r[i - 1]]
           P == {m \in Nat : m <= n => \E r : Upto(r, m)}
<1>1. 0 \in P
  <2>1. Upto([i \in 0..0 |-> b], 0)
    OBVIOUS
  <2> QED
    BY <2>1
<1>2. ASSUME NEW m \in Nat, m \in P PROVE m + 1 \in P
  <2> SUFFICES ASSUME m + 1 <= n PROVE \E r : Upto(r, m + 1)
    OBVIOUS
  <2>1. PICK r : Upto(r, m)
    BY <1>2
  <2> DEFINE q == [i \in 0..m + 1 |-> IF i = 0 THEN b ELSE F[i][r[i - 1]]]
  <2>2. \A i \in 0..m : q[i] = r[i]
    BY <2>1
  <2>3. \A i \in 1..m + 1 : F[i] \in [V -> V] /\ r[i - 1] \in V
    BY <2>1
  <2>4. q \in [0..m + 1 -> V]
    BY <2>3
  <2>5. ASSUME NEW i \in 0..m + 1 PROVE q[i] = IF i = 0 THEN b ELSE F[i][q[i - 1]]
    <3>1. CASE i = 0
      BY <3>1
    <3>2. CASE i # 0
      <4>1. i - 1 \in 0..m /\ q[i] = F[i][r[i - 1]]
        BY <3>2
      <4>2. q[i - 1] = r[i - 1]
        BY <4>1, <2>2
      <4> HIDE DEF q
      <4> QED
        BY <3>2, <4>1, <4>2
    <3> QED
      BY <3>1, <3>2
  <2>6. Upto(q, m + 1)
    BY <2>4, <2>5
  <2> QED
    BY <2>6
<1> HIDE DEF P, Upto
<1>3. Nat \subseteq P
  BY <1>1, <1>2, NatSetInduction
<1>4. \E r : Upto(r, n)
  BY <1>3 DEF P
<1> QED
  BY <1>4 DEF Upto, IsRun

LEMMA AppendRange ==
  ASSUME NEW S, NEW t \in Seq(S), NEW x \in S
  PROVE  Range(Append(t, x)) = Range(t) \cup {x}
<1> DEFINE u == Append(t, x)
<1>1. Len(t) \in Nat /\ DOMAIN t = 1..Len(t) /\ DOMAIN u = 1..Len(t) + 1
  OBVIOUS
<1>2. u[Len(t) + 1] = x /\ \A i \in 1..Len(t) : u[i] = t[i]
  OBVIOUS
<1> HIDE DEF u
<1>3. Range(u) \subseteq Range(t) \cup {x}
  BY <1>1, <1>2 DEF Range
<1>4. Range(t) \cup {x} \subseteq Range(u)
  BY <1>1, <1>2 DEF Range
<1> QED
  BY <1>3, <1>4 DEF u

\* The list that is left has the members that are left, and is empty if none is.
LEMMA WithoutMembers ==
  ASSUME NEW S, NEW list \in Seq(S), NEW ks
  PROVE  /\ Without(list, ks) \in Seq(S)
         /\ Range(Without(list, ks)) = Range(list) \ ks
<1> DEFINE n == Len(list)
           step(i, t) == IF list[i] \in ks THEN t ELSE Append(t, list[i])
           F == [i \in 1..n |-> [t \in Seq(S) |-> step(i, t)]]
           body(r) == [i \in 0..n |-> IF i = 0 THEN <<>> ELSE step(i, r[i - 1])]
           kept == CHOOSE r : r = body(r)
<1>1. n \in Nat /\ <<>> \in Seq(S) /\ \A i \in 1..n : list[i] \in S
  OBVIOUS
<1>2. F \in [1..n -> [Seq(S) -> Seq(S)]]
  BY <1>1
<1>3. \A i \in 1..n, t \in Seq(S) : F[i][t] = step(i, t)
  OBVIOUS
<1> HIDE DEF F, n
<1>4. PICK r \in [0..n -> Seq(S)] : \A i \in 0..n : r[i] = IF i = 0 THEN <<>> ELSE F[i][r[i - 1]]
  <2>1. \E r : IsRun(r, Seq(S), n, <<>>, F)
    BY <1>1, <1>2, RunExists
  <2> QED
    BY <2>1 DEF IsRun
<1>5. \A i \in 0..n : r[i] = IF i = 0 THEN <<>> ELSE step(i, r[i - 1])
  <2> SUFFICES ASSUME NEW i \in 0..n, i # 0 PROVE r[i] = step(i, r[i - 1])
    BY <1>4
  <2>1. i \in 1..n /\ r[i - 1] \in Seq(S)
    BY <1>1, <1>4
  <2> HIDE DEF step
  <2> QED
    BY <1>3, <1>4, <2>1
<1>6. r = body(r)
  <2> HIDE DEF step
  <2> QED
    BY <1>4, <1>5
<1>7. kept = body(kept)
  <2> HIDE DEF body
  <2> QED
    BY <1>6
<1>8. Without(list, ks) = kept[n]
  BY DEF Without, n
<1> HIDE DEF kept
<1>9. \A i \in 0..n : kept[i] = IF i = 0 THEN <<>> ELSE step(i, kept[i - 1])
  BY <1>7
<1> DEFINE Kept(i) == /\ kept[i] \in Seq(S)
                      /\ Range(kept[i]) = {list[j] : j \in 1..i} \ ks
           P == {i \in Nat : i <= n => Kept(i)}
<1>10. 0 \in P
  <2>1. kept[0] = <<>>
    BY <1>1, <1>9
  <2>2. Range(<<>>) = {} /\ {list[j] : j \in 1..0} = {}
    BY DEF Range
  <2>3. Kept(0)
    BY <2>1, <2>2, <1>1
  <2> HIDE DEF Kept
  <2> QED
    BY <2>3
<1>11. ASSUME NEW i \in Nat, i \in P PROVE i + 1 \in P
  <2> SUFFICES ASSUME i + 1 <= n PROVE Kept(i + 1)
    OBVIOUS
  <2>1. kept[i] \in Seq(S) /\ Range(kept[i]) = {list[j] : j \in 1..i} \ ks
    BY <1>1, <1>11
  <2>2. i + 1 \in 0..n /\ i + 1 # 0 /\ (i + 1) - 1 = i /\ list[i + 1] \in S
    BY <1>1
  <2>3. kept[i + 1] = step(i + 1, kept[i])
    <3> HIDE DEF step
    <3> QED
      BY <2>2, <1>9
  <2>4. {list[j] : j \in 1..i + 1} = {list[j] : j \in 1..i} \cup {list[i + 1]}
    OBVIOUS
  <2>5. CASE list[i + 1] \in ks
    BY <2>1, <2>3, <2>4, <2>5
  <2>6. CASE list[i + 1] \notin ks
    <3> DEFINE t == kept[i] x == list[i + 1]
    <3>1. kept[i + 1] = Append(t, x) /\ t \in Seq(S) /\ x \in S
      BY <2>1, <2>2, <2>3, <2>6
    <3> HIDE DEF t, x
    <3>2. Range(Append(t, x)) = Range(t) \cup {x}
      BY <3>1, AppendRange
    <3>3. Append(t, x) \in Seq(S)
      BY <3>1
    <3> QED
      BY <3>1, <3>2, <3>3, <2>1, <2>4, <2>6 DEF t, x
  <2> QED
    BY <2>5, <2>6
<1> HIDE DEF P, Kept
<1>12. Nat \subseteq P
  BY <1>10, <1>11, NatSetInduction
<1>13. Kept(n)
  BY <1>1, <1>12 DEF P
<1> USE DEF Kept
<1>14. Range(list) = {list[j] : j \in 1..n}
  BY DEF Range, n
<1> QED
  BY <1>8, <1>13, <1>14

----------------------------------------------------------------------------
\* Connections and servers.

LEMMA Fields ==
  ASSUME NEW R, Typed(R)
  PROVE  /\ \A n \in Node :
             /\ R.node[n] \in Server
             /\ R.node[n].c \in Conns \cup {0} /\ R.node[n].mh \in Node \cup {Nil}
             /\ R.node[n].up \in BOOLEAN /\ R.node[n].slaves \in Seq(Conns)
             /\ R.node[n].data \in Data /\ R.node[n].disk \in Data /\ R.node[n].child \in Child
         /\ \A k \in Conns :
             /\ R.conn[k] \in Link
             /\ R.conn[k].sopen \in BOOLEAN /\ R.conn[k].mopen \in BOOLEAN /\ R.conn[k].up \in BOOLEAN
             /\ R.conn[k].out \in Seq(Item) /\ R.conn[k].buf \in Seq(Item)
         /\ 0 \notin Conns
<1>1. \A N \in Server : /\ N.c \in Conns \cup {0} /\ N.mh \in Node \cup {Nil}
                       /\ N.up \in BOOLEAN /\ N.slaves \in Seq(Conns)
                       /\ N.data \in Data /\ N.disk \in Data /\ N.child \in Child
  BY DEF Server
<1>2. \A L \in Link : /\ L.sopen \in BOOLEAN /\ L.mopen \in BOOLEAN /\ L.up \in BOOLEAN
                     /\ L.out \in Seq(Item) /\ L.buf \in Seq(Item)
  BY DEF Link
<1>3. 0 \notin Conns
  BY ReplicationAssumption DEF Conns, Range
<1> QED
  BY <1>1, <1>2, <1>3 DEF Typed

LEMMA SameLinksSound ==
  ASSUME NEW R, NEW Q, Typed(R), Typed(Q), Linked(R), SameLinks(R, Q)
  PROVE  Linked(Q) /\ (Waits(R) /\ SameWaits(R, Q) => Waits(Q))
<1>1. Modes(Q)
  BY DEF SameLinks, Linked, Modes, Busy, Handshake
<1>2. MasterKnown(Q)
  BY Fields DEF SameLinks, Linked, MasterKnown
<1>3. SlavesKnown(Q)
  BY DEF SameLinks, Linked, SlavesKnown
<1>4. Current(Q)
  BY DEF SameLinks, Linked, Current, Stale, Busy, Handshake
<1>5. Ends(Q)
  BY DEF SameLinks, Linked, Ends
<1>6. ASSUME Waits(R), SameWaits(R, Q) PROVE Waits(Q)
  BY <1>6 DEF SameLinks, SameWaits, Linked, Ends, Waits, Waiters
<1> QED
  BY <1>1, <1>2, <1>3, <1>4, <1>5, <1>6 DEF Linked

LEMMA EmptyRange == Range(<<>>) = {}
BY DEF Range

LEMMA LeavesSound ==
  ASSUME NEW R, NEW Q, Typed(R), Typed(Q), Linked(R),
         NEW n \in Node, NEW drop \in BOOLEAN, Leaves(R, Q, n, drop), R.node[n].up,
         Q.node[n].rs = IF Q.node[n].mh = Nil THEN "NONE" ELSE "CONNECT",
         Q.node[n].mh # Nil /\ ~drop => R.node[n].slaves = <<>>
  PROVE  Linked(Q) /\ (Waits(R) => Waits(Q))
<1> DEFINE S == R.node[n].slaves
<1>0. \A p \in Node : p # n => Q.node[p] = R.node[p]
  BY DEF Leaves
<1>1. Modes(Q)
  <2> SUFFICES ASSUME NEW p \in Node
               PROVE  /\ Q.node[p].up => (Q.node[p].rs = "NONE" <=> Q.node[p].mh = Nil)
                      /\ ~Q.node[p].up => /\ Q.node[p].rs = "NONE" /\ Q.node[p].slaves = <<>>
                                          /\ Q.node[p].child.st = "none"
                      /\ Q.node[p].c # 0 <=> Q.node[p].rs \in Handshake \cup {"TRANSFER", "CONNECTED"}
    BY DEF Modes
  <2>1. CASE p = n
    BY <2>1 DEF Leaves, Handshake
  <2>2. CASE p # n
    BY <1>0, <2>2 DEF Linked, Modes
  <2> QED
    BY <2>1, <2>2
<1>2. MasterKnown(Q)
  <2> SUFFICES ASSUME NEW p \in Node, Q.node[p].c # 0
               PROVE  /\ Q.conn[Q.node[p].c].sopen
                      /\ Q.conn[Q.node[p].c].s = p /\ Q.conn[Q.node[p].c].m = Q.node[p].mh
    BY DEF MasterKnown
  <2>1. p # n /\ Q.node[p] = R.node[p]
    BY <1>0 DEF Leaves
  <2>2. R.node[p].c \in Conns /\ R.conn[R.node[p].c].sopen /\ R.conn[R.node[p].c].s = p
        /\ R.conn[R.node[p].c].m = R.node[p].mh
    BY <2>1, Fields DEF Linked, MasterKnown
  <2>3. R.node[p].c # R.node[n].c
    BY <2>1, <2>2, Fields DEF Linked, MasterKnown
  <2>4. LET k == R.node[p].c IN Q.conn[k].sopen /\ Q.conn[k].s = R.conn[k].s /\ Q.conn[k].m = R.conn[k].m
    BY <2>2, <2>3 DEF Leaves
  <2> QED
    BY <2>1, <2>2, <2>4
<1>3. SlavesKnown(Q)
  <2> SUFFICES ASSUME NEW p \in Node, NEW k \in Range(Q.node[p].slaves)
               PROVE  k \in Conns /\ Q.conn[k].mopen /\ Q.conn[k].m = p /\ Q.conn[k].repl # "NONE"
    BY DEF SlavesKnown
  <2>1. k \in Range(R.node[p].slaves) /\ ~(p = n /\ drop)
    BY <1>0, EmptyRange DEF Leaves
  <2>2. k \in Conns /\ R.conn[k].mopen /\ R.conn[k].m = p /\ R.conn[k].repl # "NONE"
    BY <2>1 DEF Linked, SlavesKnown
  <2>3. ~(drop /\ k \in Range(S))
    BY <2>1, <2>2 DEF Linked, SlavesKnown
  <2> QED
    BY <2>2, <2>3 DEF Leaves
<1>4. Current(Q)
  <2> SUFFICES ASSUME NEW p \in Node, Q.node[p].slaves # <<>> PROVE ~Stale(Q, p)
    BY DEF Current
  <2>1. CASE p = n
    <3>1. ~drop /\ R.node[n].slaves # <<>>
      BY <2>1 DEF Leaves
    <3> QED
      BY <2>1, <3>1 DEF Stale
  <2>2. CASE p # n
    BY <2>2, <1>0 DEF Linked, Current, Stale
  <2> QED
    BY <2>1, <2>2
<1>5. Ends(Q)
  <2> SUFFICES ASSUME NEW k \in Conns
               PROVE  /\ Q.conn[k].sopen => Q.conn[k].s \in Node /\ Q.node[Q.conn[k].s].c = k
                      /\ Q.conn[k].mopen => Q.conn[k].m \in Node /\ Q.node[Q.conn[k].m].up
                      /\ Q.conn[k].mopen /\ Q.conn[k].repl # "NONE" => k \in Range(Q.node[Q.conn[k].m].slaves)
    BY DEF Ends
  <2>0. /\ Q.conn[k].s = R.conn[k].s /\ Q.conn[k].m = R.conn[k].m /\ Q.conn[k].repl = R.conn[k].repl
        /\ Q.conn[k].sopen => R.conn[k].sopen /\ k # R.node[n].c
        /\ Q.conn[k].mopen => R.conn[k].mopen /\ ~(drop /\ k \in Range(S))
    BY DEF Leaves
  <2>1. ASSUME Q.conn[k].sopen PROVE Q.conn[k].s \in Node /\ Q.node[Q.conn[k].s].c = k
    <3>1. R.conn[k].s \in Node /\ R.node[R.conn[k].s].c = k /\ k # R.node[n].c
      BY <2>0, <2>1 DEF Linked, Ends
    <3> QED
      BY <3>1, <1>0, <2>0
  <2>2. ASSUME Q.conn[k].mopen PROVE Q.conn[k].m \in Node /\ Q.node[Q.conn[k].m].up
    <3>1. R.conn[k].m \in Node /\ R.node[R.conn[k].m].up
      BY <2>0, <2>2 DEF Linked, Ends
    <3>2. Q.node[n].up = R.node[n].up
      BY DEF Leaves
    <3> QED
      BY <3>1, <3>2, <1>0, <2>0
  <2>3. ASSUME Q.conn[k].mopen, Q.conn[k].repl # "NONE" PROVE k \in Range(Q.node[Q.conn[k].m].slaves)
    <3>1. R.conn[k].m \in Node /\ k \in Range(R.node[R.conn[k].m].slaves) /\ ~(drop /\ k \in Range(S))
      BY <2>0, <2>3 DEF Linked, Ends
    <3> QED
      BY <3>1, <1>0, <2>0 DEF Leaves
  <2> QED
    BY <2>1, <2>2, <2>3
<1>6. ASSUME Waits(R) PROVE Waits(Q)
  <2> SUFFICES ASSUME NEW k \in Conns, Q.conn[k].mopen, Q.conn[k].repl \in Waiters
               PROVE  Q.node[Q.conn[k].m].child.st # "none"
    BY DEF Waits, Waiters
  <2>1. R.conn[k].mopen /\ R.conn[k].m \in Node /\ R.node[R.conn[k].m].child.st # "none"
    BY <1>6 DEF Leaves, Linked, Ends, Waits, Waiters
  <2> QED
    BY <1>0, <2>1 DEF Leaves
<1> QED
  BY <1>1, <1>2, <1>3, <1>4, <1>5, <1>6 DEF Linked

LEMMA ClosesSound ==
  ASSUME NEW R, NEW Q, Typed(R), Typed(Q), Linked(R),
         NEW n \in Node, NEW ks, Closes(R, Q, n, ks),
         \A k \in ks : k \in Conns /\ R.conn[k].m = n
  PROVE  Linked(Q) /\ (Waits(R) => Waits(Q))
<1>1. Modes(Q)
  <2> SUFFICES ASSUME NEW p \in Node
               PROVE  /\ Q.node[p].up => (Q.node[p].rs = "NONE" <=> Q.node[p].mh = Nil)
                      /\ ~Q.node[p].up => /\ Q.node[p].rs = "NONE" /\ Q.node[p].slaves = <<>>
                                          /\ Q.node[p].child.st = "none"
                      /\ Q.node[p].c # 0 <=> Q.node[p].rs \in Handshake \cup {"TRANSFER", "CONNECTED"}
    BY DEF Modes
  <2> QED
    BY DEF Closes, Linked, Modes
<1>2. MasterKnown(Q)
  <2> SUFFICES ASSUME NEW p \in Node, Q.node[p].c # 0
               PROVE  /\ Q.conn[Q.node[p].c].sopen
                      /\ Q.conn[Q.node[p].c].s = p /\ Q.conn[Q.node[p].c].m = Q.node[p].mh
    BY DEF MasterKnown
  <2>1. Q.node[p].c = R.node[p].c /\ Q.node[p].mh = R.node[p].mh
    BY DEF Closes
  <2> DEFINE c == R.node[p].c
  <2>2. c \in Conns /\ R.conn[c].sopen /\ R.conn[c].s = p /\ R.conn[c].m = R.node[p].mh
    BY <2>1, Fields DEF Linked, MasterKnown
  <2> HIDE DEF c
  <2>3. Q.conn[c].s = R.conn[c].s /\ Q.conn[c].m = R.conn[c].m /\ Q.conn[c].sopen = R.conn[c].sopen
    BY <2>2 DEF Closes
  <2> QED
    BY <2>1, <2>2, <2>3 DEF c
<1>3. SlavesKnown(Q)
  BY Fields, EmptyRange DEF Closes, Linked, SlavesKnown
<1>4. Current(Q)
  BY Fields DEF Closes, Linked, Current, Stale
<1>5. Ends(Q)
  <2> SUFFICES ASSUME NEW k \in Conns
               PROVE  /\ Q.conn[k].sopen => Q.conn[k].s \in Node /\ Q.node[Q.conn[k].s].c = k
                      /\ Q.conn[k].mopen => Q.conn[k].m \in Node /\ Q.node[Q.conn[k].m].up
                      /\ Q.conn[k].mopen /\ Q.conn[k].repl # "NONE" => k \in Range(Q.node[Q.conn[k].m].slaves)
    BY DEF Ends
  <2>1. /\ Q.conn[k].s = R.conn[k].s /\ Q.conn[k].m = R.conn[k].m /\ Q.conn[k].repl = R.conn[k].repl
        /\ Q.conn[k].sopen = R.conn[k].sopen /\ (Q.conn[k].mopen => R.conn[k].mopen /\ k \notin ks)
    BY DEF Closes
  <2>2. ASSUME Q.conn[k].sopen PROVE Q.conn[k].s \in Node /\ Q.node[Q.conn[k].s].c = k
    BY <2>1, <2>2 DEF Closes, Linked, Ends
  <2>3. ASSUME Q.conn[k].mopen PROVE Q.conn[k].m \in Node /\ Q.node[Q.conn[k].m].up
    BY <2>1, <2>3 DEF Closes, Linked, Ends
  <2>4. ASSUME Q.conn[k].mopen, Q.conn[k].repl # "NONE" PROVE k \in Range(Q.node[Q.conn[k].m].slaves)
    <3> DEFINE m == R.conn[k].m
    <3>1. m \in Node /\ k \in Range(R.node[m].slaves) /\ k \notin ks
      BY <2>1, <2>4 DEF Linked, Ends
    <3>2. m # n => Q.node[m].slaves = R.node[m].slaves
      BY <3>1 DEF Closes
    <3>3. Range(Q.node[n].slaves) = Range(R.node[n].slaves) \ ks
      BY DEF Closes
    <3> QED
      BY <2>1, <3>1, <3>2, <3>3
  <2> QED
    BY <2>2, <2>3, <2>4
<1>6. ASSUME Waits(R) PROVE Waits(Q)
  BY <1>6, Fields DEF Closes, Linked, Ends, Waits
<1> QED
  BY <1>1, <1>2, <1>3, <1>4, <1>5, <1>6 DEF Linked

LEMMA AttachesSound ==
  ASSUME NEW R, NEW Q, Typed(R), Typed(Q), Linked(R),
         NEW n \in Node, NEW k \in Conns, Attaches(R, Q, n, k),
         R.node[n].up, ~Stale(R, n), R.conn[k].mopen, R.conn[k].m = n
  PROVE  Linked(Q) /\ (Waits(R) => Waits(Q))
<1>1. Modes(Q)
  <2> SUFFICES ASSUME NEW p \in Node
               PROVE  /\ Q.node[p].up => (Q.node[p].rs = "NONE" <=> Q.node[p].mh = Nil)
                      /\ ~Q.node[p].up => /\ Q.node[p].rs = "NONE" /\ Q.node[p].slaves = <<>>
                                          /\ Q.node[p].child.st = "none"
                      /\ Q.node[p].c # 0 <=> Q.node[p].rs \in Handshake \cup {"TRANSFER", "CONNECTED"}
    BY DEF Modes
  <2> QED
    BY DEF Attaches, Linked, Modes
<1>2. MasterKnown(Q)
  BY Fields DEF Attaches, Linked, MasterKnown
<1>3. SlavesKnown(Q)
  <2> SUFFICES ASSUME NEW p \in Node, NEW j \in Range(Q.node[p].slaves)
               PROVE  j \in Conns /\ Q.conn[j].mopen /\ Q.conn[j].m = p /\ Q.conn[j].repl # "NONE"
    BY DEF SlavesKnown
  <2>1. CASE j = k /\ p = n
    BY <2>1 DEF Attaches, Waiters
  <2>2. CASE ~(j = k /\ p = n)
    <3>1. j \in Range(R.node[p].slaves)
      BY <2>2 DEF Attaches
    <3>2. j \in Conns /\ R.conn[j].mopen /\ R.conn[j].m = p /\ R.conn[j].repl # "NONE"
      BY <3>1 DEF Linked, SlavesKnown
    <3> QED
      BY <3>2, <2>2 DEF Attaches
  <2> QED
    BY <2>1, <2>2
<1>4. Current(Q)
  BY DEF Attaches, Linked, Current, Stale
<1>5. Ends(Q)
  <2> SUFFICES ASSUME NEW j \in Conns
               PROVE  /\ Q.conn[j].sopen => Q.conn[j].s \in Node /\ Q.node[Q.conn[j].s].c = j
                      /\ Q.conn[j].mopen => Q.conn[j].m \in Node /\ Q.node[Q.conn[j].m].up
                      /\ Q.conn[j].mopen /\ Q.conn[j].repl # "NONE" => j \in Range(Q.node[Q.conn[j].m].slaves)
    BY DEF Ends
  <2>1. CASE j = k
    BY <2>1 DEF Attaches, Linked, Ends
  <2>2. CASE j # k
    BY <2>2 DEF Attaches, Linked, Ends
  <2> QED
    BY <2>1, <2>2
<1>6. ASSUME Waits(R) PROVE Waits(Q)
  <2> SUFFICES ASSUME NEW j \in Conns, Q.conn[j].mopen, Q.conn[j].repl \in Waiters
               PROVE  Q.node[Q.conn[j].m].child.st # "none"
    BY DEF Waits, Waiters
  <2>1. CASE Q.conn[j].m = n
    BY <2>1 DEF Attaches
  <2>2. CASE Q.conn[j].m # n
    BY <1>6, <2>2 DEF Attaches, Linked, Ends, Waits, Waiters
  <2> QED
    BY <2>1, <2>2
<1> QED
  BY <1>1, <1>2, <1>3, <1>4, <1>5, <1>6 DEF Linked

LEMMA ConnectsSound ==
  ASSUME NEW R, NEW Q, Typed(R), Typed(Q), Linked(R),
         NEW n \in Node, NEW k \in Conns, Connects(R, Q, n, k),
         R.node[n].up, R.node[n].rs = "CONNECT", ~R.conn[k].sopen, ~R.conn[k].mopen
  PROVE  Linked(Q) /\ (Waits(R) => Waits(Q))
<1>0. /\ R.node[n].mh \in Node /\ R.node[n].c = 0
      /\ \A p \in Node : p # n => Q.node[p] = R.node[p]
      /\ \A j \in Conns : j # k => Q.conn[j] = R.conn[j]
  BY Fields DEF Connects, Linked, Modes, Handshake
<1>1. Modes(Q)
  <2> SUFFICES ASSUME NEW p \in Node
               PROVE  /\ Q.node[p].up => (Q.node[p].rs = "NONE" <=> Q.node[p].mh = Nil)
                      /\ ~Q.node[p].up => /\ Q.node[p].rs = "NONE" /\ Q.node[p].slaves = <<>>
                                          /\ Q.node[p].child.st = "none"
                      /\ Q.node[p].c # 0 <=> Q.node[p].rs \in Handshake \cup {"TRANSFER", "CONNECTED"}
    BY DEF Modes
  <2>1. CASE p = n
    <3>1. Q.node[n].up /\ Q.node[n].rs = "CONNECTING" /\ Q.node[n].mh = R.node[n].mh /\ Q.node[n].c = k
      BY DEF Connects
    <3>2. k # 0 /\ Nil \notin Node
      BY Fields, ReplicationAssumption
    <3> QED
      BY <2>1, <1>0, <3>1, <3>2 DEF Handshake
  <2>2. CASE p # n
    BY <2>2, <1>0 DEF Linked, Modes
  <2> QED
    BY <2>1, <2>2
<1>2. MasterKnown(Q)
  <2> SUFFICES ASSUME NEW p \in Node, Q.node[p].c # 0
               PROVE  /\ Q.conn[Q.node[p].c].sopen
                      /\ Q.conn[Q.node[p].c].s = p /\ Q.conn[Q.node[p].c].m = Q.node[p].mh
    BY DEF MasterKnown
  <2>1. CASE p = n
    BY <2>1 DEF Connects
  <2>2. CASE p # n
    <3> DEFINE j == R.node[p].c
    <3>1. j \in Conns /\ R.conn[j].sopen /\ R.conn[j].s = p /\ R.conn[j].m = R.node[p].mh
      BY <2>2, <1>0, Fields DEF Linked, MasterKnown
    <3>2. j # k
      BY <3>1
    <3> QED
      BY <2>2, <1>0, <3>1, <3>2
  <2> QED
    BY <2>1, <2>2
<1>3. SlavesKnown(Q)
  <2> SUFFICES ASSUME NEW p \in Node, NEW j \in Range(Q.node[p].slaves)
               PROVE  j \in Conns /\ Q.conn[j].mopen /\ Q.conn[j].m = p /\ Q.conn[j].repl # "NONE"
    BY DEF SlavesKnown
  <2>1. j \in Range(R.node[p].slaves)
    BY <1>0 DEF Connects
  <2>2. j \in Conns /\ R.conn[j].mopen /\ R.conn[j].m = p /\ R.conn[j].repl # "NONE"
    BY <2>1 DEF Linked, SlavesKnown
  <2> QED
    BY <2>2, <1>0
<1>4. Current(Q)
  <2> SUFFICES ASSUME NEW p \in Node, Q.node[p].slaves # <<>> PROVE ~Stale(Q, p)
    BY DEF Current
  <2>1. p # n
    BY <1>0, ReplicationAssumption DEF Connects, Linked, Current, Stale
  <2> QED
    BY <2>1, <1>0 DEF Linked, Current, Stale
<1>5. Ends(Q)
  <2> SUFFICES ASSUME NEW j \in Conns
               PROVE  /\ Q.conn[j].sopen => Q.conn[j].s \in Node /\ Q.node[Q.conn[j].s].c = j
                      /\ Q.conn[j].mopen => Q.conn[j].m \in Node /\ Q.node[Q.conn[j].m].up
                      /\ Q.conn[j].mopen /\ Q.conn[j].repl # "NONE" => j \in Range(Q.node[Q.conn[j].m].slaves)
    BY DEF Ends
  <2>0. Q.node[n].up = R.node[n].up /\ Q.node[n].slaves = R.node[n].slaves
    BY DEF Connects
  <2>1. CASE j = k
    BY <2>1, <2>0, <1>0 DEF Connects
  <2>2. CASE j # k
    <3>1. /\ R.conn[j].sopen => R.conn[j].s \in Node /\ R.node[R.conn[j].s].c = j
          /\ R.conn[j].mopen => R.conn[j].m \in Node /\ R.node[R.conn[j].m].up
          /\ R.conn[j].mopen /\ R.conn[j].repl # "NONE" => j \in Range(R.node[R.conn[j].m].slaves)
      BY DEF Linked, Ends
    <3>2. R.conn[j].sopen => R.conn[j].s # n
      BY <3>1, <1>0, Fields
    <3>3. Q.conn[j] = R.conn[j]
      BY <2>2, <1>0
    <3>4. Q.conn[j].sopen => Q.conn[j].s \in Node /\ Q.node[Q.conn[j].s].c = j
      BY <3>1, <3>2, <3>3, <1>0
    <3>5. \A p \in Node : Q.node[p].up = R.node[p].up /\ Q.node[p].slaves = R.node[p].slaves
      BY <2>0, <1>0
    <3> QED
      BY <3>1, <3>3, <3>4, <3>5
  <2> QED
    BY <2>1, <2>2
<1>6. ASSUME Waits(R) PROVE Waits(Q)
  <2> SUFFICES ASSUME NEW j \in Conns, Q.conn[j].mopen, Q.conn[j].repl \in Waiters
               PROVE  Q.node[Q.conn[j].m].child.st # "none"
    BY DEF Waits, Waiters
  <2>1. j # k
    BY DEF Connects, Waiters
  <2>2. R.conn[j].m \in Node /\ R.node[R.conn[j].m].child.st # "none"
    BY <1>6, <2>1, <1>0 DEF Linked, Ends, Waits, Waiters
  <2>3. Q.node[n].child = R.node[n].child
    BY DEF Connects
  <2> QED
    BY <2>1, <2>2, <2>3, <1>0
<1> QED
  BY <1>1, <1>2, <1>3, <1>4, <1>5, <1>6 DEF Linked

LEMMA CrashesSound ==
  ASSUME NEW R, NEW Q, Typed(R), Typed(Q), Linked(R), NEW n \in Node, Crashes(R, Q, n)
  PROVE  Linked(Q) /\ (Waits(R) => Waits(Q))
<1>0. \A p \in Node : p # n => Q.node[p] = R.node[p]
  BY DEF Crashes
<1>1. Modes(Q)
  <2> SUFFICES ASSUME NEW p \in Node
               PROVE  /\ Q.node[p].up => (Q.node[p].rs = "NONE" <=> Q.node[p].mh = Nil)
                      /\ ~Q.node[p].up => /\ Q.node[p].rs = "NONE" /\ Q.node[p].slaves = <<>>
                                          /\ Q.node[p].child.st = "none"
                      /\ Q.node[p].c # 0 <=> Q.node[p].rs \in Handshake \cup {"TRANSFER", "CONNECTED"}
    BY DEF Modes
  <2>1. CASE p = n
    BY <2>1 DEF Crashes, Handshake
  <2>2. CASE p # n
    BY <2>2, <1>0 DEF Linked, Modes
  <2> QED
    BY <2>1, <2>2
<1>2. MasterKnown(Q)
  <2> SUFFICES ASSUME NEW p \in Node, Q.node[p].c # 0
               PROVE  /\ Q.conn[Q.node[p].c].sopen
                      /\ Q.conn[Q.node[p].c].s = p /\ Q.conn[Q.node[p].c].m = Q.node[p].mh
    BY DEF MasterKnown
  <2>1. p # n /\ Q.node[p] = R.node[p]
    BY <1>0 DEF Crashes
  <2> DEFINE j == R.node[p].c
  <2>2. j \in Conns /\ R.conn[j].sopen /\ R.conn[j].s = p /\ R.conn[j].m = R.node[p].mh
    BY <2>1, Fields DEF Linked, MasterKnown
  <2>3. j # R.node[n].c
    BY <2>1, <2>2, Fields DEF Linked, MasterKnown
  <2>4. Q.conn[j].sopen /\ Q.conn[j].s = R.conn[j].s /\ Q.conn[j].m = R.conn[j].m
    BY <2>2, <2>3 DEF Crashes
  <2> QED
    BY <2>1, <2>2, <2>4
<1>3. SlavesKnown(Q)
  <2> SUFFICES ASSUME NEW p \in Node, NEW j \in Range(Q.node[p].slaves)
               PROVE  j \in Conns /\ Q.conn[j].mopen /\ Q.conn[j].m = p /\ Q.conn[j].repl # "NONE"
    BY DEF SlavesKnown
  <2>1. p # n /\ j \in Range(R.node[p].slaves)
    BY <1>0, EmptyRange DEF Crashes
  <2>2. j \in Conns /\ R.conn[j].mopen /\ R.conn[j].m = p /\ R.conn[j].repl # "NONE"
    BY <2>1 DEF Linked, SlavesKnown
  <2> QED
    BY <2>1, <2>2 DEF Crashes
<1>4. Current(Q)
  BY <1>0 DEF Crashes, Linked, Current, Stale
<1>5. ASSUME NEW k \in Conns
      PROVE  /\ Q.conn[k].s = R.conn[k].s /\ Q.conn[k].m = R.conn[k].m /\ Q.conn[k].repl = R.conn[k].repl
             /\ Q.conn[k].sopen => R.conn[k].sopen /\ k # R.node[n].c
             /\ Q.conn[k].mopen => R.conn[k].mopen /\ R.conn[k].m # n
  BY DEF Crashes
<1>6. Ends(Q)
  <2> SUFFICES ASSUME NEW k \in Conns
               PROVE  /\ Q.conn[k].sopen => Q.conn[k].s \in Node /\ Q.node[Q.conn[k].s].c = k
                      /\ Q.conn[k].mopen => Q.conn[k].m \in Node /\ Q.node[Q.conn[k].m].up
                      /\ Q.conn[k].mopen /\ Q.conn[k].repl # "NONE" => k \in Range(Q.node[Q.conn[k].m].slaves)
    BY DEF Ends
  <2>1. /\ R.conn[k].sopen => R.conn[k].s \in Node /\ R.node[R.conn[k].s].c = k
        /\ R.conn[k].mopen => R.conn[k].m \in Node /\ R.node[R.conn[k].m].up
        /\ R.conn[k].mopen /\ R.conn[k].repl # "NONE" => k \in Range(R.node[R.conn[k].m].slaves)
    BY DEF Linked, Ends
  <2> QED
    BY <1>0, <1>5, <2>1
<1>7. ASSUME Waits(R) PROVE Waits(Q)
  <2> SUFFICES ASSUME NEW k \in Conns, Q.conn[k].mopen, Q.conn[k].repl \in Waiters
               PROVE  Q.node[Q.conn[k].m].child.st # "none"
    BY DEF Waits, Waiters
  <2>1. R.conn[k].m \in Node /\ R.node[R.conn[k].m].child.st # "none"
    BY <1>5, <1>7 DEF Linked, Ends, Waits, Waiters
  <2> QED
    BY <1>0, <1>5, <2>1
<1> QED
  BY <1>1, <1>2, <1>3, <1>4, <1>6, <1>7 DEF Linked

LEMMA ForgetsSound ==
  ASSUME NEW R, NEW Q, Typed(R), Typed(Q), Linked(R), Forgets(R, Q)
  PROVE  Linked(Q) /\ (Waits(R) => Waits(Q))
<1>0. /\ \A n \in Node : Q.node[n] = R.node[n]
      /\ \A k \in Conns : /\ R.conn[k].sopen \/ R.conn[k].mopen => Q.conn[k] = R.conn[k]
                          /\ Q.conn[k].sopen \/ Q.conn[k].mopen => Q.conn[k] = R.conn[k]
  BY DEF Forgets
<1>1. Modes(Q)
  BY <1>0 DEF Linked, Modes
<1>2. MasterKnown(Q)
  BY <1>0, Fields DEF Linked, MasterKnown
<1>3. SlavesKnown(Q)
  BY <1>0 DEF Linked, SlavesKnown
<1>4. Current(Q)
  BY <1>0 DEF Linked, Current, Stale
<1>5. Ends(Q)
  BY <1>0 DEF Linked, Ends
<1>6. ASSUME Waits(R) PROVE Waits(Q)
  BY <1>0, <1>6 DEF Linked, Ends, Waits
<1> QED
  BY <1>1, <1>2, <1>3, <1>4, <1>5, <1>6 DEF Linked

----------------------------------------------------------------------------
\* The operators of the model.

LEMMA SlaveClosesEffect ==
  ASSUME NEW R, Typed(R), NEW n \in Node, R.node[n].c \in Conns
  PROVE  LET Q == SlaveCloses(R, n) IN
         /\ Typed(Q)
         /\ Q.node[n] = [R.node[n] EXCEPT !.c = 0]
         /\ \A p \in Node : p # n => Q.node[p] = R.node[p]
         /\ Q.conn[R.node[n].c] = [R.conn[R.node[n].c] EXCEPT !.sopen = FALSE, !.out = <<>>]
         /\ \A k \in Conns : k # R.node[n].c => Q.conn[k] = R.conn[k]
<1> DEFINE Q == SlaveCloses(R, n)
           c == R.node[n].c
<1>1. DOMAIN Q = {"node", "conn"} /\ Q.node = [R.node EXCEPT ![n].c = 0]
  BY DEF SlaveCloses, Typed
<1>2. Q.conn = [R.conn EXCEPT ![c].sopen = FALSE, ![c].out = <<>>]
  BY DEF SlaveCloses, Typed
<1> HIDE DEF Q
<1>3. /\ Q.conn[c] = [R.conn[c] EXCEPT !.sopen = FALSE, !.out = <<>>]
      /\ \A k \in Conns : k # c => Q.conn[k] = R.conn[k]
      /\ DOMAIN Q.conn = Conns /\ Q.conn = [k \in Conns |-> Q.conn[k]]
  BY <1>2 DEF Typed
<1>4. /\ Q.node[n] = [R.node[n] EXCEPT !.c = 0]
      /\ \A p \in Node : p # n => Q.node[p] = R.node[p]
      /\ Q.node = [p \in Node |-> Q.node[p]]
  BY <1>1 DEF Typed
<1>5. Q.conn[c] \in Link
  <2>1. R.conn[c] \in Link
    BY Fields
  <2> QED
    BY <1>3, <2>1, EmptyLists DEF Link
<1>6. Q.node[n] \in Server
  <2>1. R.node[n] \in Server
    BY Fields
  <2> QED
    BY <1>4, <2>1 DEF Server
<1>7. Q.conn \in [Conns -> Link]
  BY <1>3, <1>5, Fields
<1>8. Q.node \in [Node -> Server]
  BY <1>4, <1>6, Fields
<1> QED
  BY <1>1, <1>3, <1>4, <1>7, <1>8 DEF Typed, Q

LEMMA MasterClosesEffect ==
  ASSUME NEW R, Typed(R), NEW n \in Node, NEW ks
  PROVE  LET Q == MasterCloses(R, n, ks) IN Typed(Q) /\ Closes(R, Q, n, ks)
<1> DEFINE Q == MasterCloses(R, n, ks)
<1>1. DOMAIN Q = {"node", "conn"} /\ Q.node = [R.node EXCEPT ![n].slaves = Without(@, ks)]
  BY DEF MasterCloses, Typed
<1>2. Q.conn = [k \in Conns |-> IF k \in ks THEN [R.conn[k] EXCEPT !.mopen = FALSE] ELSE R.conn[k]]
  BY DEF MasterCloses, Typed
<1> HIDE DEF Q
<1>3. R.node[n].slaves \in Seq(Conns) /\ R.node[n] \in Server
  BY Fields
<1> DEFINE rest == Without(R.node[n].slaves, ks)
<1>4. rest \in Seq(Conns) /\ Range(rest) = Range(R.node[n].slaves) \ ks
  BY <1>3, WithoutMembers
<1>5. R.node[n].slaves = <<>> => rest = <<>>
  <2>1. R.node[n].slaves = <<>> => Range(rest) = {}
    BY <1>4, EmptyRange
  <2>2. rest # <<>> => rest[1] \in Range(rest)
    BY <1>4 DEF Range
  <2> QED
    BY <2>1, <2>2
<1>6. /\ Q.node[n] = [R.node[n] EXCEPT !.slaves = rest]
      /\ \A p \in Node : p # n => Q.node[p] = R.node[p]
      /\ Q.node = [p \in Node |-> Q.node[p]]
  <2> HIDE DEF rest
  <2>1. Q.node = [R.node EXCEPT ![n].slaves = rest]
    BY <1>1 DEF rest, Typed
  <2> QED
    BY <2>1 DEF Typed
<1> HIDE DEF rest
<1>7. Q.node[n] \in Server
  BY <1>3, <1>4, <1>6 DEF Server
<1>8. ASSUME NEW k \in Conns
      PROVE  /\ Q.conn[k] \in Link
             /\ Q.conn[k].s = R.conn[k].s /\ Q.conn[k].m = R.conn[k].m
             /\ Q.conn[k].sopen = R.conn[k].sopen /\ (Q.conn[k].mopen <=> R.conn[k].mopen /\ k \notin ks)
             /\ Q.conn[k].up = R.conn[k].up /\ Q.conn[k].repl = R.conn[k].repl
             /\ Q.conn[k].buf = R.conn[k].buf /\ Q.conn[k].file = R.conn[k].file
             /\ Q.conn[k].cmds = R.conn[k].cmds /\ Q.conn[k].out = R.conn[k].out
  <2>1. R.conn[k] \in Link
    BY Fields
  <2>2. Q.conn[k] = IF k \in ks THEN [R.conn[k] EXCEPT !.mopen = FALSE] ELSE R.conn[k]
    BY <1>2
  <2> QED
    BY <2>1, <2>2 DEF Link
<1>9. Typed(Q)
  <2>1. Q.conn \in [Conns -> Link]
    BY <1>2, <1>8
  <2>2. Q.node \in [Node -> Server]
    BY <1>6, <1>7, Fields
  <2> QED
    BY <1>1, <2>1, <2>2 DEF Typed
<1>10. ASSUME NEW p \in Node
       PROVE  /\ Q.node[p].up = R.node[p].up /\ Q.node[p].child = R.node[p].child
              /\ Q.node[p].mh = R.node[p].mh /\ Q.node[p].c = R.node[p].c /\ Q.node[p].rs = R.node[p].rs
              /\ Q.node[p].data = R.node[p].data /\ Q.node[p].disk = R.node[p].disk
              /\ p # n \/ R.node[p].slaves = <<>> => Q.node[p].slaves = R.node[p].slaves
              /\ p # n => Q.node[p] = R.node[p]
  <2>1. CASE p = n
    BY <2>1, <1>3, <1>5, <1>6 DEF Server
  <2>2. CASE p # n
    BY <2>2, <1>6
  <2> QED
    BY <2>1, <2>2
<1>11. Range(Q.node[n].slaves) = Range(R.node[n].slaves) \ ks
  BY <1>3, <1>4, <1>6 DEF Server
<1>12. Closes(R, Q, n, ks)
  BY <1>8, <1>10, <1>11 DEF Closes
<1> QED
  BY <1>9, <1>12 DEF Q

LEMMA BackToConnectEffect ==
  ASSUME NEW R, Typed(R), NEW n \in Node, R.node[n].c \in Conns
  PROVE  LET Q == BackToConnect(R, n) IN
         /\ Typed(Q) /\ Leaves(R, Q, n, FALSE)
         /\ Q.node[n].mh = R.node[n].mh /\ Q.node[n].rs = "CONNECT"
         /\ Q.node[n].data = R.node[n].data /\ Q.node[n].disk = R.node[n].disk
<1> DEFINE S == SlaveCloses(R, n)
           Q == BackToConnect(R, n)
           c == R.node[n].c
<1>1. /\ Typed(S)
      /\ S.node[n] = [R.node[n] EXCEPT !.c = 0]
      /\ \A p \in Node : p # n => S.node[p] = R.node[p]
      /\ S.conn[c] = [R.conn[c] EXCEPT !.sopen = FALSE, !.out = <<>>]
      /\ \A k \in Conns : k # c => S.conn[k] = R.conn[k]
  BY SlaveClosesEffect
<1>2. DOMAIN Q = {"node", "conn"} /\ Q.node = [S.node EXCEPT ![n].rs = "CONNECT"] /\ Q.conn = S.conn
  <2> HIDE DEF S
  <2>1. Q = [S EXCEPT !.node[n].rs = "CONNECT"]
    BY DEF BackToConnect, S
  <2> QED
    BY <1>1, <2>1 DEF Typed
<1> HIDE DEF S, Q
<1>3. /\ Q.node[n] = [S.node[n] EXCEPT !.rs = "CONNECT"]
      /\ \A p \in Node : p # n => Q.node[p] = S.node[p]
      /\ Q.node = [p \in Node |-> Q.node[p]]
  BY <1>1, <1>2 DEF Typed
<1>4. S.node[n] \in Server /\ R.node[n] \in Server /\ R.conn[c] \in Link
  BY <1>1, Fields
<1>5. Q.node[n] \in Server
  BY <1>3, <1>4 DEF Server
<1>6. Typed(Q)
  <2>1. Q.node \in [Node -> Server]
    BY <1>1, <1>3, <1>5, Fields
  <2> QED
    BY <1>1, <1>2, <2>1 DEF Typed
<1>7. /\ Q.node[n].up = R.node[n].up /\ Q.node[n].child = R.node[n].child
      /\ Q.node[n].mh = R.node[n].mh /\ Q.node[n].c = 0 /\ Q.node[n].rs = "CONNECT"
      /\ Q.node[n].slaves = R.node[n].slaves
      /\ Q.node[n].data = R.node[n].data /\ Q.node[n].disk = R.node[n].disk
  BY <1>1, <1>3, <1>4 DEF Server
<1>8. ASSUME NEW k \in Conns
      PROVE  /\ Q.conn[k].s = R.conn[k].s /\ Q.conn[k].m = R.conn[k].m
             /\ Q.conn[k].sopen <=> R.conn[k].sopen /\ k # c
             /\ Q.conn[k].mopen = R.conn[k].mopen
             /\ Q.conn[k].up = R.conn[k].up /\ Q.conn[k].repl = R.conn[k].repl
             /\ Q.conn[k].buf = R.conn[k].buf /\ Q.conn[k].file = R.conn[k].file /\ Q.conn[k].cmds = R.conn[k].cmds
             /\ k # c => Q.conn[k].out = R.conn[k].out
  <2>1. CASE k = c
    <3> DEFINE L == R.conn[c]
    <3>1. Q.conn[k] = [L EXCEPT !.sopen = FALSE, !.out = <<>>] /\ R.conn[k] = L /\ L \in Link
      BY <2>1, <1>1, <1>2, <1>4
    <3> HIDE DEF L
    <3>2. /\ Q.conn[k].s = L.s /\ Q.conn[k].m = L.m /\ Q.conn[k].mopen = L.mopen /\ Q.conn[k].up = L.up
          /\ Q.conn[k].repl = L.repl /\ Q.conn[k].buf = L.buf /\ Q.conn[k].file = L.file
          /\ Q.conn[k].cmds = L.cmds
      BY <3>1 DEF Link
    <3>3. ~Q.conn[k].sopen
      BY <3>1 DEF Link
    <3> QED
      BY <2>1, <3>1, <3>2, <3>3
  <2>2. CASE k # c
    BY <2>2, <1>1, <1>2
  <2> QED
    BY <2>1, <2>2
<1>9. Leaves(R, Q, n, FALSE)
  BY <1>1, <1>3, <1>7, <1>8 DEF Leaves
<1> QED
  BY <1>6, <1>7, <1>9 DEF Q

\* Server n leaves its master, and then the slaves it has.
LEMMA LeavesAndCloses ==
  ASSUME NEW R, NEW F, NEW Q, Typed(R), Typed(F), Typed(Q), NEW n \in Node, NEW drop \in BOOLEAN,
         Leaves(R, F, n, drop), Closes(F, Q, n, Range(F.node[n].slaves))
  PROVE  Leaves(R, Q, n, TRUE) /\ Q.node[n].slaves = <<>>
<1> DEFINE ks == Range(F.node[n].slaves)
<1>0. Closes(F, Q, n, ks)
  OBVIOUS
<1>1. Q.node[n].slaves = <<>>
  <2>1. Range(Q.node[n].slaves) = {} /\ Q.node[n].slaves \in Seq(Conns)
    BY Fields DEF Closes
  <2>2. Q.node[n].slaves # <<>> => Q.node[n].slaves[1] \in Range(Q.node[n].slaves)
    BY <2>1 DEF Range
  <2> QED
    BY <2>1, <2>2
<1>2. ~drop => ks = Range(R.node[n].slaves)
  BY DEF Leaves
<1>3. drop => ks = {}
  BY EmptyRange DEF Leaves
<1> HIDE DEF ks
<1>4. ASSUME NEW p \in Node, p # n PROVE Q.node[p] = R.node[p]
  <2>1. F.node[p] = R.node[p]
    BY <1>4 DEF Leaves
  <2> QED
    BY <1>0, <1>4, <2>1 DEF Closes
<1>5. ASSUME NEW k \in Conns
      PROVE  /\ Q.conn[k].s = R.conn[k].s /\ Q.conn[k].m = R.conn[k].m
             /\ Q.conn[k].sopen <=> R.conn[k].sopen /\ k # R.node[n].c
             /\ Q.conn[k].mopen <=> R.conn[k].mopen /\ ~(TRUE /\ k \in Range(R.node[n].slaves))
             /\ Q.conn[k].up = R.conn[k].up /\ Q.conn[k].repl = R.conn[k].repl
             /\ Q.conn[k].buf = R.conn[k].buf /\ Q.conn[k].file = R.conn[k].file
             /\ k # R.node[n].c => Q.conn[k].out = R.conn[k].out /\ Q.conn[k].cmds = R.conn[k].cmds
  <2>1. /\ F.conn[k].s = R.conn[k].s /\ F.conn[k].m = R.conn[k].m
        /\ F.conn[k].sopen <=> R.conn[k].sopen /\ k # R.node[n].c
        /\ F.conn[k].mopen <=> R.conn[k].mopen /\ ~(drop /\ k \in Range(R.node[n].slaves))
        /\ F.conn[k].up = R.conn[k].up /\ F.conn[k].repl = R.conn[k].repl
        /\ F.conn[k].buf = R.conn[k].buf /\ F.conn[k].file = R.conn[k].file
        /\ k # R.node[n].c => F.conn[k].out = R.conn[k].out /\ F.conn[k].cmds = R.conn[k].cmds
    BY DEF Leaves
  <2>2. /\ Q.conn[k].s = F.conn[k].s /\ Q.conn[k].m = F.conn[k].m
        /\ Q.conn[k].sopen = F.conn[k].sopen /\ (Q.conn[k].mopen <=> F.conn[k].mopen /\ k \notin ks)
        /\ Q.conn[k].up = F.conn[k].up /\ Q.conn[k].repl = F.conn[k].repl
        /\ Q.conn[k].buf = F.conn[k].buf /\ Q.conn[k].file = F.conn[k].file /\ Q.conn[k].cmds = F.conn[k].cmds
        /\ Q.conn[k].out = F.conn[k].out
    BY <1>0 DEF Closes
  <2> QED
    BY <2>1, <2>2, <1>2, <1>3
<1>6. /\ Q.node[n].up = R.node[n].up /\ Q.node[n].child = R.node[n].child /\ Q.node[n].c = 0
  BY <1>0 DEF Closes, Leaves
<1> QED
  BY <1>1, <1>4, <1>5, <1>6 DEF Leaves

LEMMA FreeMasterEffect ==
  ASSUME NEW R, Typed(R), NEW n \in Node, R.node[n].c \in Conns
  PROVE  LET Q == freeMaster(R, n) IN
         /\ Typed(Q) /\ Leaves(R, Q, n, R.node[n].mh # Nil)
         /\ Q.node[n].mh = R.node[n].mh /\ Q.node[n].rs = "CONNECT"
<1> DEFINE F == BackToConnect(R, n)
           Q == freeMaster(R, n)
<1>1. /\ Typed(F) /\ Leaves(R, F, n, FALSE) /\ F.node[n].mh = R.node[n].mh /\ F.node[n].rs = "CONNECT"
  BY BackToConnectEffect
<1>2. Q = IF R.node[n].mh # Nil THEN MasterCloses(F, n, Range(F.node[n].slaves)) ELSE F
  BY DEF freeMaster, BackToConnect, disconnectSlaves
<1> HIDE DEF F, Q
<1>3. CASE R.node[n].mh # Nil
  <2>1. Typed(Q) /\ Closes(F, Q, n, Range(F.node[n].slaves))
    BY <1>1, <1>2, <1>3, MasterClosesEffect
  <2>2. Leaves(R, Q, n, TRUE)
    BY <1>1, <2>1, LeavesAndCloses
  <2>3. Q.node[n].mh = F.node[n].mh /\ Q.node[n].rs = F.node[n].rs
    BY <2>1 DEF Closes
  <2>4. (R.node[n].mh # Nil) = TRUE
    BY <1>3
  <2> QED
    BY <1>1, <2>1, <2>2, <2>3, <2>4 DEF Q
<1>4. CASE R.node[n].mh = Nil
  <2>1. (R.node[n].mh # Nil) = FALSE
    BY <1>4
  <2> QED
    BY <1>1, <1>2, <1>4, <2>1 DEF Q
<1> QED
  BY <1>3, <1>4

\* A link that is lost, and a handshake or a transfer that is given up.
LEMMA LinkLostSound ==
  ASSUME NEW R, Typed(R), Linked(R), NEW n \in Node,
         R.node[n].rs \in Busy \cup {"CONNECTED"}
  PROVE  LET Q == LinkLost(R, n) IN
         /\ Typed(Q) /\ Linked(Q) /\ (Waits(R) => Waits(Q))
         /\ Leaves(R, Q, n, R.node[n].rs = "CONNECTED")
         /\ Q.node[n].mh = R.node[n].mh /\ Q.node[n].rs = "CONNECT"
<1> DEFINE Q == LinkLost(R, n)
           drop == R.node[n].rs = "CONNECTED"
<1>1. R.node[n].up /\ R.node[n].c # 0 /\ R.node[n].c \in Conns /\ R.node[n].mh # Nil
  BY Fields DEF Linked, Modes, Busy, Handshake
<1>2. /\ Typed(Q) /\ Leaves(R, Q, n, drop) /\ Q.node[n].mh = R.node[n].mh /\ Q.node[n].rs = "CONNECT"
  <2>1. CASE R.node[n].rs = "CONNECTED"
    <3>1. Q = freeMaster(R, n) /\ drop = (R.node[n].mh # Nil)
      BY <1>1, <2>1 DEF LinkLost
    <3> HIDE DEF Q, drop
    <3> QED
      BY <1>1, <3>1, FreeMasterEffect
  <2>2. CASE R.node[n].rs # "CONNECTED"
    <3>1. Q = BackToConnect(R, n) /\ drop = FALSE
      BY <1>1, <2>2 DEF LinkLost
    <3> HIDE DEF Q, drop
    <3> QED
      BY <1>1, <3>1, BackToConnectEffect
  <2> QED
    BY <2>1, <2>2
<1>3. ~drop => R.node[n].slaves = <<>>
  BY <1>1 DEF Linked, Current, Stale
<1>4. drop \in BOOLEAN
  OBVIOUS
<1> HIDE DEF Q, drop
<1>5. Q.node[n].rs = IF Q.node[n].mh = Nil THEN "NONE" ELSE "CONNECT"
  BY <1>1, <1>2
<1>6. Linked(Q) /\ (Waits(R) => Waits(Q))
  BY <1>1, <1>2, <1>3, <1>4, <1>5, LeavesSound
<1> QED
  BY <1>2, <1>6 DEF Q, drop

\* A step of the model forgets the connections nobody has open.
LEMMA NoConnIsLink == NoConn \in Link
BY EmptyLists DEF NoConn, Link

LEMMA BecomesForgets ==
  ASSUME NEW R, Typed(R), Becomes(R), NEW Q, Q = [node |-> node', conn |-> conn']
  PROVE  Typed(Q) /\ Forgets(R, Q)
<1>1. Q.node = R.node /\ Q.conn = conn' /\ DOMAIN Q = {"node", "conn"}
  BY DEF Becomes
<1>2. conn' = [k \in Conns |-> IF R.conn[k].sopen \/ R.conn[k].mopen THEN R.conn[k] ELSE NoConn]
  BY DEF Becomes
<1>3. conn' \in [Conns -> Link]
  BY <1>2, Fields, NoConnIsLink
<1>4. ~NoConn.sopen /\ ~NoConn.mopen
  BY DEF NoConn
<1>5. Forgets(R, Q)
  BY <1>1, <1>2, <1>4 DEF Forgets
<1> QED
  BY <1>1, <1>3, <1>5 DEF Typed

LEMMA BecomesSound ==
  ASSUME NEW R, Typed(R), Linked(R), Becomes(R)
  PROVE  Sound' /\ (Waits(R) => Waits(Now)')
<1> DEFINE Q == [node |-> node', conn |-> conn']
<1>1. Typed(Q) /\ Forgets(R, Q)
  BY BecomesForgets
<1>2. Linked(Q) /\ (Waits(R) => Waits(Q))
  <2> HIDE DEF Q
  <2> QED
    BY <1>1, ForgetsSound
<1>3. Q.node = node' /\ Q.conn = conn'
  OBVIOUS
<1> HIDE DEF Q
<1>4. Typed(Now)'
  BY <1>1, <1>3 DEF Typed, Now
<1>5. Linked(Now)'
  BY <1>2, <1>3 DEF Linked, Modes, MasterKnown, SlavesKnown, Current, Ends, Now, Stale
<1>6. ASSUME Waits(R) PROVE Waits(Now)'
  BY <1>2, <1>3, <1>6 DEF Waits, Now
<1> QED
  BY <1>4, <1>5, <1>6 DEF Sound

LEMMA MinIn ==
  ASSUME NEW S \in SUBSET Nat, S # {}
  PROVE  Min(S) \in S
<1>1. PICK x \in S : \A y \in S : <<y, x>> \notin OpToRel(<, Nat)
  BY WFMin, NatLessThanWellFounded
<1>2. \A y \in S : x <= y
  <2> TAKE y \in S
  <2>1. x \in Nat /\ y \in Nat /\ ~(y < x)
    BY <1>1 DEF OpToRel
  <2> QED
    BY <2>1
<1> QED
  BY <1>2 DEF Min

LEMMA Replies == \A x \in Silence : <<x>> \in Item
BY DEF Item

LEMMA ConnectSound ==
  ASSUME NEW R, Typed(R), Linked(R), NEW n \in Node, R.node[n].up, R.node[n].rs = "CONNECT",
         FreeConns(R, n) # {}
  PROVE  LET Q == connectWithMaster(R, n)
             k == Min(FreeConns(R, n))
         IN  /\ Typed(Q) /\ Linked(Q) /\ (Waits(R) => Waits(Q)) /\ k \in Conns /\ Connects(R, Q, n, k)
             /\ ~R.conn[k].sopen /\ ~R.conn[k].mopen
<1> DEFINE k == Min(FreeConns(R, n))
           m == R.node[n].mh
           Q == connectWithMaster(R, n)
           L == [NoConn EXCEPT !.s = n, !.m = m, !.sopen = TRUE, !.mopen = R.node[m].up, !.up = TRUE]
<1>1. k \in FreeConns(R, n)
  <2>1. FreeConns(R, n) \subseteq Nat
    BY ReplicationAssumption DEF FreeConns
  <2> QED
    BY <2>1, MinIn
<1>2. k \in Conns /\ ~R.conn[k].sopen /\ ~R.conn[k].mopen
  <2>1. k \in Pool[n] /\ ~R.conn[k].sopen /\ ~R.conn[k].mopen
    BY <1>1 DEF FreeConns
  <2> QED
    BY <2>1, ReplicationAssumption DEF Conns, Range
<1>3. m \in Node
  BY Fields, ReplicationAssumption DEF Linked, Modes
<1>4. /\ DOMAIN Q = {"node", "conn"}
      /\ Q.node = [R.node EXCEPT ![n].c = k, ![n].rs = "CONNECTING"]
      /\ Q.conn = [R.conn EXCEPT ![k] = L]
  <2> HIDE DEF L, k, m
  <2>1. Q = [R EXCEPT !.node[n].c = k, !.node[n].rs = "CONNECTING", !.conn[k] = L]
    BY DEF connectWithMaster, L, k, m
  <2> HIDE DEF Q
  <2> QED
    BY <2>1 DEF Typed
<1>5. /\ L \in Link /\ L.s = n /\ L.m = m /\ L.repl = "NONE" /\ L.sopen /\ L.mopen = R.node[m].up
      /\ L.out = <<>> /\ L.buf = <<>> /\ L.cmds = <<>>
  <2>1. R.node[m].up \in BOOLEAN
    BY <1>3, Fields
  <2> HIDE DEF m
  <2>2. /\ L.s = n /\ L.m = m /\ L.repl = "NONE" /\ L.sopen /\ L.mopen = R.node[m].up
        /\ L.out = <<>> /\ L.buf = <<>> /\ L.cmds = <<>>
    BY DEF NoConn
  <2>3. L \in Link
    BY <1>3, <2>1, NoConnIsLink DEF Link
  <2> QED
    BY <2>2, <2>3
<1> HIDE DEF L, k, Q
<1>6. /\ Q.node[n] = [R.node[n] EXCEPT !.c = k, !.rs = "CONNECTING"]
      /\ \A p \in Node : p # n => Q.node[p] = R.node[p]
      /\ Q.node = [p \in Node |-> Q.node[p]]
  BY <1>4 DEF Typed
<1>7. R.node[n] \in Server
  BY Fields
<1>8. /\ Q.node[n] \in Server
      /\ Q.node[n].up = R.node[n].up /\ Q.node[n].mh = R.node[n].mh /\ Q.node[n].slaves = R.node[n].slaves
      /\ Q.node[n].child = R.node[n].child /\ Q.node[n].data = R.node[n].data /\ Q.node[n].disk = R.node[n].disk
      /\ Q.node[n].c = k /\ Q.node[n].rs = "CONNECTING"
  <2> DEFINE N == R.node[n]
             M == [N EXCEPT !.c = k, !.rs = "CONNECTING"]
  <2>1. N \in Server /\ Q.node[n] = M /\ k \in Conns
    BY <1>2, <1>6, <1>7
  <2> HIDE DEF N
  <2>2. M \in Server
    BY <2>1 DEF Server
  <2>3. /\ M.up = N.up /\ M.mh = N.mh /\ M.slaves = N.slaves /\ M.child = N.child /\ M.data = N.data
        /\ M.disk = N.disk
    BY <2>1 DEF Server
  <2>4. M.c = k /\ M.rs = "CONNECTING"
    BY <2>1 DEF Server
  <2> HIDE DEF M
  <2> QED
    BY <2>1, <2>2, <2>3, <2>4 DEF N
<1>9. Typed(Q)
  <2>1. Q.node \in [Node -> Server]
    BY <1>6, <1>8, Fields
  <2>2. Q.conn = [R.conn EXCEPT ![k] = L] /\ L \in Link /\ R.conn \in [Conns -> Link]
    BY <1>4, <1>5 DEF Typed
  <2>3. Q.conn \in [Conns -> Link]
    BY <2>2
  <2> QED
    BY <1>4, <2>1, <2>3 DEF Typed
<1>10. Connects(R, Q, n, k)
  <2>2. Q.conn[k] = L /\ \A j \in Conns : j # k => Q.conn[j] = R.conn[j]
    BY <1>2, <1>4 DEF Typed
  <2> QED
    BY <1>5, <1>6, <1>8, <2>2 DEF Connects
<1>11. Linked(Q) /\ (Waits(R) => Waits(Q))
  BY <1>2, <1>9, <1>10, ConnectsSound
<1> QED
  BY <1>2, <1>9, <1>10, <1>11 DEF Q, k

\* A ping only adds itself to what is on its way.
LEMMA PingedEffect ==
  ASSUME NEW L \in Link
  PROVE  /\ Pinged(L) \in Link
         /\ Pinged(L).s = L.s /\ Pinged(L).m = L.m /\ Pinged(L).sopen = L.sopen /\ Pinged(L).mopen = L.mopen
         /\ Pinged(L).up = L.up /\ Pinged(L).repl = L.repl /\ Pinged(L).buf = L.buf /\ Pinged(L).file = L.file
         /\ Pinged(L).cmds = L.cmds
         /\ Pinged(L).out = L.out \/ \E x \in Silence : Pinged(L).out = Append(L.out, <<x>>)
<1> DEFINE ping == IF L.repl = "ONLINE" THEN <<"PING">> ELSE <<"NL">>
<1>1. \E x \in Silence : ping = <<x>>
  BY DEF Silence
<1>2. ping \in Item
  BY <1>1, Replies
<1>3. Append(L.out, ping) \in Seq(Item)
  BY <1>2 DEF Link
<1>4. Pinged(L) = L \/ Pinged(L) = [L EXCEPT !.out = Append(L.out, ping)]
  BY DEF Pinged
<1> HIDE DEF ping
<1>5. CASE Pinged(L) = L
  BY <1>5
<1>6. CASE Pinged(L) = [L EXCEPT !.out = Append(L.out, ping)]
  <2> DEFINE o == Append(L.out, ping)
  <2>1. o \in Seq(Item) /\ Pinged(L) = [L EXCEPT !.out = o]
    BY <1>3, <1>6
  <2>2. \E x \in Silence : o = Append(L.out, <<x>>)
    BY <1>1
  <2> HIDE DEF o
  <2> QED
    BY <2>1, <2>2 DEF Link
<1> QED
  BY <1>4, <1>5, <1>6

\* One connection is changed; one server is changed.
SetsLink(R, Q, k, L) == DOMAIN Q = {"node", "conn"} /\ Q.node = R.node /\ Q.conn = [R.conn EXCEPT ![k] = L]
SetsServer(R, Q, n, N) == DOMAIN Q = {"node", "conn"} /\ Q.conn = R.conn /\ Q.node = [R.node EXCEPT ![n] = N]

LEMMA LinkSet ==
  ASSUME NEW R, Typed(R), NEW k \in Conns, NEW L \in Link, NEW Q, SetsLink(R, Q, k, L)
  PROVE  /\ Typed(Q) /\ Q.node = R.node /\ Q.conn[k] = L
         /\ \A j \in Conns : j # k => Q.conn[j] = R.conn[j]
BY DEF Typed, SetsLink

LEMMA ServerSet ==
  ASSUME NEW R, Typed(R), NEW n \in Node, NEW N \in Server, NEW Q, SetsServer(R, Q, n, N)
  PROVE  /\ Typed(Q) /\ Q.conn = R.conn /\ Q.node[n] = N
         /\ \A p \in Node : p # n => Q.node[p] = R.node[p]
BY DEF Typed, SetsServer

LEMMA AddReplyEffect ==
  ASSUME NEW L \in Link, NEW items \in Seq(Item)
  PROVE  LET M == addReply(L, items) IN
         /\ M \in Link
         /\ M.s = L.s /\ M.m = L.m /\ M.sopen = L.sopen /\ M.mopen = L.mopen /\ M.up = L.up /\ M.repl = L.repl
         /\ M.file = L.file /\ M.cmds = L.cmds /\ M.sel = L.sel
         /\ L.repl \notin {"NONE", "ONLINE"} => M.buf = L.buf \o items /\ M.out = L.out
         /\ L.repl \in {"NONE", "ONLINE"} => M.buf = L.buf
         /\ L.repl \in {"NONE", "ONLINE"} /\ L.up /\ L.sopen => M.out = L.out \o items
         /\ ~(L.up /\ L.sopen) => M.out = L.out
<1> DEFINE M == addReply(L, items)
           b == L.buf \o items
           o == L.out \o items
<1>1. b \in Seq(Item) /\ o \in Seq(Item)
  <2>1. L.buf \in Seq(Item) /\ L.out \in Seq(Item)
    BY DEF Link
  <2> QED
    BY <2>1, ConcatProperties
<1>2. M = IF L.repl \notin {"NONE", "ONLINE"} THEN [L EXCEPT !.buf = b]
          ELSE IF L.up /\ L.sopen THEN [L EXCEPT !.out = o] ELSE L
  BY DEF addReply
<1> HIDE DEF b, o, M
<1>3. CASE L.repl \notin {"NONE", "ONLINE"}
  <2>1. M = [L EXCEPT !.buf = b]
    BY <1>2, <1>3
  <2>2. M \in Link /\ M.buf = b /\ M.out = L.out
    BY <1>1, <2>1 DEF Link
  <2>3. /\ M.s = L.s /\ M.m = L.m /\ M.sopen = L.sopen /\ M.mopen = L.mopen /\ M.up = L.up
        /\ M.repl = L.repl /\ M.file = L.file /\ M.cmds = L.cmds /\ M.sel = L.sel
    BY <2>1 DEF Link
  <2> QED
    BY <1>3, <2>2, <2>3 DEF M, b
<1>4. CASE L.repl \in {"NONE", "ONLINE"} /\ L.up /\ L.sopen
  <2>1. M = [L EXCEPT !.out = o]
    BY <1>2, <1>4
  <2>2. M \in Link /\ M.out = o /\ M.buf = L.buf
    BY <1>1, <2>1 DEF Link
  <2>3. /\ M.s = L.s /\ M.m = L.m /\ M.sopen = L.sopen /\ M.mopen = L.mopen /\ M.up = L.up
        /\ M.repl = L.repl /\ M.file = L.file /\ M.cmds = L.cmds /\ M.sel = L.sel
    BY <2>1 DEF Link
  <2> QED
    BY <1>4, <2>2, <2>3 DEF M, o
<1>5. CASE L.repl \in {"NONE", "ONLINE"} /\ ~(L.up /\ L.sopen)
  <2>1. M = L
    BY <1>2, <1>5
  <2> QED
    BY <1>5, <2>1 DEF M
<1> QED
  BY <1>3, <1>4, <1>5

\* What a slave is fed with a write.
Feed(L, d, w) == IF L.sel = d THEN <<<<"WRITE", w>>>> ELSE <<<<"SELECT", d>>, <<"WRITE", w>>>>

LEMMA FedEffect ==
  ASSUME NEW L \in Link, NEW d \in Db, NEW w \in Nat
  PROVE  LET M == Fed(L, d, w) IN
         /\ M \in Link
         /\ M.s = L.s /\ M.m = L.m /\ M.sopen = L.sopen /\ M.mopen = L.mopen /\ M.up = L.up /\ M.repl = L.repl
         /\ M.file = L.file /\ M.cmds = L.cmds
         /\ Feed(L, d, w) \in Seq(Item)
         /\ L.repl = "WAIT_BGSAVE_START" => M.buf = L.buf /\ M.out = L.out
         /\ L.repl \in {"WAIT_BGSAVE_END", "SEND_BULK"} => M.buf = L.buf \o Feed(L, d, w) /\ M.out = L.out
         /\ L.repl \in {"NONE", "ONLINE"} => M.buf = L.buf
         /\ L.repl \in {"NONE", "ONLINE"} /\ L.up /\ L.sopen => M.out = L.out \o Feed(L, d, w)
         /\ ~(L.up /\ L.sopen) => M.out = L.out
<1> DEFINE A == addReply(L, Feed(L, d, w))
           M == Fed(L, d, w)
<1>1. Feed(L, d, w) \in Seq(Item)
  <2>1. <<"WRITE", w>> \in Item /\ <<"SELECT", d>> \in Item
    BY DEF Item
  <2> QED
    BY <2>1 DEF Feed
<1>2. M = IF L.repl = "WAIT_BGSAVE_START" THEN L ELSE [A EXCEPT !.sel = d]
  BY DEF Fed, Feed
<1>3. /\ A \in Link
      /\ A.s = L.s /\ A.m = L.m /\ A.sopen = L.sopen /\ A.mopen = L.mopen /\ A.up = L.up /\ A.repl = L.repl
      /\ A.file = L.file /\ A.cmds = L.cmds
      /\ L.repl \notin {"NONE", "ONLINE"} => A.buf = L.buf \o Feed(L, d, w) /\ A.out = L.out
      /\ L.repl \in {"NONE", "ONLINE"} => A.buf = L.buf
      /\ L.repl \in {"NONE", "ONLINE"} /\ L.up /\ L.sopen => A.out = L.out \o Feed(L, d, w)
      /\ ~(L.up /\ L.sopen) => A.out = L.out
  BY <1>1, AddReplyEffect
<1> HIDE DEF A, M
<1>4. CASE L.repl = "WAIT_BGSAVE_START"
  BY <1>1, <1>2, <1>4 DEF M
<1>5. CASE L.repl # "WAIT_BGSAVE_START"
  <2>1. M = [A EXCEPT !.sel = d]
    BY <1>2, <1>5
  <2>2. M \in Link
    BY <1>3, <2>1 DEF Link
  <2>3. /\ M.s = A.s /\ M.m = A.m /\ M.sopen = A.sopen /\ M.mopen = A.mopen /\ M.up = A.up
        /\ M.repl = A.repl /\ M.file = A.file /\ M.cmds = A.cmds /\ M.buf = A.buf /\ M.out = A.out
    BY <1>3, <2>1 DEF Link
  <2> QED
    BY <1>1, <1>3, <1>5, <2>2, <2>3 DEF M
<1> QED
  BY <1>4, <1>5

LEMMA WrittenEffect ==
  ASSUME NEW R, Typed(R), NEW n \in Node, NEW d \in Db, NEW w \in Nat
  PROVE  LET Q == Written(R, n, d, w) IN
         /\ Typed(Q) /\ SameLinks(R, Q) /\ SameWaits(R, Q)
         /\ Q.node[n] = [R.node[n] EXCEPT !.data = Append(@, <<w, d>>)]
         /\ \A p \in Node : p # n => Q.node[p] = R.node[p]
         /\ \A k \in Conns : Q.conn[k] = IF k \in Range(R.node[n].slaves) THEN Fed(R.conn[k], d, w) ELSE R.conn[k]
<1> DEFINE D == [R EXCEPT !.node[n].data = Append(@, <<w, d>>)]
           N == [R.node[n] EXCEPT !.data = Append(@, <<w, d>>)]
           Q == Written(R, n, d, w)
<1>1. R.node[n] \in Server /\ N \in Server
  <2>1. R.node[n] \in Server /\ R.node[n].data \in Data
    BY Fields
  <2> DEFINE a == Append(R.node[n].data, <<w, d>>)
  <2>2. a \in Data
    BY <2>1 DEF Data
  <2>3. N = [R.node[n] EXCEPT !.data = a]
    OBVIOUS
  <2> HIDE DEF a, N
  <2>4. N \in Server
    BY <2>1, <2>2, <2>3 DEF Server
  <2> QED
    BY <2>1, <2>4
<1>2. SetsServer(R, D, n, N)
  BY DEF Typed, SetsServer
<1>3. /\ Typed(D) /\ D.conn = R.conn /\ D.node[n] = N
      /\ \A p \in Node : p # n => D.node[p] = R.node[p]
  <2> HIDE DEF D, N
  <2> QED
    BY <1>1, <1>2, ServerSet
<1>4. N.slaves = R.node[n].slaves /\ N.up = R.node[n].up /\ N.mh = R.node[n].mh /\ N.c = R.node[n].c
      /\ N.rs = R.node[n].rs /\ N.child = R.node[n].child
  BY <1>1 DEF Server
<1>5. Q = [D EXCEPT !.conn = [k \in Conns |-> IF k \in Range(D.node[n].slaves) THEN Fed(D.conn[k], d, w) ELSE D.conn[k]]]
  BY DEF Written, replicationFeedSlaves
<1> HIDE DEF D, N, Q
<1>6. DOMAIN Q = {"node", "conn"} /\ Q.node = D.node
      /\ Q.conn = [k \in Conns |-> IF k \in Range(D.node[n].slaves) THEN Fed(D.conn[k], d, w) ELSE D.conn[k]]
  BY <1>3, <1>5 DEF Typed
<1>7. \A k \in Conns : Q.conn[k] = IF k \in Range(R.node[n].slaves) THEN Fed(R.conn[k], d, w) ELSE R.conn[k]
  BY <1>3, <1>4, <1>6
<1>8. ASSUME NEW k \in Conns
      PROVE  /\ Q.conn[k] \in Link
             /\ Q.conn[k].s = R.conn[k].s /\ Q.conn[k].m = R.conn[k].m
             /\ Q.conn[k].sopen = R.conn[k].sopen /\ Q.conn[k].mopen = R.conn[k].mopen
             /\ Q.conn[k].repl = R.conn[k].repl
  <2>1. R.conn[k] \in Link
    BY Fields
  <2> QED
    BY <1>7, <2>1, FedEffect
<1>9. Typed(Q)
  <2>1. Q.conn \in [Conns -> Link]
    BY <1>6, <1>8
  <2> QED
    BY <1>3, <1>6, <2>1 DEF Typed
<1>10. SameLinks(R, Q) /\ SameWaits(R, Q)
  BY <1>3, <1>4, <1>6, <1>8 DEF SameLinks, SameWaits
<1> QED
  BY <1>3, <1>6, <1>7, <1>9, <1>10 DEF N, Q

----------------------------------------------------------------------------
\* One action after the other.

Follows(R, Q) == Typed(Q) /\ Linked(Q) /\ (Waits(R) => Waits(Q))
Keeps == Sound' /\ (Waits(Now) => Waits(Now)')
\* All that happens is that server n leaves its master; or that it dies.
Departs(n) == \E Q : Typed(Q) /\ Becomes(Q) /\ \E drop \in BOOLEAN : Leaves(Now, Q, n, drop)
Dies(n) == \E Q : Typed(Q) /\ Becomes(Q) /\ Crashes(Now, Q, n)

LEMMA NowIs == Now.node = node /\ Now.conn = conn
BY DEF Now

LEMMA FollowsBecomes ==
  ASSUME NEW Q, Follows(Now, Q), Becomes(Q)
  PROVE  Keeps
BY BecomesSound DEF Follows, Keeps

LEMMA PrimedSound ==
  ASSUME NEW Q, Q = [node |-> node', conn |-> conn'], Follows(Now, Q)
  PROVE  Keeps
<1>1. Q.node = node' /\ Q.conn = conn'
  OBVIOUS
<1> SUFFICES ASSUME Typed(Q), Linked(Q), Waits(Now) => Waits(Q) PROVE Keeps
  BY DEF Follows
<1>2. Typed(Now)'
  BY <1>1 DEF Typed, Now
<1>3. Linked(Now)'
  BY <1>1 DEF Linked, Modes, MasterKnown, SlavesKnown, Current, Ends, Now, Stale
<1>4. ASSUME Waits(Now) PROVE Waits(Now)'
  BY <1>1, <1>4 DEF Waits, Now
<1> QED
  BY <1>2, <1>3, <1>4 DEF Sound, Keeps

\* A connection changes, but not who has it.
SameEnds(L, M) ==
  /\ M.s = L.s /\ M.m = L.m /\ M.sopen = L.sopen /\ M.mopen = L.mopen
  /\ M.repl = "NONE" <=> L.repl = "NONE"
  /\ M.repl \in Waiters => L.repl \in Waiters

LEMMA LinkKeeps ==
  ASSUME NEW R, Typed(R), Linked(R), NEW k \in Conns, NEW L \in Link, SameEnds(R.conn[k], L),
         NEW Q, SetsLink(R, Q, k, L)
  PROVE  /\ Follows(R, Q) /\ Q.node = R.node /\ Q.conn[k] = L
         /\ \A j \in Conns : j # k => Q.conn[j] = R.conn[j]
<1>1. /\ Typed(Q) /\ Q.node = R.node /\ Q.conn[k] = L
      /\ \A j \in Conns : j # k => Q.conn[j] = R.conn[j]
  BY LinkSet
<1>2. SameLinks(R, Q) /\ SameWaits(R, Q)
  BY <1>1 DEF SameLinks, SameWaits, SameEnds
<1> QED
  BY <1>1, <1>2, SameLinksSound DEF Follows

\* A server changes, but not what it knows about others.
SameTies(N, M) ==
  /\ M.up = N.up /\ M.mh = N.mh /\ M.c = N.c /\ M.slaves = N.slaves /\ M.child = N.child
  /\ M.rs = N.rs \/ (N.rs \in Busy /\ M.rs \in Busy \cup {"CONNECTED"})

LEMMA ServerKeeps ==
  ASSUME NEW R, Typed(R), Linked(R), NEW n \in Node, NEW N \in Server, SameTies(R.node[n], N),
         NEW Q, SetsServer(R, Q, n, N)
  PROVE  /\ Follows(R, Q) /\ Q.conn = R.conn /\ Q.node[n] = N
         /\ \A p \in Node : p # n => Q.node[p] = R.node[p]
<1>1. /\ Typed(Q) /\ Q.conn = R.conn /\ Q.node[n] = N
      /\ \A p \in Node : p # n => Q.node[p] = R.node[p]
  BY ServerSet
<1>2. SameLinks(R, Q) /\ SameWaits(R, Q)
  BY <1>1 DEF SameLinks, SameWaits, SameTies
<1> QED
  BY <1>1, <1>2, SameLinksSound DEF Follows

LEMMA FollowsOn ==
  ASSUME NEW R, NEW Q, NEW P, Follows(R, Q), Follows(Q, P)
  PROVE  Follows(R, P)
BY DEF Follows

\* A reply is added to a connection.
LEMMA ReplySound ==
  ASSUME NEW R, Typed(R), Linked(R), NEW k \in Conns, NEW items \in Seq(Item),
         NEW Q, SetsLink(R, Q, k, addReply(R.conn[k], items))
  PROVE  Follows(R, Q)
<1>1. R.conn[k] \in Link
  BY Fields
<1>2. addReply(R.conn[k], items) \in Link /\ SameEnds(R.conn[k], addReply(R.conn[k], items))
  BY <1>1, AddReplyEffect DEF SameEnds
<1> QED
  BY <1>2, LinkKeeps

LEMMA RefusedSound ==
  ASSUME NEW R, Typed(R), Linked(R), NEW k \in Conns
  PROVE  Follows(R, Refused(R, k))
<1>1. <<<<"ERR">>>> \in Seq(Item)
  BY Replies DEF Silence
<1>2. SetsLink(R, Refused(R, k), k, addReply(R.conn[k], <<<<"ERR">>>>))
  BY DEF Refused, SetsLink, Typed
<1> QED
  BY <1>1, <1>2, ReplySound

----------------------------------------------------------------------------
\* The master.

LEMMA SaveBeginsEffect ==
  ASSUME NEW R, Typed(R), Linked(R), NEW n \in Node, R.node[n].up
  PROVE  LET Q == rdbSaveBackground(R, n)
         IN  /\ Follows(R, Q) /\ Q.conn = R.conn
             /\ \A p \in Node : p # n => Q.node[p] = R.node[p]
             /\ Q.node[n].child.st = "running" /\ Q.node[n].child.snap = R.node[n].data
             /\ Q.node[n].up = R.node[n].up /\ Q.node[n].slaves = R.node[n].slaves /\ Q.node[n].data = R.node[n].data
             /\ Q.node[n].disk = R.node[n].disk /\ Q.node[n].sel = R.node[n].sel /\ Q.node[n].c = R.node[n].c
             /\ Q.node[n].mh = R.node[n].mh /\ Q.node[n].rs = R.node[n].rs
<1> DEFINE child == [st |-> "running", snap |-> R.node[n].data]
           N == [R.node[n] EXCEPT !.child = child]
           Q == rdbSaveBackground(R, n)
<1>1. R.node[n] \in Server /\ R.node[n].data \in Data
  BY Fields
<1>2. child \in Child /\ child.st = "running" /\ child.snap = R.node[n].data
  BY <1>1 DEF Child
<1>3. SetsServer(R, Q, n, N)
  BY DEF rdbSaveBackground, Typed, SetsServer
<1> HIDE DEF child
<1>4. /\ N \in Server /\ N.child = child
      /\ N.up = R.node[n].up /\ N.mh = R.node[n].mh /\ N.c = R.node[n].c /\ N.slaves = R.node[n].slaves
      /\ N.rs = R.node[n].rs /\ N.data = R.node[n].data /\ N.disk = R.node[n].disk /\ N.sel = R.node[n].sel
  BY <1>1, <1>2 DEF Server
<1> HIDE DEF N, Q
<1>5. Typed(Q) /\ Q.conn = R.conn /\ Q.node[n] = N /\ \A p \in Node : p # n => Q.node[p] = R.node[p]
  BY <1>3, <1>4, ServerSet
<1>6. SameLinks(R, Q) /\ SameWaits(R, Q)
  BY <1>2, <1>4, <1>5 DEF SameLinks, SameWaits
<1>7. Follows(R, Q)
  BY <1>5, <1>6, SameLinksSound DEF Follows
<1> QED
  BY <1>2, <1>4, <1>5, <1>7 DEF Q

LEMMA AttachedEffect ==
  ASSUME NEW R, Typed(R), NEW n \in Node, NEW k \in Conns, NEW st \in Waiters, R.node[n].child.st # "none"
  PROVE  LET Q == Attached(R, n, k, st)
         IN  /\ Typed(Q) /\ Attaches(R, Q, n, k)
             /\ \A p \in Node : /\ Q.node[p].data = R.node[p].data /\ Q.node[p].disk = R.node[p].disk
                                /\ Q.node[p].rs = R.node[p].rs /\ Q.node[p].child = R.node[p].child
             /\ \A j \in Conns : j # k => Q.conn[j] = R.conn[j]
             /\ Q.conn[k].s = R.conn[k].s /\ Q.conn[k].m = R.conn[k].m /\ Q.conn[k].sopen = R.conn[k].sopen
             /\ Q.conn[k].up = R.conn[k].up /\ Q.conn[k].out = R.conn[k].out /\ Q.conn[k].mopen = R.conn[k].mopen
             /\ Q.conn[k].buf = R.conn[k].buf /\ Q.conn[k].repl = st
<1> DEFINE L == [R.conn[k] EXCEPT !.repl = st, !.sel = 0]
           all == Append(R.node[n].slaves, k)
           N == [R.node[n] EXCEPT !.slaves = all]
           Q == Attached(R, n, k, st)
<1>1. R.node[n] \in Server /\ R.node[n].slaves \in Seq(Conns) /\ R.conn[k] \in Link
  BY Fields
<1>2. DOMAIN Q = {"node", "conn"} /\ Q.conn = [R.conn EXCEPT ![k] = L] /\ Q.node = [R.node EXCEPT ![n] = N]
  BY DEF Attached, Typed
<1>3. all \in Seq(Conns) /\ Range(all) = Range(R.node[n].slaves) \cup {k}
  BY <1>1, AppendRange
<1> HIDE DEF all, Q
<1>4. /\ L \in Link /\ L.s = R.conn[k].s /\ L.m = R.conn[k].m /\ L.sopen = R.conn[k].sopen /\ L.mopen = R.conn[k].mopen
      /\ L.repl = st /\ L.up = R.conn[k].up /\ L.out = R.conn[k].out /\ L.buf = R.conn[k].buf
  <2>1. 0 \in Db
    BY EmptyLists
  <2>2. st \in {"NONE", "WAIT_BGSAVE_START", "WAIT_BGSAVE_END", "SEND_BULK", "ONLINE"}
    BY DEF Waiters
  <2> QED
    BY <1>1, <2>1, <2>2 DEF Link
<1>5. /\ N \in Server /\ N.slaves = all /\ N.up = R.node[n].up /\ N.mh = R.node[n].mh /\ N.c = R.node[n].c
      /\ N.rs = R.node[n].rs /\ N.child = R.node[n].child /\ N.data = R.node[n].data
      /\ N.disk = R.node[n].disk
  BY <1>1, <1>3 DEF Server
<1> HIDE DEF L, N
<1>6. Typed(Q) /\ Q.conn[k] = L /\ Q.node[n] = N
      /\ (\A j \in Conns : j # k => Q.conn[j] = R.conn[j]) /\ \A p \in Node : p # n => Q.node[p] = R.node[p]
  BY <1>2, <1>4, <1>5 DEF Typed
<1>7. Attaches(R, Q, n, k)
  BY <1>3, <1>4, <1>5, <1>6 DEF Attaches
<1> QED
  BY <1>4, <1>5, <1>6, <1>7 DEF Q

LEMMA AttachedSound ==
  ASSUME NEW R, Typed(R), Linked(R), NEW n \in Node, NEW k \in Conns, NEW st \in Waiters, R.node[n].child.st # "none",
         ~Stale(R, n), R.conn[k].mopen, R.conn[k].m = n
  PROVE  Follows(R, Attached(R, n, k, st))
<1>1. R.node[n].up
  BY DEF Linked, Ends
<1> DEFINE Q == Attached(R, n, k, st)
<1>2. Typed(Q) /\ Attaches(R, Q, n, k)
  BY AttachedEffect
<1> HIDE DEF Q
<1>3. Linked(Q) /\ (Waits(R) => Waits(Q))
  BY <1>1, <1>2, AttachesSound
<1> QED
  BY <1>2, <1>3 DEF Follows, Q

\* The buffer that is copied is one of a slave that waits.
LEMMA JoinsOther ==
  ASSUME NEW R, Typed(R), NEW n \in Node, Waiting(R, n, "WAIT_BGSAVE_END") # {}
  PROVE  LET list  == R.node[n].slaves
             other == list[Min({i \in DOMAIN list : list[i] \in Waiting(R, n, "WAIT_BGSAVE_END")})]
         IN  other \in Conns /\ other \in Waiting(R, n, "WAIT_BGSAVE_END")
<1> DEFINE list == R.node[n].slaves
           W == Waiting(R, n, "WAIT_BGSAVE_END")
           S == {i \in DOMAIN list : list[i] \in W}
<1>1. list \in Seq(Conns)
  BY Fields
<1>2. PICK x \in W : TRUE
  OBVIOUS
<1>3. x \in Range(list)
  BY DEF Waiting
<1>4. PICK i \in DOMAIN list : list[i] = x
  BY <1>3 DEF Range
<1>5. S \in SUBSET Nat /\ S # {}
  BY <1>1, <1>2, <1>4
<1> HIDE DEF S
<1>6. Min(S) \in S
  BY <1>5, MinIn
<1>7. Min(S) \in DOMAIN list /\ list[Min(S)] \in W
  BY <1>6 DEF S
<1>8. list[Min(S)] \in Conns
  BY <1>1, <1>7
<1> QED
  BY <1>7, <1>8 DEF S

LEMMA JoinsSound ==
  ASSUME NEW R, Typed(R), Linked(R), NEW n \in Node, NEW k \in Conns, Waiting(R, n, "WAIT_BGSAVE_END") # {},
         R.node[n].child.st # "none", ~Stale(R, n), R.conn[k].mopen, R.conn[k].m = n
  PROVE  Follows(R, Joins(R, n, k))
<1> DEFINE list  == R.node[n].slaves
           other == list[Min({i \in DOMAIN list : list[i] \in Waiting(R, n, "WAIT_BGSAVE_END")})]
           L == [R.conn[k] EXCEPT !.buf = R.conn[other].buf]
           B == [R EXCEPT !.conn[k].buf = R.conn[other].buf]
<1>1. other \in Conns
  BY JoinsOther
<1>2. Joins(R, n, k) = Attached(B, n, k, "WAIT_BGSAVE_END")
  BY DEF Joins
<1> HIDE DEF other
<1>3. R.conn[k] \in Link /\ R.conn[other].buf \in Seq(Item)
  BY <1>1, Fields
<1>4. SetsLink(R, B, k, L)
  BY DEF SetsLink, Typed
<1>5. L \in Link /\ SameEnds(R.conn[k], L)
  BY <1>3 DEF Link, SameEnds
<1>6. L.mopen = R.conn[k].mopen /\ L.m = R.conn[k].m
  BY <1>5 DEF SameEnds
<1> HIDE DEF B, L
<1>7. Follows(R, B) /\ B.node = R.node /\ B.conn[k] = L
  BY <1>4, <1>5, LinkKeeps
<1>8. B.node[n].child.st # "none" /\ ~Stale(B, n) /\ B.conn[k].mopen /\ B.conn[k].m = n
  BY <1>6, <1>7 DEF Stale
<1>9. "WAIT_BGSAVE_END" \in Waiters
  BY DEF Waiters
<1>10. Follows(B, Attached(B, n, k, "WAIT_BGSAVE_END"))
  BY <1>7, <1>8, <1>9, AttachedSound DEF Follows
<1> QED
  BY <1>2, <1>7, <1>10, FollowsOn

LEMMA SyncSound ==
  ASSUME NEW R, Typed(R), Linked(R), NEW k \in Conns, R.conn[k].mopen, NEW forked \in BOOLEAN
  PROVE  Follows(R, syncCommand(R, R.conn[k].m, k, forked))
<1> DEFINE n == R.conn[k].m
           Q == syncCommand(R, n, k, forked)
<1>1. n \in Node /\ R.node[n].up
  BY DEF Linked, Ends
<1> HIDE DEF n
<1>2. CASE R.conn[k].repl # "NONE"
  <2>1. Q = R
    BY <1>2 DEF syncCommand
  <2> QED
    BY <2>1 DEF Follows, n
<1>3. CASE R.conn[k].repl = "NONE" /\ Stale(R, n)
  <2>1. Q = Refused(R, k)
    BY <1>3 DEF syncCommand
  <2> QED
    BY <2>1, RefusedSound DEF n
<1>4. CASE R.conn[k].repl = "NONE" /\ ~Stale(R, n) /\ R.node[n].child.st # "none"
  <2>1. R.conn[k].m = n
    BY DEF n
  <2>2. CASE Waiting(R, n, "WAIT_BGSAVE_END") # {}
    <3>1. Q = Joins(R, n, k)
      BY <1>4, <2>2 DEF syncCommand
    <3> QED
      BY <1>1, <1>4, <2>1, <2>2, <3>1, JoinsSound DEF n
  <2>3. CASE Waiting(R, n, "WAIT_BGSAVE_END") = {}
    <3>1. Q = Attached(R, n, k, "WAIT_BGSAVE_START")
      BY <1>4, <2>3 DEF syncCommand
    <3>2. "WAIT_BGSAVE_START" \in Waiters
      BY DEF Waiters
    <3> QED
      BY <1>1, <1>4, <2>1, <3>1, <3>2, AttachedSound DEF n
  <2> QED
    BY <2>2, <2>3
<1>5. CASE R.conn[k].repl = "NONE" /\ ~Stale(R, n) /\ R.node[n].child.st = "none" /\ ~forked
  <2>1. Q = Refused(R, k)
    BY <1>5 DEF syncCommand
  <2> QED
    BY <2>1, RefusedSound DEF n
<1>6. CASE R.conn[k].repl = "NONE" /\ ~Stale(R, n) /\ R.node[n].child.st = "none" /\ forked
  <2> DEFINE B == rdbSaveBackground(R, n)
  <2>1. Q = Attached(B, n, k, "WAIT_BGSAVE_END")
    BY <1>6 DEF syncCommand
  <2>2. /\ Follows(R, B) /\ B.conn = R.conn /\ B.node[n].child.st = "running"
        /\ B.node[n].mh = R.node[n].mh /\ B.node[n].rs = R.node[n].rs
    BY <1>1, SaveBeginsEffect
  <2> HIDE DEF B
  <2>3. B.node[n].child.st # "none" /\ ~Stale(B, n)
    BY <1>6, <2>2 DEF Stale
  <2>4. B.conn[k].mopen /\ B.conn[k].m = n /\ "WAIT_BGSAVE_END" \in Waiters
    BY <2>2 DEF n, Waiters
  <2>5. Follows(B, Attached(B, n, k, "WAIT_BGSAVE_END"))
    BY <1>1, <2>2, <2>3, <2>4, AttachedSound DEF Follows
  <2> QED
    BY <2>1, <2>2, <2>5, FollowsOn DEF n
<1> QED
  BY <1>2, <1>3, <1>4, <1>5, <1>6 DEF n

\* The next command is taken from the connection k.
Taken(k) == [Now EXCEPT !.conn[k].cmds = Tail(@)]
LEMMA TakenSound ==
  ASSUME Sound, NEW k \in Conns, conn[k].cmds # <<>>
  PROVE  /\ Follows(Now, Taken(k)) /\ Taken(k).node = node
         /\ Taken(k).conn[k] = [conn[k] EXCEPT !.cmds = Tail(conn[k].cmds)]
         /\ Taken(k).conn[k].mopen = conn[k].mopen /\ Taken(k).conn[k].m = conn[k].m
         /\ \A j \in Conns : j # k => Taken(k).conn[j] = conn[j]
<1> DEFINE rest == Tail(conn[k].cmds)
           L == [conn[k] EXCEPT !.cmds = rest]
<1>1. Typed(Now) /\ Linked(Now)
  BY DEF Sound
<1>2. conn[k] \in Link
  BY <1>1, NowIs, Fields
<1>3. rest \in Seq({"PING", "REPLCONF", "SYNC"})
  BY <1>2 DEF Link
<1>4. SetsLink(Now, Taken(k), k, L)
  BY DEF SetsLink, Now, Taken
<1> HIDE DEF rest
<1>5. L \in Link /\ SameEnds(conn[k], L) /\ L.mopen = conn[k].mopen /\ L.m = conn[k].m
  BY <1>2, <1>3 DEF Link, SameEnds
<1> HIDE DEF L
<1>6. /\ Follows(Now, Taken(k)) /\ Taken(k).node = node /\ Taken(k).conn[k] = L
      /\ \A j \in Conns : j # k => Taken(k).conn[j] = conn[j]
  BY <1>1, <1>4, <1>5, NowIs, LinkKeeps
<1> QED
  BY <1>5, <1>6 DEF L, rest

LEMMA CommandedSound ==
  ASSUME Sound, NEW k \in Conns, Commanded(k)
  PROVE  Keeps
<1> DEFINE R == Taken(k)
           Pong == [R EXCEPT !.conn[k] = addReply(@, <<<<"PONG">>>>)]
           Ok == [R EXCEPT !.conn[k] = addReply(@, <<<<"OK">>>>)]
<1>1. conn[k].mopen /\ conn[k].cmds # <<>>
  BY DEF Commanded
<1>2. Follows(Now, R) /\ R.conn[k].mopen /\ R.conn[k].m = conn[k].m
  BY <1>1, TakenSound
<1>3. Typed(R) /\ Linked(R)
  BY <1>2 DEF Follows
<1>4. Head(conn[k].cmds) \in {"PING", "REPLCONF", "SYNC"}
  <2>1. conn[k] \in Link
    BY NowIs, Fields DEF Sound
  <2> QED
    BY <1>1, <2>1 DEF Link
<1>5. \/ Becomes(Pong) \/ Becomes(Refused(R, k)) \/ Becomes(Ok)
      \/ Becomes(syncCommand(R, conn[k].m, k, TRUE)) \/ Becomes(syncCommand(R, conn[k].m, k, FALSE))
  BY <1>4 DEF Commanded, Taken
<1> HIDE DEF R
<1>6. Follows(R, Pong)
  <2>1. <<<<"PONG">>>> \in Seq(Item)
    BY Replies DEF Silence
  <2>2. SetsLink(R, Pong, k, addReply(R.conn[k], <<<<"PONG">>>>))
    BY <1>3 DEF SetsLink, Typed
  <2> QED
    BY <1>3, <2>1, <2>2, ReplySound
<1>7. Follows(R, Ok)
  <2>1. <<<<"OK">>>> \in Seq(Item)
    BY Replies DEF Silence
  <2>2. SetsLink(R, Ok, k, addReply(R.conn[k], <<<<"OK">>>>))
    BY <1>3 DEF SetsLink, Typed
  <2> QED
    BY <1>3, <2>1, <2>2, ReplySound
<1>8. Follows(R, Refused(R, k))
  BY <1>3, RefusedSound
<1>9. \A forked \in BOOLEAN : Follows(R, syncCommand(R, conn[k].m, k, forked))
  BY <1>2, <1>3, SyncSound
<1>10. PICK Q : Follows(R, Q) /\ Becomes(Q)
  BY <1>5, <1>6, <1>7, <1>8, <1>9
<1> QED
  BY <1>2, <1>10, FollowsOn, FollowsBecomes

LEMMA SaveEndedEffect ==
  ASSUME NEW L \in Link, NEW ok \in BOOLEAN, NEW disk \in Data
  PROVE  LET M == SaveEnded(L, ok, disk)
         IN  /\ M \in Link /\ SameEnds(L, M)
             /\ M.repl = "WAIT_BGSAVE_START" => FALSE
             /\ M.repl = "WAIT_BGSAVE_END"
                <=> L.repl = "WAIT_BGSAVE_START" \/ (L.repl = "WAIT_BGSAVE_END" /\ ~ok)
             /\ M.repl \in {"NONE", "ONLINE"} => M = L
             /\ M.buf = L.buf /\ M.out = L.out /\ M.up = L.up /\ M.cmds = L.cmds
             /\ L.repl = "WAIT_BGSAVE_END" /\ ok => M.file = disk /\ M.repl = "SEND_BULK"
             /\ L.repl \notin Waiters => M = L
<1> DEFINE M == SaveEnded(L, ok, disk)
<1>1. CASE L.repl = "WAIT_BGSAVE_START"
  <2>1. M = [L EXCEPT !.repl = "WAIT_BGSAVE_END"]
    BY <1>1 DEF SaveEnded
  <2> HIDE DEF M
  <2>2. M \in Link /\ M.repl = "WAIT_BGSAVE_END"
    BY <2>1 DEF Link
  <2>3. /\ M.s = L.s /\ M.m = L.m /\ M.sopen = L.sopen /\ M.mopen = L.mopen
        /\ M.buf = L.buf /\ M.out = L.out /\ M.up = L.up /\ M.cmds = L.cmds
    BY <2>1 DEF Link
  <2> QED
    BY <1>1, <2>2, <2>3 DEF SameEnds, Waiters, M
<1>2. CASE L.repl = "WAIT_BGSAVE_END" /\ ok
  <2>1. M = [L EXCEPT !.repl = "SEND_BULK", !.file = disk, !.sent = FALSE]
    BY <1>2 DEF SaveEnded
  <2> HIDE DEF M
  <2>2. M \in Link /\ M.repl = "SEND_BULK" /\ M.file = disk
    BY <2>1 DEF Link
  <2>3. /\ M.s = L.s /\ M.m = L.m /\ M.sopen = L.sopen /\ M.mopen = L.mopen
        /\ M.buf = L.buf /\ M.out = L.out /\ M.up = L.up /\ M.cmds = L.cmds
    BY <2>1 DEF Link
  <2> QED
    BY <1>2, <2>2, <2>3 DEF SameEnds, Waiters, M
<1>3. CASE L.repl # "WAIT_BGSAVE_START" /\ ~(L.repl = "WAIT_BGSAVE_END" /\ ok)
  <2>1. M = L
    BY <1>3 DEF SaveEnded
  <2> HIDE DEF M
  <2> QED
    BY <1>3, <2>1 DEF SameEnds, Waiters, M
<1> QED
  BY <1>1, <1>2, <1>3

\* Every slave of n is told, the connections that wait are those that wait for the next save, or
\* those that are closed.
LEMMA ToldEffect ==
  ASSUME NEW R, Typed(R), Linked(R), NEW n \in Node, NEW ok \in BOOLEAN, NEW E,
         E = [R EXCEPT !.conn = [k \in Conns |-> IF k \in Range(R.node[n].slaves)
                                                 THEN SaveEnded(R.conn[k], ok, R.node[n].disk) ELSE R.conn[k]]]
  PROVE  /\ Typed(E) /\ Linked(E) /\ E.node = R.node
         /\ \A k \in Conns : /\ SameEnds(R.conn[k], E.conn[k])
                             /\ k \in Range(R.node[n].slaves) => E.conn[k] = SaveEnded(R.conn[k], ok, R.node[n].disk)
                             /\ k \notin Range(R.node[n].slaves) => E.conn[k] = R.conn[k]
<1>1. /\ DOMAIN E = {"node", "conn"} /\ E.node = R.node
      /\ E.conn = [k \in Conns |-> IF k \in Range(R.node[n].slaves)
                                   THEN SaveEnded(R.conn[k], ok, R.node[n].disk) ELSE R.conn[k]]
  BY DEF Typed
<1>2. ASSUME NEW k \in Conns
      PROVE  /\ E.conn[k] \in Link /\ SameEnds(R.conn[k], E.conn[k])
             /\ k \in Range(R.node[n].slaves) => E.conn[k] = SaveEnded(R.conn[k], ok, R.node[n].disk)
             /\ k \notin Range(R.node[n].slaves) => E.conn[k] = R.conn[k]
  <2>1. R.conn[k] \in Link /\ R.node[n].disk \in Data
    BY Fields
  <2>2. /\ k \in Range(R.node[n].slaves) => E.conn[k] = SaveEnded(R.conn[k], ok, R.node[n].disk)
        /\ k \notin Range(R.node[n].slaves) => E.conn[k] = R.conn[k]
    BY <1>1
  <2>3. CASE k \in Range(R.node[n].slaves)
    BY <2>1, <2>2, <2>3, SaveEndedEffect
  <2>4. CASE k \notin Range(R.node[n].slaves)
    BY <2>1, <2>2, <2>4 DEF SameEnds
  <2> QED
    BY <2>3, <2>4
<1>3. Typed(E)
  <2>1. E.conn \in [Conns -> Link]
    BY <1>1, <1>2
  <2> QED
    BY <1>1, <2>1 DEF Typed
<1>4. SameLinks(R, E)
  <2>1. \A k \in Conns : SameEnds(R.conn[k], E.conn[k])
    BY <1>2
  <2> QED
    BY <1>1, <2>1 DEF SameLinks, SameEnds
<1> QED
  BY <1>1, <1>2, <1>3, <1>4, SameLinksSound

LEMMA SlavesToldEffect ==
  ASSUME NEW R, Typed(R), Linked(R), NEW n \in Node, NEW ok \in BOOLEAN
  PROVE  LET Q == SlavesTold(R, n, ok)
         IN  /\ Typed(Q) /\ Linked(Q)
             /\ \A p \in Node : /\ Q.node[p].up = R.node[p].up /\ Q.node[p].child = R.node[p].child
                                /\ Q.node[p].data = R.node[p].data /\ Q.node[p].disk = R.node[p].disk
                                /\ p # n => Q.node[p] = R.node[p]
             /\ \A k \in Conns : /\ Q.conn[k].m = R.conn[k].m
                                 /\ Q.conn[k].mopen => R.conn[k].mopen
                                 /\ Q.conn[k].mopen /\ Q.conn[k].repl \in Waiters /\ Q.conn[k].m = n
                                    => k \in Waiting(R, n, "WAIT_BGSAVE_START")
                                 /\ Q.conn[k].repl \in Waiters => R.conn[k].repl \in Waiters
<1> DEFINE E == [R EXCEPT !.conn = [k \in Conns |-> IF k \in Range(R.node[n].slaves)
                                                    THEN SaveEnded(R.conn[k], ok, R.node[n].disk) ELSE R.conn[k]]]
           W == Waiting(R, n, "WAIT_BGSAVE_END")
           Q == SlavesTold(R, n, ok)
<1>1. Q = IF ok THEN E ELSE MasterCloses(E, n, W)
  BY DEF SlavesTold
<1> HIDE DEF E, Q
<1>2. /\ Typed(E) /\ Linked(E) /\ E.node = R.node
      /\ \A k \in Conns : /\ SameEnds(R.conn[k], E.conn[k])
                          /\ k \in Range(R.node[n].slaves) => E.conn[k] = SaveEnded(R.conn[k], ok, R.node[n].disk)
                          /\ k \notin Range(R.node[n].slaves) => E.conn[k] = R.conn[k]
  BY ToldEffect DEF E
<1>3. ASSUME NEW k \in Conns, E.conn[k].mopen, E.conn[k].repl \in Waiters, E.conn[k].m = n
      PROVE  k \in Waiting(R, n, "WAIT_BGSAVE_START") \/ (~ok /\ k \in W)
  <2>1. R.conn[k].mopen /\ R.conn[k].repl \in Waiters /\ R.conn[k].m = n
    BY <1>2, <1>3 DEF SameEnds
  <2>2. k \in Range(R.node[n].slaves)
    BY <2>1 DEF Linked, Ends, Waiters
  <2>3. E.conn[k] = SaveEnded(R.conn[k], ok, R.node[n].disk)
    BY <1>2, <2>2
  <2>4. R.conn[k] \in Link /\ R.node[n].disk \in Data
    BY Fields
  <2>5. R.conn[k].repl = "WAIT_BGSAVE_START" \/ (R.conn[k].repl = "WAIT_BGSAVE_END" /\ ~ok)
    BY <1>3, <2>3, <2>4, SaveEndedEffect DEF Waiters
  <2> QED
    BY <2>2, <2>5 DEF Waiting
<1>4. CASE ok
  <2>1. Q = E
    BY <1>1, <1>4
  <2> QED
    BY <1>2, <1>3, <1>4, <2>1 DEF SameEnds, Q
<1>5. CASE ~ok
  <2>1. Q = MasterCloses(E, n, W)
    BY <1>1, <1>5
  <2>2. Typed(Q) /\ Closes(E, Q, n, W)
    BY <1>2, <2>1, MasterClosesEffect
  <2>3. \A k \in W : k \in Conns /\ E.conn[k].m = n
    BY <1>2 DEF Linked, SlavesKnown, Waiting
  <2>4. Linked(Q)
    BY <1>2, <2>2, <2>3, ClosesSound
  <2>5. \A p \in Node : /\ Q.node[p].up = R.node[p].up /\ Q.node[p].child = R.node[p].child
                        /\ Q.node[p].data = R.node[p].data /\ Q.node[p].disk = R.node[p].disk
                        /\ p # n => Q.node[p] = R.node[p]
    BY <1>2, <2>2 DEF Closes
  <2>6. \A k \in Conns : /\ Q.conn[k].m = E.conn[k].m /\ Q.conn[k].repl = E.conn[k].repl
                         /\ Q.conn[k].mopen <=> E.conn[k].mopen /\ k \notin W
    BY <2>2 DEF Closes
  <2> QED
    BY <1>2, <1>3, <2>2, <2>4, <2>5, <2>6 DEF SameEnds, Q
<1> QED
  BY <1>4, <1>5

LEMMA Spent ==
  ASSUME left \in [Fault -> Nat], NEW what \in Fault, Spend(what)
  PROVE  /\ left' \in [Fault -> Nat] /\ left[what] > 0 /\ left'[what] = left[what] - 1
         /\ \A x \in Fault : x # what => left'[x] = left[x]
<1>1. left[what] \in Nat /\ left[what] > 0 /\ left' = [left EXCEPT ![what] = left[what] - 1]
  BY DEF Spend
<1>2. left[what] - 1 \in Nat
  BY <1>1
<1> QED
  BY <1>1, <1>2

LEMMA SaveDoneSound ==
  ASSUME Sound, left \in [Fault -> Nat], NEW n \in Node, backgroundSaveDoneHandler(n)
  PROVE  Sound' /\ (Waits(Now) /\ left'["laterfork"] = left["laterfork"] => Waits(Now)')
<1> DEFINE ok == node[n].child.st = "ok"
           N == [node[n] EXCEPT !.child = NoChild]
           R == [Now EXCEPT !.node[n].child = NoChild]
           T == SlavesTold(R, n, ok)
           starts == Waiting(R, n, "WAIT_BGSAVE_START")
<1>1. Typed(Now) /\ Linked(Now) /\ node[n] \in Server
  BY NowIs, Fields DEF Sound
<1>2. node[n].up
  BY <1>1, NowIs DEF Linked, Modes, backgroundSaveDoneHandler
<1>3. /\ N \in Server /\ N.up = node[n].up /\ N.mh = node[n].mh /\ N.c = node[n].c /\ N.slaves = node[n].slaves
      /\ N.rs = node[n].rs /\ N.child.st = "none"
  BY <1>1, EmptyLists DEF Server, NoChild
<1>4. SetsServer(Now, R, n, N)
  BY DEF SetsServer, Now
<1>5. \/ Becomes(updateSlavesWaitingBgsave(R, n, ok, TRUE))
      \/ starts # {} /\ Becomes(updateSlavesWaitingBgsave(R, n, ok, FALSE)) /\ Spend("laterfork")
  BY DEF backgroundSaveDoneHandler
<1> HIDE DEF N, R, ok
<1>6. /\ Typed(R) /\ R.conn = conn /\ R.node[n] = N
      /\ \A p \in Node : p # n => R.node[p] = node[p]
  BY <1>1, <1>3, <1>4, NowIs, ServerSet
<1>7. Linked(R)
  <2>1. SameLinks(Now, R)
    BY <1>2, <1>3, <1>6, NowIs DEF SameLinks
  <2> QED
    BY <1>1, <1>6, <2>1, SameLinksSound
<1>8. ok \in BOOLEAN
  BY DEF ok
<1>9. /\ Typed(T) /\ Linked(T)
      /\ \A p \in Node : /\ T.node[p].up = R.node[p].up /\ T.node[p].child = R.node[p].child
                         /\ p # n => T.node[p] = R.node[p]
      /\ \A k \in Conns : /\ T.conn[k].m = R.conn[k].m
                          /\ T.conn[k].mopen => R.conn[k].mopen
                          /\ T.conn[k].mopen /\ T.conn[k].repl \in Waiters /\ T.conn[k].m = n => k \in starts
                          /\ T.conn[k].repl \in Waiters => R.conn[k].repl \in Waiters
  BY <1>6, <1>7, <1>8, SlavesToldEffect
<1> HIDE DEF T
<1>10. \A forked : updateSlavesWaitingBgsave(R, n, ok, forked)
                   = IF starts = {} THEN T
                     ELSE IF forked THEN rdbSaveBackground(T, n)
                     ELSE MasterCloses(T, n, Waiting(T, n, "WAIT_BGSAVE_START"))
  BY DEF updateSlavesWaitingBgsave, T
\* Who waits elsewhere still has a child to wait for.
<1>11. ASSUME Waits(Now), NEW k \in Conns, T.conn[k].mopen, T.conn[k].repl \in Waiters, T.conn[k].m # n
       PROVE  T.node[T.conn[k].m].child.st # "none"
  <2>1. conn[k].mopen /\ conn[k].repl \in Waiters /\ conn[k].m = T.conn[k].m
    BY <1>6, <1>9, <1>11
  <2>2. conn[k].m \in Node
    BY <1>1, <2>1, NowIs DEF Linked, Ends
  <2>3. node[conn[k].m].child.st # "none"
    BY <1>11, <2>1, NowIs DEF Waits, Waiters
  <2> QED
    BY <1>6, <1>9, <1>11, <2>1, <2>2, <2>3
<1>12. CASE starts = {} /\ Becomes(T)
  <2>1. ASSUME Waits(Now) PROVE Waits(T)
    <3> SUFFICES ASSUME NEW k \in Conns, T.conn[k].mopen, T.conn[k].repl \in Waiters
                 PROVE  T.node[T.conn[k].m].child.st # "none"
      BY DEF Waits, Waiters
    <3>1. T.conn[k].m # n
      BY <1>9, <1>12
    <3> QED
      BY <1>11, <2>1, <3>1
  <2> QED
    BY <1>9, <1>12, <2>1, BecomesSound
<1>13. CASE starts # {} /\ Becomes(rdbSaveBackground(T, n))
  <2> DEFINE Q == rdbSaveBackground(T, n)
  <2>1. T.node[n].up
    BY <1>2, <1>3, <1>6, <1>9
  <2>2. /\ Follows(T, Q) /\ Q.conn = T.conn /\ Q.node[n].child.st = "running"
        /\ \A p \in Node : p # n => Q.node[p] = T.node[p]
    BY <1>9, <2>1, SaveBeginsEffect
  <2> HIDE DEF Q
  <2>3. ASSUME Waits(Now) PROVE Waits(Q)
    <3> SUFFICES ASSUME NEW k \in Conns, Q.conn[k].mopen, Q.conn[k].repl \in Waiters
                 PROVE  Q.node[Q.conn[k].m].child.st # "none"
      BY DEF Waits, Waiters
    <3>1. Q.conn[k].m \in Node
      BY <2>2 DEF Follows, Linked, Ends
    <3> QED
      BY <1>11, <2>2, <2>3, <3>1
  <2>4. Becomes(Q)
    BY <1>13 DEF Q
  <2> QED
    BY <2>2, <2>3, <2>4, BecomesSound DEF Follows
<1>14. CASE starts # {} /\ Spend("laterfork") /\ Becomes(MasterCloses(T, n, Waiting(T, n, "WAIT_BGSAVE_START")))
  <2> DEFINE W == Waiting(T, n, "WAIT_BGSAVE_START")
             Q == MasterCloses(T, n, W)
  <2>1. \A k \in W : k \in Conns /\ T.conn[k].m = n
    BY <1>9 DEF Linked, SlavesKnown, Waiting
  <2>2. Typed(Q) /\ Closes(T, Q, n, W)
    BY <1>9, MasterClosesEffect
  <2>3. Becomes(Q)
    BY <1>14
  <2> HIDE DEF Q, W
  <2>4. Linked(Q)
    BY <1>9, <2>1, <2>2, ClosesSound
  <2>5. left'["laterfork"] # left["laterfork"]
    <3>1. "laterfork" \in Fault
      BY DEF Fault
    <3> QED
      BY <1>14, <3>1, Spent
  <2> QED
    BY <2>2, <2>3, <2>4, <2>5, BecomesSound
<1> QED
  BY <1>5, <1>10, <1>12, <1>13, <1>14

LEMMA BgsaveSound ==
  ASSUME Sound, NEW n \in Node, bgsaveCommand(n)
  PROVE  Keeps
<1>1. Typed(Now) /\ Linked(Now) /\ Now.node[n].up
  BY NowIs DEF Sound, bgsaveCommand
<1>2. Follows(Now, rdbSaveBackground(Now, n))
  BY <1>1, SaveBeginsEffect
<1> QED
  BY <1>2, FollowsBecomes DEF bgsaveCommand

LEMMA ChildExitsSound ==
  ASSUME Sound, NEW n \in Node, ChildExits(n)
  PROVE  Keeps
<1> DEFINE Q == [node |-> node', conn |-> conn']
           C1 == [node[n].child EXCEPT !.st = "ok"]
           C2 == [node[n].child EXCEPT !.st = "failed"]
           N1 == [node[n] EXCEPT !.child = C1, !.disk = node[n].child.snap]
           N2 == [node[n] EXCEPT !.child = C2]
<1>1. Typed(Now) /\ Linked(Now) /\ node[n] \in Server /\ node[n].child \in Child /\ node \in [Node -> Server]
  BY NowIs, Fields DEF Sound, Typed
<1>2. node[n].child.st = "running" /\ conn' = conn
  BY DEF ChildExits
<1>3. node[n].up
  BY <1>1, <1>2, NowIs DEF Linked, Modes
<1>4. /\ C1 \in Child /\ C1.st # "none" /\ C2 \in Child /\ C2.st # "none" /\ node[n].child.snap \in Data
  BY <1>1 DEF Child
<1>5. node' = [node EXCEPT ![n] = N1] \/ node' = [node EXCEPT ![n] = N2]
  <2>1. \/ node' = [node EXCEPT ![n].child.st = "ok", ![n].disk = node[n].child.snap]
        \/ node' = [node EXCEPT ![n].child.st = "failed"]
    BY DEF ChildExits
  <2>2. [node EXCEPT ![n].child.st = "ok", ![n].disk = node[n].child.snap] = [node EXCEPT ![n] = N1]
    BY <1>1 DEF Server, Child
  <2> QED
    BY <2>1, <2>2
<1> HIDE DEF C1, C2
<1>6. /\ N1 \in Server /\ N1.child = C1 /\ N2 \in Server /\ N2.child = C2
      /\ \A N \in {N1, N2} : /\ N.up = node[n].up /\ N.mh = node[n].mh /\ N.c = node[n].c
                             /\ N.slaves = node[n].slaves /\ N.rs = node[n].rs
  BY <1>1, <1>4 DEF Server
<1> HIDE DEF N1, N2
<1>7. PICK N \in {N1, N2} : node' = [node EXCEPT ![n] = N]
  BY <1>5
<1>8. N \in Server /\ N.child.st # "none"
  BY <1>4, <1>6, <1>7
<1>9. SetsServer(Now, Q, n, N)
  BY <1>2, <1>7, NowIs DEF SetsServer
<1> HIDE DEF Q
<1>10. /\ Typed(Q) /\ Q.conn = conn /\ Q.node[n] = N
       /\ \A p \in Node : p # n => Q.node[p] = node[p]
  BY <1>1, <1>8, <1>9, NowIs, ServerSet
<1>11. SameLinks(Now, Q) /\ SameWaits(Now, Q)
  BY <1>3, <1>6, <1>7, <1>8, <1>10, NowIs DEF SameLinks, SameWaits
<1>12. Follows(Now, Q)
  BY <1>1, <1>10, <1>11, SameLinksSound DEF Follows
<1> QED
  BY <1>12, PrimedSound DEF Q

LEMMA SendBulkSound ==
  ASSUME Sound, NEW k \in Conns, sendBulkToSlave(k)
  PROVE  Keeps
<1> DEFINE L == conn[k]
           part == L.out \o <<<<"SIZE">>, <<"PART">>>>
           last == Append(L.out, <<"LAST", L.file>>) \o L.buf
           M1 == [L EXCEPT !.out = part, !.sent = TRUE]
           M2 == [L EXCEPT !.out = last, !.buf = <<>>, !.repl = "ONLINE", !.file = <<>>]
           M == IF ~L.sent THEN M1 ELSE M2
           Q == [Now EXCEPT !.conn[k] = M]
<1>1. Typed(Now) /\ Linked(Now) /\ L \in Link /\ L.repl = "SEND_BULK"
  BY NowIs, Fields DEF Sound, sendBulkToSlave
<1>2. Becomes(Q)
  BY DEF sendBulkToSlave
<1>3. part \in Seq(Item)
  <2>1. <<"SIZE">> \in Item /\ <<"PART">> \in Item /\ L.out \in Seq(Item)
    BY <1>1, Replies DEF Silence, Link
  <2> QED
    BY <2>1
<1>4. last \in Seq(Item)
  <2>1. <<"LAST", L.file>> \in Item /\ L.out \in Seq(Item) /\ L.buf \in Seq(Item)
    BY <1>1 DEF Item, Link
  <2>2. Append(L.out, <<"LAST", L.file>>) \in Seq(Item)
    BY <2>1
  <2> QED
    BY <2>1, <2>2, ConcatProperties
<1>5. SetsLink(Now, Q, k, M)
  BY DEF SetsLink, Now
<1> HIDE DEF part, last, L, Q
<1>6. M1 \in Link /\ SameEnds(L, M1) /\ M2 \in Link /\ SameEnds(L, M2)
  BY <1>1, <1>3, <1>4, EmptyLists DEF Link, SameEnds, Waiters
<1>7. M \in Link /\ SameEnds(L, M)
  BY <1>6
<1> HIDE DEF M
<1>8. Follows(Now, Q)
  BY <1>1, <1>5, <1>7, NowIs, LinkKeeps DEF L
<1> QED
  BY <1>2, <1>8, FollowsBecomes

LEMMA ClientLostSound ==
  ASSUME Sound, NEW k \in Conns, ClientLost(k)
  PROVE  Keeps
<1> DEFINE n == conn[k].m
           Q == MasterCloses(Now, n, {k})
<1>1. Typed(Now) /\ Linked(Now) /\ n \in Node /\ Becomes(Q)
  BY NowIs DEF Sound, ClientLost, Linked, Ends
<1>2. Typed(Q) /\ Closes(Now, Q, n, {k})
  BY <1>1, MasterClosesEffect
<1> HIDE DEF Q
<1>3. \A j \in {k} : j \in Conns /\ Now.conn[j].m = n
  BY NowIs
<1>4. Linked(Q) /\ (Waits(Now) => Waits(Q))
  BY <1>1, <1>2, <1>3, ClosesSound
<1> QED
  BY <1>1, <1>2, <1>4, BecomesSound DEF Keeps

LEMMA WrittenSound ==
  ASSUME NEW R, Typed(R), Linked(R), NEW n \in Node, NEW d \in Db, NEW w \in Nat
  PROVE  Follows(R, Written(R, n, d, w))
<1> DEFINE Q == Written(R, n, d, w)
<1>1. Typed(Q) /\ SameLinks(R, Q) /\ SameWaits(R, Q)
  BY WrittenEffect
<1> HIDE DEF Q
<1>2. Follows(R, Q)
  BY <1>1, SameLinksSound DEF Follows
<1> QED
  BY <1>2 DEF Q

LEMMA WriteSound ==
  ASSUME Sound, writes \in Nat, NEW n \in Node, NEW d \in Db, Write(n, d)
  PROVE  Keeps
<1>1. Typed(Now) /\ Linked(Now) /\ Becomes(Written(Now, n, d, writes + 1)) /\ writes + 1 \in Nat
  BY DEF Sound, Write
<1>2. Follows(Now, Written(Now, n, d, writes + 1))
  BY <1>1, WrittenSound
<1> QED
  BY <1>1, <1>2, FollowsBecomes

\* The slaves of n are pinged.
LEMMA PingsSound ==
  ASSUME NEW R, Typed(R), Linked(R), NEW n \in Node, NEW Q,
         Q = [R EXCEPT !.conn = [k \in Conns |-> IF k \in Range(R.node[n].slaves) THEN Pinged(R.conn[k])
                                                 ELSE R.conn[k]]]
  PROVE  Follows(R, Q)
<1>1. /\ DOMAIN Q = {"node", "conn"} /\ Q.node = R.node
      /\ Q.conn = [k \in Conns |-> IF k \in Range(R.node[n].slaves) THEN Pinged(R.conn[k]) ELSE R.conn[k]]
  BY DEF Typed
<1>2. ASSUME NEW k \in Conns PROVE Q.conn[k] \in Link /\ SameEnds(R.conn[k], Q.conn[k])
  <2>1. R.conn[k] \in Link
    BY Fields
  <2>2. Q.conn[k] = Pinged(R.conn[k]) \/ Q.conn[k] = R.conn[k]
    BY <1>1
  <2>3. SameEnds(R.conn[k], Pinged(R.conn[k])) /\ Pinged(R.conn[k]) \in Link
    BY <2>1, PingedEffect DEF SameEnds
  <2> QED
    BY <2>1, <2>2, <2>3 DEF SameEnds
<1>3. Typed(Q)
  <2>1. Q.conn \in [Conns -> Link]
    BY <1>1, <1>2
  <2> QED
    BY <1>1, <2>1 DEF Typed
<1>4. SameLinks(R, Q) /\ SameWaits(R, Q)
  <2>1. \A k \in Conns : SameEnds(R.conn[k], Q.conn[k])
    BY <1>2
  <2> QED
    BY <1>1, <2>1 DEF SameLinks, SameWaits, SameEnds
<1> QED
  BY <1>3, <1>4, SameLinksSound DEF Follows

LEMMA CronSound ==
  ASSUME Sound, NEW n \in Node, NEW late \in BOOLEAN, NEW ping \in BOOLEAN, replicationCron(n, late, ping)
  PROVE  Keeps
<1> DEFINE T == IF late THEN LinkLost(Now, n) ELSE Now
           C == IF T.node[n].rs = "CONNECT" /\ FreeConns(T, n) # {} THEN connectWithMaster(T, n) ELSE T
           P == IF ping THEN [C EXCEPT !.conn = [k \in Conns |-> IF k \in Range(C.node[n].slaves) THEN Pinged(C.conn[k])
                                                                 ELSE C.conn[k]]] ELSE C
<1>1. Typed(Now) /\ Linked(Now) /\ node[n].up
  BY DEF Sound, replicationCron
<1>2. Becomes(P) /\ (late => node[n].rs \in Busy \cup {"CONNECTED"})
  BY DEF replicationCron, Limited, Busy
<1>3. Follows(Now, T) /\ T.node[n].up
  <2>1. CASE ~late
    BY <1>1, <2>1, NowIs DEF Follows
  <2>2. CASE late
    <3> DEFINE L == LinkLost(Now, n)
    <3>1. /\ Typed(L) /\ Linked(L) /\ (Waits(Now) => Waits(L))
          /\ Leaves(Now, L, n, node[n].rs = "CONNECTED")
      BY <1>1, <1>2, <2>2, NowIs, LinkLostSound
    <3> HIDE DEF L
    <3>2. L.node[n].up
      BY <1>1, <3>1, NowIs DEF Leaves
    <3> QED
      BY <2>2, <3>1, <3>2 DEF Follows, L
  <2> QED
    BY <2>1, <2>2
<1> HIDE DEF T
<1>4. Follows(T, C)
  <2>1. CASE T.node[n].rs = "CONNECT" /\ FreeConns(T, n) # {}
    <3> DEFINE K == connectWithMaster(T, n)
    <3>1. Typed(T) /\ Linked(T)
      BY <1>3 DEF Follows
    <3>2. Typed(K) /\ Linked(K) /\ (Waits(T) => Waits(K))
      BY <1>3, <2>1, <3>1, ConnectSound
    <3> HIDE DEF K
    <3> QED
      BY <2>1, <3>2 DEF Follows, K
  <2>2. CASE ~(T.node[n].rs = "CONNECT" /\ FreeConns(T, n) # {})
    BY <1>3, <2>2 DEF Follows
  <2> QED
    BY <2>1, <2>2
<1> HIDE DEF C
<1>5. Follows(C, P)
  <2>1. Typed(C) /\ Linked(C)
    BY <1>4 DEF Follows
  <2>2. CASE ping
    <3>1. P = [C EXCEPT !.conn = [k \in Conns |-> IF k \in Range(C.node[n].slaves) THEN Pinged(C.conn[k])
                                                  ELSE C.conn[k]]]
      BY <2>2
    <3> HIDE DEF P
    <3> QED
      BY <2>1, <3>1, PingsSound
  <2>3. CASE ~ping
    BY <2>1, <2>3 DEF Follows
  <2> QED
    BY <2>2, <2>3
<1> HIDE DEF P
<1> QED
  BY <1>2, <1>3, <1>4, <1>5, FollowsOn, FollowsBecomes

----------------------------------------------------------------------------
\* The slave.

\* A server with a connection to its master is up; while it waits for a dataset it has no slaves.
LEMMA Linking ==
  ASSUME NEW R, Typed(R), Linked(R), NEW n \in Node
  PROVE  /\ R.node[n].rs # "NONE" => R.node[n].up /\ R.node[n].mh \in Node
         /\ R.node[n].rs \in Busy \cup {"CONNECTED"} <=> R.node[n].c # 0
         /\ R.node[n].c # 0 <=> R.node[n].c \in Conns
         /\ R.node[n].rs \in Busy \cup {"CONNECT"} => R.node[n].slaves = <<>>
         /\ R.node[n].c # 0 => R.conn[R.node[n].c].s = n /\ R.conn[R.node[n].c].m = R.node[n].mh
<1>1. R.node[n].c \in Conns \cup {0} /\ 0 \notin Conns /\ R.node[n].mh \in Node \cup {Nil}
  BY Fields
<1>2. R.node[n].rs # "NONE" => R.node[n].up /\ R.node[n].mh \in Node
  BY <1>1 DEF Linked, Modes
<1>3. R.node[n].rs \in Busy \cup {"CONNECT"} => R.node[n].slaves = <<>>
  <2>1. R.node[n].rs \in Busy \cup {"CONNECT"} => R.node[n].rs # "CONNECTED" /\ R.node[n].rs # "NONE"
    BY DEF Busy, Handshake
  <2> QED
    BY <1>2, <2>1, ReplicationAssumption DEF Linked, Current, Stale
<1>4. R.node[n].rs \in Busy \cup {"CONNECTED"} <=> R.node[n].c # 0
  BY DEF Linked, Modes, Busy
<1> QED
  BY <1>1, <1>2, <1>3, <1>4 DEF Linked, MasterKnown

LEMMA BackToConnectSound ==
  ASSUME NEW R, Typed(R), Linked(R), NEW n \in Node, R.node[n].rs \in Busy
  PROVE  Follows(R, BackToConnect(R, n))
<1> DEFINE Q == BackToConnect(R, n)
<1>1. R.node[n].up /\ R.node[n].c \in Conns /\ R.node[n].slaves = <<>> /\ R.node[n].mh # Nil
  <2>1. R.node[n].rs # "NONE"
    BY DEF Busy, Handshake
  <2> QED
    BY <2>1, Linking, ReplicationAssumption
<1>2. Typed(Q) /\ Leaves(R, Q, n, FALSE) /\ Q.node[n].mh = R.node[n].mh /\ Q.node[n].rs = "CONNECT"
  BY <1>1, BackToConnectEffect
<1> HIDE DEF Q
<1>3. Linked(Q) /\ (Waits(R) => Waits(Q))
  BY <1>1, <1>2, LeavesSound
<1> QED
  BY <1>2, <1>3 DEF Follows, Q

\* What the slave reads first is taken from its connection.
LEMMA ConsumedSound ==
  ASSUME Sound, NEW n \in Node, node[n].c \in Conns, conn[node[n].c].out # <<>>
  PROVE  LET c == node[n].c
             R == Consumed(n)
         IN  /\ Follows(Now, R) /\ R.node = node
             /\ R.conn[c] = [conn[c] EXCEPT !.out = Tail(conn[c].out)]
             /\ \A j \in Conns : j # c => R.conn[j] = conn[j]
             /\ Next1(c) \in Item
<1> DEFINE c == node[n].c
           rest == Tail(conn[c].out)
           L == [conn[c] EXCEPT !.out = rest]
           R == Consumed(n)
<1>1. Typed(Now) /\ Linked(Now)
  BY DEF Sound
<1>2. conn[c] \in Link /\ conn[c].out \in Seq(Item)
  BY <1>1, NowIs, Fields
<1>3. rest \in Seq(Item) /\ Next1(c) \in Item
  BY <1>2 DEF Next1
<1>4. SetsLink(Now, R, c, L)
  BY DEF SetsLink, Now, Consumed
<1> HIDE DEF rest, R
<1>5. L \in Link /\ SameEnds(conn[c], L)
  BY <1>2, <1>3 DEF Link, SameEnds
<1> HIDE DEF L
<1>6. /\ Follows(Now, R) /\ R.node = node /\ R.conn[c] = L
      /\ \A j \in Conns : j # c => R.conn[j] = conn[j]
  BY <1>1, <1>4, <1>5, NowIs, LinkKeeps
<1> QED
  BY <1>3, <1>6 DEF L, R, rest

LEMMA SendsSound ==
  ASSUME NEW R, Typed(R), Linked(R), NEW n \in Node, node[n].c \in Conns,
         NEW cmds \in Seq({"PING", "REPLCONF", "SYNC"})
  PROVE  LET c == node[n].c
             Q == Sends(R, n, cmds)
         IN  /\ Follows(R, Q) /\ Q.node = R.node
             /\ \A j \in Conns : j # c => Q.conn[j] = R.conn[j]
             /\ \/ Q.conn[c] = R.conn[c]
                \/ Q.conn[c] = [R.conn[c] EXCEPT !.cmds = R.conn[c].cmds \o cmds]
<1> DEFINE c == node[n].c
           all == R.conn[c].cmds \o cmds
           L == [R.conn[c] EXCEPT !.cmds = all]
           Q == Sends(R, n, cmds)
<1>1. CASE ~R.conn[c].up
  <2>1. Q = R
    BY <1>1 DEF Sends
  <2> QED
    BY <2>1 DEF Follows
<1>2. CASE R.conn[c].up
  <2>1. R.conn[c] \in Link
    BY Fields
  <2>2. all \in Seq({"PING", "REPLCONF", "SYNC"})
    <3>1. R.conn[c].cmds \in Seq({"PING", "REPLCONF", "SYNC"})
      BY <2>1 DEF Link
    <3> QED
      BY <3>1, ConcatProperties
  <2>3. SetsLink(R, Q, c, L)
    BY <1>2 DEF SetsLink, Sends, Typed
  <2> HIDE DEF all, Q
  <2>4. L \in Link /\ SameEnds(R.conn[c], L)
    BY <2>1, <2>2 DEF Link, SameEnds
  <2> HIDE DEF L
  <2>5. /\ Follows(R, Q) /\ Q.node = R.node /\ Q.conn[c] = L
        /\ \A j \in Conns : j # c => Q.conn[j] = R.conn[j]
    BY <2>3, <2>4, LinkKeeps
  <2> QED
    BY <2>5 DEF L, Q, all
<1> QED
  BY <1>1, <1>2

LEMMA SyncConnectedSound ==
  ASSUME Sound, NEW n \in Node, syncConnected(n)
  PROVE  Keeps
<1>1. Typed(Now) /\ Linked(Now) /\ node[n].rs = "CONNECTING" /\ node[n].rs \in Busy
  BY DEF Sound, syncConnected, Busy, Handshake
<1>2. node[n].c \in Conns
  BY <1>1, NowIs, Linking
<1>3. CASE Eof(n)
  <2>1. Becomes(BackToConnect(Now, n))
    BY <1>3 DEF syncConnected
  <2> QED
    BY <1>1, <2>1, NowIs, BackToConnectSound, FollowsBecomes
<1>4. CASE ~Eof(n)
  <2> DEFINE S == Sends(Now, n, <<"PING">>)
             N == [S.node[n] EXCEPT !.rs = "RECEIVE_PONG"]
             Q == [S EXCEPT !.node[n].rs = "RECEIVE_PONG"]
  <2>1. Becomes(Q)
    BY <1>4 DEF syncConnected
  <2>2. Follows(Now, S) /\ S.node = node
    <3>1. <<"PING">> \in Seq({"PING", "REPLCONF", "SYNC"})
      OBVIOUS
    <3>2. Follows(Now, S) /\ S.node = Now.node
      BY <1>1, <1>2, <3>1, SendsSound
    <3> HIDE DEF S
    <3> QED
      BY <3>2, NowIs
  <2> HIDE DEF S
  <2>3. Typed(S) /\ Linked(S) /\ S.node[n] \in Server
    BY <2>2, Fields DEF Follows
  <2>4. N \in Server /\ SameTies(S.node[n], N)
    BY <1>1, <2>2, <2>3 DEF Server, SameTies, Busy, Handshake
  <2>5. SetsServer(S, Q, n, N)
    BY <2>3 DEF SetsServer, Typed
  <2> HIDE DEF N, Q
  <2>6. Follows(S, Q)
    BY <2>3, <2>4, <2>5, ServerKeeps
  <2> QED
    BY <2>1, <2>2, <2>6, FollowsOn, FollowsBecomes
<1> QED
  BY <1>3, <1>4

LEMMA SyncWithMasterSound ==
  ASSUME Sound, NEW n \in Node, syncWithMaster(n)
  PROVE  Keeps
<1> DEFINE R == Consumed(n)
           N == [node[n] EXCEPT !.rs = "TRANSFER", !.got = "nothing"]
           T == [R EXCEPT !.node[n].rs = "TRANSFER", !.node[n].got = "nothing"]
<1>1. /\ Typed(Now) /\ Linked(Now) /\ node[n].rs = "RECEIVE_PONG" /\ node[n].rs \in Busy
      /\ conn[node[n].c].out # <<>>
  BY DEF Sound, syncWithMaster, Busy, Handshake, Readable
<1>2. node[n].c \in Conns /\ node[n] \in Server
  BY <1>1, NowIs, Linking, Fields
<1>3. Follows(Now, R) /\ R.node = node
  BY <1>1, <1>2, ConsumedSound
<1>4. \/ Becomes(BackToConnect(R, n))
      \/ Becomes(Sends(T, n, <<"SYNC">>)) \/ Becomes(Sends(T, n, <<"REPLCONF", "SYNC">>))
      \/ Becomes(BackToConnect(Sends(R, n, <<"SYNC">>), n))
  BY DEF syncWithMaster
<1> HIDE DEF R
<1>5. Typed(R) /\ Linked(R) /\ R.node[n].rs \in Busy
  BY <1>1, <1>3 DEF Follows
<1>6. Follows(R, T)
  <2>1. SetsServer(R, T, n, N)
    BY <1>3, <1>5 DEF SetsServer, Typed, Server
  <2>2. N \in Server /\ SameTies(R.node[n], N)
    BY <1>1, <1>2, <1>3 DEF Server, SameTies, Busy, Handshake
  <2> HIDE DEF N, T
  <2> QED
    BY <1>5, <2>1, <2>2, ServerKeeps
<1> HIDE DEF T
<1>7. Typed(T) /\ Linked(T)
  BY <1>6 DEF Follows
<1>8. <<"SYNC">> \in Seq({"PING", "REPLCONF", "SYNC"}) /\ <<"REPLCONF", "SYNC">> \in Seq({"PING", "REPLCONF", "SYNC"})
  OBVIOUS
<1>9. Follows(T, Sends(T, n, <<"SYNC">>)) /\ Follows(T, Sends(T, n, <<"REPLCONF", "SYNC">>))
  BY <1>2, <1>7, <1>8, SendsSound
<1>10. Follows(R, Sends(R, n, <<"SYNC">>)) /\ Sends(R, n, <<"SYNC">>).node = R.node
  BY <1>2, <1>5, <1>8, SendsSound
<1>11. Follows(Sends(R, n, <<"SYNC">>), BackToConnect(Sends(R, n, <<"SYNC">>), n))
  BY <1>5, <1>10, BackToConnectSound DEF Follows
<1>12. Follows(R, BackToConnect(R, n))
  BY <1>5, BackToConnectSound
<1>13. PICK Q : Follows(R, Q) /\ Becomes(Q)
  BY <1>4, <1>6, <1>9, <1>10, <1>11, <1>12, FollowsOn
<1> QED
  BY <1>3, <1>13, FollowsOn, FollowsBecomes

\* What a slave keeps of a transfer changes only the slave.
LEMMA ReceivedSound ==
  ASSUME NEW R, Typed(R), Linked(R), NEW n \in Node, R.node[n].rs = "TRANSFER",
         NEW N \in Server, N.up = R.node[n].up, N.mh = R.node[n].mh, N.c = R.node[n].c, N.slaves = R.node[n].slaves,
         N.child = R.node[n].child, N.rs \in {"TRANSFER", "CONNECTED"}, NEW Q, SetsServer(R, Q, n, N)
  PROVE  Follows(R, Q) /\ Q.node[n] = N
<1>1. SameTies(R.node[n], N)
  BY DEF SameTies, Busy, Handshake
<1> QED
  BY <1>1, ServerKeeps

LEMMA ReadSyncSound ==
  ASSUME Sound, NEW n \in Node, readSyncBulkPayload(n)
  PROVE  Keeps
<1> DEFINE R == Consumed(n)
           item == Next1(node[n].c)
           D == [R EXCEPT !.node[n].disk = item[2]]
           E == [R EXCEPT !.node[n].disk = item[2], !.node[n].data = <<>>]
<1>1. /\ Typed(Now) /\ Linked(Now) /\ node[n].rs = "TRANSFER" /\ node[n].rs \in Busy
      /\ conn[node[n].c].out # <<>>
  BY DEF Sound, readSyncBulkPayload, Busy, Handshake, Readable
<1>2. node[n].c \in Conns /\ node[n] \in Server
  BY <1>1, NowIs, Linking, Fields
<1>3. Follows(Now, R) /\ R.node = node /\ item \in Item
  BY <1>1, <1>2, ConsumedSound
<1>4. \/ Becomes(R) \/ Becomes([R EXCEPT !.node[n].got = "size"]) \/ Becomes([R EXCEPT !.node[n].got = "part"])
      \/ Becomes(BackToConnect(R, n))
      \/ item[1] = "LAST" /\ Becomes(Loaded(D, n, item[2]))
      \/ item[1] = "LAST" /\ Becomes(BackToConnect(E, n))
  BY DEF readSyncBulkPayload
<1> HIDE DEF R, item
<1>5. Typed(R) /\ Linked(R) /\ R.node[n].rs \in Busy /\ R.node[n].rs = "TRANSFER" /\ R.node[n] \in Server
  BY <1>1, <1>2, <1>3 DEF Follows
<1>6. Follows(R, R)
  BY <1>5 DEF Follows
<1>7. \A g \in {"size", "part"} : Follows(R, [R EXCEPT !.node[n].got = g])
  <2> TAKE g \in {"size", "part"}
  <2> DEFINE N == [R.node[n] EXCEPT !.got = g]
             Q == [R EXCEPT !.node[n].got = g]
  <2>1. SetsServer(R, Q, n, N)
    BY <1>5 DEF SetsServer, Typed
  <2>2. /\ N \in Server /\ N.up = R.node[n].up /\ N.mh = R.node[n].mh /\ N.c = R.node[n].c
        /\ N.slaves = R.node[n].slaves /\ N.child = R.node[n].child /\ N.rs = "TRANSFER"
    BY <1>5 DEF Server
  <2> HIDE DEF N, Q
  <2>3. Follows(R, Q)
    BY <1>5, <2>1, <2>2, ReceivedSound
  <2> QED
    BY <2>3 DEF Q
<1>8. Follows(R, BackToConnect(R, n))
  BY <1>5, BackToConnectSound
<1>9. item[1] = "LAST" => item[2] \in Data
  BY <1>3 DEF Item, Silence
<1>10. ASSUME item[1] = "LAST" PROVE Follows(R, Loaded(D, n, item[2]))
  <2> DEFINE N == [R.node[n] EXCEPT !.disk = item[2], !.data = item[2], !.rs = "CONNECTED", !.sel = 0]
             Q == Loaded(D, n, item[2])
  <2>1. SetsServer(R, Q, n, N)
    BY <1>5 DEF SetsServer, Loaded, Typed, Server
  <2>2. item[2] \in Data /\ 0 \in Db
    BY <1>9, <1>10, EmptyLists
  <2>3. /\ N \in Server /\ N.up = R.node[n].up /\ N.mh = R.node[n].mh /\ N.c = R.node[n].c
        /\ N.slaves = R.node[n].slaves /\ N.child = R.node[n].child /\ N.rs = "CONNECTED"
    BY <1>5, <2>2 DEF Server
  <2> HIDE DEF N, Q, D
  <2>4. Follows(R, Q)
    BY <1>5, <2>1, <2>3, ReceivedSound
  <2> QED
    BY <2>4 DEF Q
<1>11. ASSUME item[1] = "LAST" PROVE Follows(R, BackToConnect(E, n))
  <2> DEFINE N == [R.node[n] EXCEPT !.disk = item[2], !.data = <<>>]
  <2>1. SetsServer(R, E, n, N)
    BY <1>5 DEF SetsServer, Typed, Server
  <2>2. item[2] \in Data
    BY <1>9, <1>11
  <2>3. /\ N \in Server /\ N.up = R.node[n].up /\ N.mh = R.node[n].mh /\ N.c = R.node[n].c
        /\ N.slaves = R.node[n].slaves /\ N.child = R.node[n].child /\ N.rs = "TRANSFER"
    BY <1>5, <2>2, EmptyLists DEF Server
  <2> HIDE DEF N, E
  <2>4. Follows(R, E) /\ E.node[n] = N
    BY <1>5, <2>1, <2>3, ReceivedSound
  <2>5. E.node[n].rs \in Busy
    BY <2>3, <2>4 DEF Busy
  <2>6. Follows(E, BackToConnect(E, n))
    BY <2>4, <2>5, BackToConnectSound DEF Follows
  <2> QED
    BY <2>4, <2>6, FollowsOn
<1> HIDE DEF D, E
<1>12. PICK Q : Follows(R, Q) /\ Becomes(Q)
  BY <1>4, <1>6, <1>7, <1>8, <1>10, <1>11
<1> QED
  BY <1>3, <1>12, FollowsOn, FollowsBecomes

LEMMA MasterCommandSound ==
  ASSUME Sound, NEW n \in Node, masterCommand(n)
  PROVE  Keeps
<1> DEFINE R == Consumed(n)
           item == Next1(node[n].c)
           D == [R EXCEPT !.node[n].sel = item[2]]
<1>1. /\ Typed(Now) /\ Linked(Now) /\ node[n].rs = "CONNECTED" /\ conn[node[n].c].out # <<>>
  BY DEF Sound, masterCommand, Readable
<1>2. node[n].c \in Conns /\ node[n] \in Server
  BY <1>1, NowIs, Linking, Fields
<1>3. Follows(Now, R) /\ R.node = node /\ item \in Item
  BY <1>1, <1>2, ConsumedSound
<1>4. \/ Becomes(R)
      \/ item[1] = "SELECT" /\ Becomes(D)
      \/ item[1] = "WRITE" /\ Becomes(Written(R, n, node[n].sel, item[2]))
  BY DEF masterCommand
<1> HIDE DEF R, item
<1>5. Typed(R) /\ Linked(R) /\ R.node[n] \in Server
  BY <1>2, <1>3 DEF Follows
<1>6. ASSUME item[1] = "SELECT" PROVE Follows(R, D)
  <2> DEFINE N == [R.node[n] EXCEPT !.sel = item[2]]
  <2>1. item[2] \in Db
    BY <1>3, <1>6 DEF Item, Silence
  <2>2. SetsServer(R, D, n, N)
    BY <1>5 DEF SetsServer, Typed
  <2>3. N \in Server /\ SameTies(R.node[n], N)
    BY <1>5, <2>1 DEF Server, SameTies
  <2> HIDE DEF N, D
  <2> QED
    BY <1>5, <2>2, <2>3, ServerKeeps
<1>7. ASSUME item[1] = "WRITE" PROVE Follows(R, Written(R, n, node[n].sel, item[2]))
  <2>1. item[2] \in Nat /\ node[n].sel \in Db
    BY <1>2, <1>3, <1>7 DEF Item, Silence, Server
  <2> QED
    BY <1>5, <2>1, WrittenSound
<1> HIDE DEF D
<1>8. PICK Q : Follows(R, Q) /\ Becomes(Q)
  BY <1>4, <1>5, <1>6, <1>7 DEF Follows
<1> QED
  BY <1>3, <1>8, FollowsOn, FollowsBecomes

LEMMA MasterGoneSound ==
  ASSUME Sound, NEW n \in Node, MasterGone(n)
  PROVE  Keeps
<1> DEFINE Q == LinkLost(Now, n)
<1>1. Typed(Now) /\ Linked(Now) /\ node[n].c # 0 /\ Becomes(Q)
  BY DEF Sound, MasterGone, Eof, Silent
<1>2. node[n].rs \in Busy \cup {"CONNECTED"}
  BY <1>1, NowIs, Linking
<1>3. Typed(Q) /\ Linked(Q) /\ (Waits(Now) => Waits(Q))
  BY <1>1, <1>2, NowIs, LinkLostSound
<1> HIDE DEF Q
<1> QED
  BY <1>1, <1>3, BecomesSound DEF Keeps

\* Server n is told to replicate from m, and leaves the master it has.
LEMMA SlaveofSound ==
  ASSUME Sound, NEW n \in Node, NEW m \in Node \cup {Nil}, slaveofCommand(n, m)
  PROVE  Keeps /\ Departs(n)
<1> DEFINE H == [Now EXCEPT !.node[n].mh = m]
           F == IF node[n].rs = "CONNECTED" THEN freeMaster(H, n) ELSE H
           D == IF m = Nil THEN F ELSE disconnectSlaves(F, n)
           B == cancelReplicationHandshake(D, n)
           rs == IF m = Nil THEN "NONE" ELSE "CONNECT"
           Q == [B EXCEPT !.node[n].rs = rs]
           NH == [node[n] EXCEPT !.mh = m]
           NQ == [B.node[n] EXCEPT !.rs = rs]
<1>1. Typed(Now) /\ Linked(Now) /\ node[n].up /\ node[n] \in Server
  BY NowIs, Fields DEF Sound, slaveofCommand
<1>2. Becomes(Q)
  BY DEF slaveofCommand
<1>3. /\ Typed(H) /\ H.conn = conn /\ H.node[n] = NH /\ \A p \in Node : p # n => H.node[p] = node[p]
      /\ NH.mh = m /\ NH.up = node[n].up /\ NH.c = node[n].c /\ NH.rs = node[n].rs /\ NH.slaves = node[n].slaves
      /\ NH.child = node[n].child /\ NH.data = node[n].data /\ NH.disk = node[n].disk
  <2>1. /\ NH \in Server
        /\ NH.mh = m /\ NH.up = node[n].up /\ NH.c = node[n].c /\ NH.rs = node[n].rs /\ NH.slaves = node[n].slaves
        /\ NH.child = node[n].child /\ NH.data = node[n].data /\ NH.disk = node[n].disk
    BY <1>1 DEF Server
  <2>2. SetsServer(Now, H, n, NH)
    BY DEF SetsServer, Now
  <2> HIDE DEF H, NH
  <2> QED
    BY <1>1, <2>1, <2>2, NowIs, ServerSet
<1> HIDE DEF H, NH
\* Leaving says nothing of the master left.
<1>4. ASSUME NEW S, NEW drop \in BOOLEAN, Leaves(H, S, n, drop) PROVE Leaves(Now, S, n, drop)
  BY <1>3, <1>4, NowIs DEF Leaves
<1>5. node[n].c \in Conns \cup {0} /\ 0 \notin Conns
  BY <1>1, NowIs, Fields
<1>6. ASSUME NEW S, Typed(S), S.node[n].mh = m, NEW drop \in BOOLEAN, Leaves(H, S, n, drop)
      PROVE  LET T == disconnectSlaves(S, n)
             IN  Typed(T) /\ Leaves(Now, T, n, TRUE) /\ T.node[n].mh = m /\ T.node[n].rs = S.node[n].rs
  <2> DEFINE T == disconnectSlaves(S, n)
  <2>1. Typed(T) /\ Closes(S, T, n, Range(S.node[n].slaves))
    BY <1>6, MasterClosesEffect DEF disconnectSlaves
  <2> HIDE DEF T
  <2>2. Leaves(H, T, n, TRUE)
    BY <1>3, <1>6, <2>1, LeavesAndCloses
  <2>3. T.node[n].mh = m /\ T.node[n].rs = S.node[n].rs
    BY <1>6, <2>1 DEF Closes
  <2> QED
    BY <1>4, <2>1, <2>2, <2>3 DEF T
\* Nothing is left when there is no connection.
<1>7. node[n].c = 0 => Leaves(H, H, n, FALSE)
  BY <1>3, <1>5 DEF Leaves
<1>8. ASSUME node[n].rs = "CONNECTED"
      PROVE  Typed(B) /\ Leaves(Now, B, n, m # Nil) /\ B.node[n].mh = m
  <2>1. H.node[n].c \in Conns
    <3>1. node[n].c # 0
      BY <1>1, <1>8, NowIs DEF Linked, Modes
    <3> QED
      BY <1>3, <1>5, <3>1
  <2>2. F = freeMaster(H, n)
    BY <1>8
  <2> HIDE DEF F
  <2>3. Typed(F) /\ Leaves(H, F, n, m # Nil) /\ F.node[n].mh = m /\ F.node[n].rs = "CONNECT"
    BY <1>3, <2>1, <2>2, FreeMasterEffect
  <2>4. Typed(D) /\ Leaves(Now, D, n, m # Nil) /\ D.node[n].mh = m /\ D.node[n].rs = "CONNECT"
    <3>1. CASE m = Nil
      BY <1>4, <2>3, <3>1
    <3>2. CASE m # Nil
      <4>1. D = disconnectSlaves(F, n)
        BY <3>2
      <4> HIDE DEF D
      <4> QED
        BY <1>6, <2>3, <3>2, <4>1
    <3> QED
      BY <3>1, <3>2
  <2> HIDE DEF D
  <2>5. B = D
    BY <2>4 DEF cancelReplicationHandshake, Handshake
  <2> QED
    BY <2>4, <2>5
<1>9. ASSUME node[n].rs \in Busy
      PROVE  Typed(B) /\ Leaves(Now, B, n, m # Nil) /\ B.node[n].mh = m
  <2>1. node[n].slaves = <<>> /\ node[n].c \in Conns
    BY <1>1, <1>9, NowIs, Linking
  <2>2. F = H
    BY <1>9 DEF Busy, Handshake
  <2> HIDE DEF F
  <2>3. /\ Typed(D) /\ D.node[n].mh = m /\ D.node[n].rs = node[n].rs /\ D.node[n].c = node[n].c
        /\ D = H \/ (Closes(H, D, n, {}) /\ m # Nil)
    <3>1. CASE m = Nil
      BY <1>3, <2>2, <3>1
    <3>2. CASE m # Nil
      <4>1. D = disconnectSlaves(H, n) /\ H.node[n].slaves = <<>>
        BY <1>3, <2>1, <2>2, <3>2
      <4> HIDE DEF D
      <4>2. Typed(D) /\ Closes(H, D, n, {})
        BY <1>3, <4>1, EmptyRange, MasterClosesEffect DEF disconnectSlaves
      <4> QED
        BY <1>3, <3>2, <4>2 DEF Closes
    <3> QED
      BY <3>1, <3>2
  <2> HIDE DEF D
  <2>4. B = BackToConnect(D, n)
    BY <1>9, <2>3 DEF cancelReplicationHandshake, Busy
  <2> HIDE DEF B
  <2>5. Typed(B) /\ Leaves(D, B, n, FALSE) /\ B.node[n].mh = m
    BY <2>1, <2>3, <2>4, BackToConnectEffect
  <2>6. Leaves(H, B, n, m # Nil)
    <3>1. CASE D = H
      <4>1. H.node[n].slaves = <<>> /\ Range(H.node[n].slaves) = {}
        BY <1>3, <2>1, EmptyRange
      <4> QED
        BY <2>5, <3>1, <4>1 DEF Leaves
    <3>2. CASE Closes(H, D, n, {}) /\ m # Nil
      <4>1. H.node[n].slaves = <<>> /\ Range(H.node[n].slaves) = {}
        BY <1>3, <2>1, EmptyRange
      <4> QED
        BY <2>5, <3>2, <4>1 DEF Leaves, Closes
    <3> QED
      BY <2>3, <3>1, <3>2
  <2> QED
    BY <1>4, <2>5, <2>6 DEF B
<1>10. ASSUME node[n].rs \notin Busy \cup {"CONNECTED"}
      PROVE  Typed(B) /\ Leaves(Now, B, n, m # Nil) /\ B.node[n].mh = m
  <2>1. node[n].c = 0
    BY <1>1, <1>10, NowIs, Linking
  <2>2. F = H
    BY <1>10
  <2> HIDE DEF F
  <2>3. Typed(D) /\ Leaves(Now, D, n, m # Nil) /\ D.node[n].mh = m /\ D.node[n].rs = node[n].rs
    <3>1. CASE m = Nil
      BY <1>3, <1>4, <1>7, <2>1, <2>2, <3>1
    <3>2. CASE m # Nil
      <4>1. D = disconnectSlaves(H, n)
        BY <2>2, <3>2
      <4> HIDE DEF D
      <4> QED
        BY <1>3, <1>6, <1>7, <2>1, <3>2, <4>1
    <3> QED
      BY <3>1, <3>2
  <2> HIDE DEF D
  <2>4. B = D
    BY <1>10, <2>3 DEF cancelReplicationHandshake, Busy
  <2> QED
    BY <2>3, <2>4
<1>11. Typed(B) /\ Leaves(Now, B, n, m # Nil) /\ B.node[n].mh = m
  BY <1>8, <1>9, <1>10
<1> HIDE DEF B
<1>12. B.node[n] \in Server /\ rs \in {"NONE", "CONNECT"}
  BY <1>11, Fields
<1>13. SetsServer(B, Q, n, NQ)
  BY <1>11 DEF SetsServer, Typed
<1> HIDE DEF Q
<1>14. /\ NQ \in Server /\ NQ.rs = rs /\ NQ.mh = B.node[n].mh /\ NQ.up = B.node[n].up /\ NQ.c = B.node[n].c
       /\ NQ.slaves = B.node[n].slaves /\ NQ.child = B.node[n].child /\ NQ.data = B.node[n].data
       /\ NQ.disk = B.node[n].disk
  BY <1>12 DEF Server
<1> HIDE DEF NQ
<1>15. Typed(Q) /\ Q.conn = B.conn /\ Q.node[n] = NQ /\ \A p \in Node : p # n => Q.node[p] = B.node[p]
  BY <1>11, <1>13, <1>14, ServerSet
<1>16. Leaves(Now, Q, n, m # Nil) /\ Q.node[n].mh = m /\ Q.node[n].rs = rs
  BY <1>11, <1>14, <1>15 DEF Leaves
<1>17. Linked(Q) /\ (Waits(Now) => Waits(Q))
  <2>1. (m # Nil) \in BOOLEAN /\ Now.node[n].up
    BY <1>1, NowIs
  <2> DEFINE drop == m # Nil
  <2>2. Q.node[n].rs = IF Q.node[n].mh = Nil THEN "NONE" ELSE "CONNECT"
    BY <1>16
  <2>3. Q.node[n].mh # Nil /\ ~drop => Now.node[n].slaves = <<>>
    BY <1>16
  <2>4. drop \in BOOLEAN /\ Leaves(Now, Q, n, drop)
    BY <1>16
  <2> HIDE DEF drop, rs
  <2> QED
    BY <1>1, <1>15, <2>1, <2>2, <2>3, <2>4, LeavesSound
<1>18. Departs(n)
  BY <1>2, <1>15, <1>16 DEF Departs
<1> QED
  BY <1>2, <1>15, <1>17, <1>18, BecomesSound DEF Keeps

----------------------------------------------------------------------------
\* The world.

LEMMA CutSound ==
  ASSUME Sound, NEW k \in Conns, Cut(k)
  PROVE  Keeps
<1> DEFINE Q == [node |-> node', conn |-> conn']
<1>1. Typed(Now) /\ Linked(Now) /\ conn[k] \in Link /\ conn[k].out \in Seq(Item) /\ conn \in [Conns -> Link]
  BY NowIs, Fields DEF Sound, Typed
<1>2. PICK i \in 0..Len(conn[k].out) :
        conn' = [conn EXCEPT ![k].up = FALSE, ![k].out = SubSeq(@, 1, i), ![k].cmds = <<>>]
  BY DEF Cut
<1> DEFINE some == SubSeq(conn[k].out, 1, i)
           L == [conn[k] EXCEPT !.up = FALSE, !.out = some, !.cmds = <<>>]
<1>3. some \in Seq(Item)
  BY <1>1, SubSeqProperties
<1>4. L \in Link /\ SameEnds(conn[k], L)
  <2> HIDE DEF some
  <2> QED
    BY <1>1, <1>3, EmptyLists DEF Link, SameEnds
<1>5. conn' = [conn EXCEPT ![k] = L]
  <2>1. conn' = [conn EXCEPT ![k].up = FALSE, ![k].out = some, ![k].cmds = <<>>]
    BY <1>1, <1>2 DEF Link
  <2> HIDE DEF some
  <2> QED
    BY <1>1, <2>1 DEF Link
<1>6. node' = node
  BY DEF Cut
<1> HIDE DEF L
<1>7. SetsLink(Now, Q, k, L)
  BY <1>5, <1>6, NowIs DEF SetsLink
<1> HIDE DEF Q
<1>8. Follows(Now, Q)
  BY <1>1, <1>4, <1>7, NowIs, LinkKeeps
<1> QED
  BY <1>8, PrimedSound DEF Q

LEMMA NewNodeIsServer ==
  ASSUME NEW data \in Data, NEW m \in Node \cup {Nil}
  PROVE  LET N == NewNode(data, m)
         IN  /\ N \in Server /\ N.up /\ N.data = data /\ N.disk = data /\ N.mh = m /\ N.c = 0 /\ N.slaves = <<>>
             /\ N.rs = (IF m = Nil THEN "NONE" ELSE "CONNECT") /\ N.child.st = "none" /\ N.child \in Child /\ N.sel = 0
<1>1. NoChild \in Child /\ NoChild.st = "none" /\ <<>> \in Seq(Conns) /\ 0 \in Db
  BY EmptyLists DEF NoChild
<1> QED
  BY <1>1 DEF NewNode, Server

LEMMA CrashSound ==
  ASSUME Sound, NEW n \in Node, Crash(n)
  PROVE  Keeps /\ Dies(n)
<1> DEFINE c == node[n].c
           S == IF c = 0 THEN Now ELSE SlaveCloses(Now, n)
           R == [S EXCEPT !.conn = [k \in Conns |-> IF @[k].m = n THEN [@[k] EXCEPT !.mopen = FALSE] ELSE @[k]]]
           Dead == [NewNode(<<>>, Nil) EXCEPT !.up = FALSE, !.disk = node[n].disk]
           Q == [R EXCEPT !.node[n] = Dead]
<1>1. Typed(Now) /\ Linked(Now) /\ node[n] \in Server /\ node[n].disk \in Data
  BY NowIs, Fields DEF Sound
<1>2. Becomes(Q)
  BY DEF Crash
<1>3. /\ Dead \in Server /\ ~Dead.up /\ Dead.mh = Nil /\ Dead.c = 0 /\ Dead.rs = "NONE" /\ Dead.slaves = <<>>
      /\ Dead.child.st = "none"
  <2> DEFINE N == NewNode(<<>>, Nil)
  <2>1. N \in Server /\ N.mh = Nil /\ N.c = 0 /\ N.slaves = <<>> /\ N.rs = "NONE" /\ N.child.st = "none"
    BY EmptyLists, NewNodeIsServer
  <2>2. Dead = [N EXCEPT !.up = FALSE, !.disk = node[n].disk]
    OBVIOUS
  <2> HIDE DEF N, Dead
  <2> QED
    BY <1>1, <2>1, <2>2 DEF Server
<1> HIDE DEF Dead
<1>4. /\ Typed(S) /\ \A p \in Node : p # n => S.node[p] = node[p]
      /\ \A k \in Conns : /\ k # c => S.conn[k] = conn[k]
                          /\ k = c => S.conn[k] = [conn[k] EXCEPT !.sopen = FALSE, !.out = <<>>]
  <2>1. c \in Conns \cup {0} /\ 0 \notin Conns
    BY <1>1, NowIs, Fields
  <2>2. CASE c = 0
    BY <1>1, <2>1, <2>2, NowIs
  <2>3. CASE c # 0
    <3> DEFINE T == SlaveCloses(Now, n)
    <3>1. /\ Typed(T) /\ \A p \in Node : p # n => T.node[p] = node[p]
          /\ T.conn[c] = [conn[c] EXCEPT !.sopen = FALSE, !.out = <<>>]
          /\ \A k \in Conns : k # c => T.conn[k] = conn[k]
      <4>1. Now.node[n].c \in Conns
        BY <2>1, <2>3, NowIs
      <4>2. /\ Typed(T) /\ \A p \in Node : p # n => T.node[p] = Now.node[p]
            /\ T.conn[Now.node[n].c] = [Now.conn[Now.node[n].c] EXCEPT !.sopen = FALSE, !.out = <<>>]
            /\ \A k \in Conns : k # Now.node[n].c => T.conn[k] = Now.conn[k]
        BY <1>1, <4>1, SlaveClosesEffect
      <4> HIDE DEF T
      <4> QED
        BY <4>2, NowIs
    <3> HIDE DEF T
    <3>2. S = T
      BY <2>3 DEF T
    <3> HIDE DEF S
    <3> QED
      BY <3>1, <3>2
  <2> QED
    BY <2>2, <2>3
<1> HIDE DEF S
<1>5. /\ DOMAIN R = {"node", "conn"} /\ R.node = S.node
      /\ R.conn = [k \in Conns |-> IF S.conn[k].m = n THEN [S.conn[k] EXCEPT !.mopen = FALSE] ELSE S.conn[k]]
  BY <1>4 DEF Typed
<1> HIDE DEF R
<1>6. /\ DOMAIN Q = {"node", "conn"} /\ Q.conn = R.conn /\ Q.node = [R.node EXCEPT ![n] = Dead]
  BY <1>5
<1> HIDE DEF Q
<1>7. ASSUME NEW k \in Conns
      PROVE  /\ Q.conn[k] \in Link
             /\ Q.conn[k].s = conn[k].s /\ Q.conn[k].m = conn[k].m
             /\ Q.conn[k].sopen <=> conn[k].sopen /\ k # c
             /\ Q.conn[k].mopen <=> conn[k].mopen /\ conn[k].m # n
             /\ Q.conn[k].up = conn[k].up /\ Q.conn[k].repl = conn[k].repl
             /\ Q.conn[k].buf = conn[k].buf /\ Q.conn[k].file = conn[k].file /\ Q.conn[k].cmds = conn[k].cmds
             /\ k # c => Q.conn[k].out = conn[k].out
  <2> DEFINE L == conn[k]
             M == S.conn[k]
  <2>1. L \in Link /\ M \in Link
    BY <1>1, <1>4, NowIs, Fields
  <2>2. (k # c => M = L) /\ (k = c => M = [L EXCEPT !.sopen = FALSE, !.out = <<>>])
    BY <1>4
  <2>3. Q.conn[k] = IF M.m = n THEN [M EXCEPT !.mopen = FALSE] ELSE M
    BY <1>5, <1>6
  <2> HIDE DEF L, M
  <2>4. /\ M.s = L.s /\ M.m = L.m /\ (M.sopen <=> L.sopen /\ k # c) /\ M.mopen = L.mopen /\ M.up = L.up /\ M.repl = L.repl
        /\ M.buf = L.buf /\ M.file = L.file /\ M.cmds = L.cmds /\ (k # c => M.out = L.out)
    BY <2>1, <2>2 DEF Link
  <2>5. /\ Q.conn[k] \in Link /\ Q.conn[k].s = M.s /\ Q.conn[k].m = M.m /\ Q.conn[k].sopen = M.sopen
        /\ Q.conn[k].mopen <=> M.mopen /\ M.m # n
        /\ Q.conn[k].up = M.up /\ Q.conn[k].repl = M.repl /\ Q.conn[k].buf = M.buf /\ Q.conn[k].file = M.file
        /\ Q.conn[k].cmds = M.cmds /\ Q.conn[k].out = M.out
    BY <2>1, <2>3 DEF Link
  <2> QED
    BY <2>4, <2>5 DEF L
<1>8. /\ Typed(Q) /\ Q.node[n] = Dead /\ \A p \in Node : p # n => Q.node[p] = node[p]
  <2>1. Q.conn \in [Conns -> Link]
    BY <1>5, <1>6, <1>7
  <2>2. S.node \in [Node -> Server] /\ Q.node = [S.node EXCEPT ![n] = Dead]
    BY <1>4, <1>5, <1>6 DEF Typed
  <2>3. Typed(Q) /\ Q.node[n] = Dead /\ \A p \in Node : p # n => Q.node[p] = S.node[p]
    BY <1>3, <1>6, <2>1, <2>2 DEF Typed
  <2> QED
    BY <1>4, <2>3
<1>9. Crashes(Now, Q, n)
  BY <1>3, <1>7, <1>8, NowIs DEF Crashes
<1>10. Linked(Q) /\ (Waits(Now) => Waits(Q))
  BY <1>1, <1>8, <1>9, CrashesSound
<1>11. Dies(n)
  BY <1>2, <1>8, <1>9 DEF Dies
<1> QED
  BY <1>2, <1>8, <1>10, <1>11, BecomesSound DEF Keeps

\* A server that comes back is known to nobody.
LEMMA RestartSound ==
  ASSUME Sound, family \in DOMAIN Conf, NEW n \in Node, Restart(n)
  PROVE  Keeps
<1> DEFINE Q == [node |-> node', conn |-> conn']
           N == NewNode(node[n].disk, conf.master[n])
<1>1. Typed(Now) /\ Linked(Now) /\ node[n].disk \in Data /\ ~node[n].up
  BY NowIs, Fields DEF Sound, Restart
<1>2. /\ N \in Server /\ N.up /\ N.mh \in Node \cup {Nil} /\ N.c = 0 /\ N.slaves = <<>>
      /\ N.rs = (IF N.mh = Nil THEN "NONE" ELSE "CONNECT") /\ N.child.st = "none"
  <2>1. conf.master[n] \in Node \cup {Nil}
    BY ReplicationAssumption DEF conf
  <2> QED
    BY <1>1, <2>1, NewNodeIsServer
<1>3. SetsServer(Now, Q, n, N)
  BY NowIs DEF SetsServer, Restart
<1> HIDE DEF N, Q
<1>4. /\ Typed(Q) /\ Q.conn = conn /\ Q.node[n] = N /\ \A p \in Node : p # n => Q.node[p] = node[p]
  BY <1>1, <1>2, <1>3, NowIs, ServerSet
<1>5. \A k \in Conns : /\ Q.conn[k].mopen => Q.conn[k].m # n
                       /\ Q.conn[k].sopen => Q.conn[k].s # n
  <2>1. node[n].c = 0
    BY <1>1, NowIs DEF Linked, Modes, Handshake
  <2>2. 0 \notin Conns
    BY <1>1, Fields
  <2> QED
    BY <1>1, <1>4, <2>1, <2>2, NowIs DEF Linked, Ends
<1>6. Modes(Q)
  <2> SUFFICES ASSUME NEW p \in Node
               PROVE  /\ Q.node[p].up => (Q.node[p].rs = "NONE" <=> Q.node[p].mh = Nil)
                      /\ ~Q.node[p].up => /\ Q.node[p].rs = "NONE" /\ Q.node[p].slaves = <<>>
                                          /\ Q.node[p].child.st = "none"
                      /\ Q.node[p].c # 0 <=> Q.node[p].rs \in Handshake \cup {"TRANSFER", "CONNECTED"}
    BY DEF Modes
  <2>1. CASE p = n
    BY <1>2, <1>4, <2>1 DEF Handshake
  <2>2. CASE p # n
    BY <1>1, <1>4, <2>2, NowIs DEF Linked, Modes
  <2> QED
    BY <2>1, <2>2
<1>7. MasterKnown(Q)
  BY <1>1, <1>2, <1>4, NowIs DEF Linked, MasterKnown
<1>8. SlavesKnown(Q)
  BY <1>1, <1>2, <1>4, NowIs, EmptyRange DEF Linked, SlavesKnown
<1>9. Current(Q)
  BY <1>1, <1>2, <1>4, NowIs DEF Linked, Current, Stale
<1>10. Ends(Q)
  BY <1>1, <1>4, <1>5, NowIs DEF Linked, Ends
<1>11. Waits(Now) => Waits(Q)
  <2> SUFFICES ASSUME Waits(Now), NEW k \in Conns, Q.conn[k].mopen, Q.conn[k].repl \in Waiters
               PROVE  Q.node[Q.conn[k].m].child.st # "none"
    BY DEF Waits, Waiters
  <2>1. Q.conn[k].m \in Node /\ Q.conn[k].m # n
    BY <1>5, <1>10 DEF Ends
  <2> QED
    BY <1>4, <2>1, NowIs DEF Waits, Waiters
<1>12. Follows(Now, Q)
  BY <1>4, <1>6, <1>7, <1>8, <1>9, <1>10, <1>11 DEF Follows, Linked
<1> QED
  BY <1>12, PrimedSound DEF Q

----------------------------------------------------------------------------
\* The theorems.

Budget == family \in DOMAIN Conf /\ writes \in Nat /\ left \in [Fault -> Nat] /\ left["laterfork"] <= conf.left["laterfork"]
NoLateForkFailed == left["laterfork"] = conf.left["laterfork"]
ReplicationInv == Sound /\ Budget /\ (NoLateForkFailed => Waits(Now))

LEMMA InitInv == Init => ReplicationInv
<1> SUFFICES ASSUME Init PROVE ReplicationInv
  OBVIOUS
<1>1. family \in DOMAIN Conf /\ conn = [k \in Conns |-> NoConn] /\ node = [n \in Node |-> NewNode(<<>>, conf.master[n])]
  BY DEF Init
<1>2. \A n \in Node : /\ node[n] \in Server /\ node[n].up /\ node[n].c = 0 /\ node[n].slaves = <<>>
                      /\ node[n].rs = (IF node[n].mh = Nil THEN "NONE" ELSE "CONNECT")
  <2> TAKE n \in Node
  <2>1. conf.master[n] \in Node \cup {Nil}
    BY <1>1, ReplicationAssumption DEF conf
  <2> DEFINE N == NewNode(<<>>, conf.master[n])
  <2>2. N \in Server /\ N.up /\ N.c = 0 /\ N.slaves = <<>> /\ N.rs = (IF N.mh = Nil THEN "NONE" ELSE "CONNECT")
    BY <2>1, EmptyLists, NewNodeIsServer
  <2>3. node[n] = N
    BY <1>1
  <2> HIDE DEF N
  <2> QED
    BY <2>2, <2>3
<1>3. Typed(Now)
  BY <1>1, <1>2, NoConnIsLink DEF Typed, Now
<1>4. \A k \in Conns : ~conn[k].sopen /\ ~conn[k].mopen
  BY <1>1 DEF NoConn
<1>5. Linked(Now)
  BY <1>2, <1>4, NowIs, EmptyRange DEF Linked, Modes, MasterKnown, SlavesKnown, Current, Ends, Handshake
<1>6. Waits(Now)
  BY <1>4, NowIs DEF Waits
<1>7. Budget
  <2>1. left = conf.left /\ left \in [Fault -> Nat] /\ writes = 0
    BY <1>1, ReplicationAssumption DEF Init, conf
  <2>2. left["laterfork"] \in Nat
    BY <2>1 DEF Fault
  <2> QED
    BY <1>1, <2>1, <2>2 DEF Budget
<1> QED
  BY <1>3, <1>5, <1>6, <1>7 DEF Sound, ReplicationInv

\* Only the end of a save may cost a fork that fails then.
LEMMA NextBudget ==
  ASSUME Sound, Budget, [Next]_vars
  PROVE  Budget' /\ (NoLateForkFailed' => NoLateForkFailed /\ left'["laterfork"] = left["laterfork"])
<1> DEFINE Frame == /\ family' = family /\ writes' \in {writes, writes + 1}
                    /\ (left' = left \/ \E what \in Fault : Spend(what))
<1>1. Frame
  <2>1. ASSUME NEW n \in Node, LinkEvent(n) PROVE Frame
    BY <2>1 DEF LinkEvent, syncConnected, syncWithMaster, readSyncBulkPayload, masterCommand, MasterGone, Fault
  <2>2. ASSUME NEW n \in Node, Saves(n) PROVE Frame
    BY <2>2 DEF Saves, ChildExits, backgroundSaveDoneHandler, Fault
  <2>3. ASSUME NEW n \in Node, bgsaveCommand(n) \/ Crash(n) \/ Restart(n) PROVE Frame
    BY <2>3 DEF bgsaveCommand, Crash, Restart, Fault
  <2>4. ASSUME NEW n \in Node, NEW late \in BOOLEAN, NEW ping \in BOOLEAN, replicationCron(n, late, ping) PROVE Frame
    BY <2>4 DEF replicationCron, Fault
  <2>5. ASSUME NEW k \in Conns, Serves(k) \/ Cut(k) PROVE Frame
    <3>1. CASE sendBulkToSlave(k) \/ ClientLost(k) \/ Cut(k)
      BY <3>1 DEF sendBulkToSlave, ClientLost, Cut, Fault
    <3>2. CASE Commanded(k)
      <4>1. family' = family /\ writes' = writes
        BY <3>2 DEF Commanded
      <4>2. left' = left \/ Spend("loading") \/ Spend("fork")
        <5>1. conn[k] \in Link
          BY NowIs, Fields DEF Sound
        <5>2. conn[k].cmds # <<>> /\ Head(conn[k].cmds) \in {"PING", "REPLCONF", "SYNC"}
          BY <3>2, <5>1 DEF Commanded, Link
        <5> QED
          BY <3>2, <5>2 DEF Commanded
      <4> QED
        BY <4>1, <4>2 DEF Fault
    <3> QED
      BY <2>5, <3>1, <3>2 DEF Serves
  <2>6. ASSUME NEW n \in Node, NEW d \in conf.dbs, Write(n, d) PROVE Frame
    BY <2>6 DEF Write, Fault
  <2>7. ASSUME NEW n \in Node, NEW m \in Node \cup {Nil}, slaveofCommand(n, m) PROVE Frame
    BY <2>7 DEF slaveofCommand, Fault
  <2>8. ASSUME UNCHANGED vars PROVE Frame
    BY <2>8 DEF vars
  <2> HIDE DEF Frame
  <2> QED
    BY <2>1, <2>2, <2>3, <2>4, <2>5, <2>6, <2>7, <2>8 DEF Next
<1>2. writes' \in Nat
  <2>1. writes \in Nat /\ writes' \in {writes, writes + 1}
    BY <1>1 DEF Budget
  <2> QED
    BY <2>1
<1>3. left' = left \/ \E what \in Fault : Spend(what)
  BY <1>1
<1> HIDE DEF Frame
<1>4. left' \in [Fault -> Nat] /\ left'["laterfork"] <= left["laterfork"]
  <2>1. left["laterfork"] \in Nat /\ "laterfork" \in Fault
    BY DEF Budget, Fault
  <2>2. CASE left' = left
    BY <2>1, <2>2 DEF Budget
  <2>3. ASSUME NEW what \in Fault, Spend(what) PROVE left' \in [Fault -> Nat] /\ left'["laterfork"] <= left["laterfork"]
    <3>1. left \in [Fault -> Nat]
      BY DEF Budget
    <3>2. /\ left' \in [Fault -> Nat] /\ left'[what] = left[what] - 1
          /\ \A x \in Fault : x # what => left'[x] = left[x]
      BY <2>3, <3>1, Spent
    <3> QED
      BY <2>1, <3>2
  <2> QED
    BY <1>3, <2>2, <2>3
<1>5. conf' = conf /\ family' \in DOMAIN Conf
  BY <1>1 DEF conf, Budget, Frame
<1>6. conf.left["laterfork"] \in Nat /\ left["laterfork"] \in Nat /\ left'["laterfork"] \in Nat
  <2>1. "laterfork" \in Fault /\ family \in DOMAIN Conf /\ left \in [Fault -> Nat]
    BY DEF Fault, Budget
  <2>2. conf.left \in [Fault -> Nat]
    BY <2>1, ReplicationAssumption DEF conf
  <2> QED
    BY <1>4, <2>1, <2>2
<1>7. left["laterfork"] <= conf.left["laterfork"]
  BY DEF Budget
<1>8. left'["laterfork"] <= conf'.left["laterfork"]
  <2>1. conf'.left["laterfork"] = conf.left["laterfork"]
    BY <1>5
  <2> QED
    BY <1>4, <1>6, <1>7, <2>1
<1>9. Budget'
  BY <1>2, <1>4, <1>5, <1>8 DEF Budget
<1>10. left'["laterfork"] = conf'.left["laterfork"] => left["laterfork"] = conf.left["laterfork"] /\ left'["laterfork"] = left["laterfork"]
  BY <1>4, <1>5, <1>6, <1>7
<1> QED
  BY <1>9, <1>10 DEF NoLateForkFailed

LEMMA NextInv == ReplicationInv /\ [Next]_vars => ReplicationInv'
<1> SUFFICES ASSUME ReplicationInv, [Next]_vars PROVE ReplicationInv'
  OBVIOUS
<1> DEFINE Step == Sound' /\ (Waits(Now) /\ left'["laterfork"] = left["laterfork"] => Waits(Now)')
<1>1. Budget' /\ (NoLateForkFailed' => NoLateForkFailed /\ left'["laterfork"] = left["laterfork"])
  BY NextBudget DEF ReplicationInv
<1>2. Sound /\ family \in DOMAIN Conf /\ writes \in Nat /\ left \in [Fault -> Nat]
  BY DEF ReplicationInv, Budget
<1>3. Keeps => Step
  BY DEF Keeps
<1>4. ASSUME NEW n \in Node, LinkEvent(n) PROVE Step
  BY <1>2, <1>3, <1>4, SyncConnectedSound, SyncWithMasterSound, ReadSyncSound, MasterCommandSound, MasterGoneSound
  DEF LinkEvent
<1>5. ASSUME NEW n \in Node, Saves(n) PROVE Step
  BY <1>2, <1>3, <1>5, ChildExitsSound, SaveDoneSound DEF Saves
<1>6. ASSUME NEW n \in Node, bgsaveCommand(n) \/ Crash(n) \/ Restart(n) PROVE Step
  BY <1>2, <1>3, <1>6, BgsaveSound, CrashSound, RestartSound
<1>7. ASSUME NEW n \in Node, NEW late \in BOOLEAN, NEW ping \in BOOLEAN, replicationCron(n, late, ping) PROVE Step
  BY <1>2, <1>3, <1>7, CronSound
<1>8. ASSUME NEW k \in Conns, Serves(k) \/ Cut(k) PROVE Step
  BY <1>2, <1>3, <1>8, CommandedSound, SendBulkSound, ClientLostSound, CutSound DEF Serves
<1>9. ASSUME NEW n \in Node, NEW d \in conf.dbs, Write(n, d) PROVE Step
  <2>1. d \in Db
    BY <1>2 DEF Db, conf
  <2> QED
    BY <1>2, <1>3, <1>9, <2>1, WriteSound
<1>10. ASSUME NEW n \in Node, NEW m \in Node \cup {Nil}, slaveofCommand(n, m) PROVE Step
  BY <1>2, <1>3, <1>10, SlaveofSound
<1>11. ASSUME UNCHANGED vars PROVE Step
  <2>1. Now = [node |-> node', conn |-> conn']
    BY <1>11 DEF vars, Now
  <2>2. Follows(Now, Now)
    BY <1>2 DEF Sound, Follows
  <2> QED
    BY <1>3, <2>1, <2>2, PrimedSound
<1> HIDE DEF Step
<1>12. Step
  BY <1>4, <1>5, <1>6, <1>7, <1>8, <1>9, <1>10, <1>11 DEF Next
<1> QED
  BY <1>1, <1>12 DEF ReplicationInv, Step

THEOREM ReplicationCorrect == Spec => []ReplicationInv
<1>1. Init => ReplicationInv
  BY InitInv
<1>2. ReplicationInv /\ [Next]_vars => ReplicationInv'
  BY NextInv
<1> QED
  BY <1>1, <1>2, PTL DEF Spec

\* A server feeds slaves only while its own dataset is one its slaves have been fed (freeClient, slaveofCommand,
\* syncCommand), and both sides agree on who is connected to whom.
THEOREM FedWhileCurrentCorrect == Spec => []FedWhileCurrent
<1>1. ReplicationInv => FedWhileCurrent
  BY NowIs DEF ReplicationInv, Sound, Linked, Modes, MasterKnown, SlavesKnown, Current, Ends, FedWhileCurrent, TypeOK
<1> QED
  BY <1>1, ReplicationCorrect, PTL

\* A slave that waits for a dump waits for one that is being written, until a fork fails at the end of a
\* save (updateSlavesWaitingBgsave closes none of those that wait then).
THEOREM WaitsForAChildCorrect == Spec => [](NoLateForkFailed => WaitsForAChild)
<1>1. ReplicationInv => (NoLateForkFailed => WaitsForAChild)
  BY NowIs DEF ReplicationInv, Waits, WaitsForAChild
<1> QED
  BY <1>1, ReplicationCorrect, PTL

----------------------------------------------------------------------------
\* What a stream makes of a dataset, when there is one database.

OneDatabase == \A f \in DOMAIN Conf : Conf[f].dbs \subseteq {0}

LEMMA DbIsZero == OneDatabase => Db = {0}
BY DEF OneDatabase, Db

Eff(D, x) == IF x[1] = "WRITE" THEN Append(D, <<x[2], 0>>) ELSE IF x[1] = "LAST" THEN x[2] ELSE D

LEMMA ItemKinds ==
  ASSUME OneDatabase, NEW x \in Item
  PROVE  /\ x[1] \in Silence \cup {"WRITE", "SELECT", "LAST"}
         /\ x[1] = "WRITE" => x[2] \in Nat
         /\ x[1] = "SELECT" => x[2] = 0
         /\ x[1] = "LAST" => x[2] \in Data
BY DbIsZero DEF Item, Silence

LEMMA EffOne ==
  ASSUME OneDatabase, NEW D \in Data, NEW x \in Item
  PROVE  /\ Eff(D, x) \in Data
         /\ ExecutedOne([data |-> D, d |-> 0], x) = [data |-> Eff(D, x), d |-> 0]
<1>1. /\ x[1] = "WRITE" => x[2] \in Nat
      /\ x[1] = "SELECT" => x[2] = 0
      /\ x[1] = "LAST" => x[2] \in Data
  BY ItemKinds
<1>2. x[1] = "WRITE" => Append(D, <<x[2], 0>>) \in Data
  BY <1>1, DbIsZero DEF Data
<1>3. Eff(D, x) \in Data
  BY <1>1, <1>2 DEF Eff
<1>4. CASE x[1] = "WRITE"
  BY <1>3, <1>4 DEF Eff, ExecutedOne
<1>5. CASE x[1] = "LAST"
  BY <1>3, <1>5 DEF Eff, ExecutedOne
<1>6. CASE x[1] = "SELECT"
  BY <1>1, <1>3, <1>6 DEF Eff, ExecutedOne
<1>7. CASE x[1] \notin {"WRITE", "LAST", "SELECT"}
  BY <1>3, <1>7 DEF Eff, ExecutedOne
<1> QED
  BY <1>4, <1>5, <1>6, <1>7

\* The datasets a stream t goes through.
Runs(r, D, t) == r \in [0..Len(t) -> Data] /\ r[0] = D /\ \A i \in 1..Len(t) : r[i] = Eff(r[i - 1], t[i])

LEMMA ExecutedRun ==
  ASSUME OneDatabase, NEW D \in Data, NEW t \in Seq(Item)
  PROVE  \E r : Runs(r, D, t) /\ Executed(D, 0, t) = r[Len(t)]
<1> DEFINE n == Len(t)
           F == [i \in 1..n |-> [A \in Data |-> Eff(A, t[i])]]
           start == [data |-> D, d |-> 0]
           body(q) == [i \in 0..n |-> IF i = 0 THEN start ELSE ExecutedOne(q[i - 1], t[i])]
           run == CHOOSE q : q = body(q)
<1>1. n \in Nat /\ \A i \in 1..n : t[i] \in Item
  OBVIOUS
<1>2. F \in [1..n -> [Data -> Data]]
  BY <1>1, EffOne
<1>3. \A i \in 1..n, A \in Data : F[i][A] = Eff(A, t[i])
  OBVIOUS
<1>4. Executed(D, 0, t) = run[n].data
  BY DEF Executed
<1> HIDE DEF F, n
<1>5. PICK r \in [0..n -> Data] : \A i \in 0..n : r[i] = IF i = 0 THEN D ELSE F[i][r[i - 1]]
  <2>1. \E r : IsRun(r, Data, n, D, F)
    BY <1>1, <1>2, RunExists
  <2> QED
    BY <2>1 DEF IsRun
<1>6. r[0] = D /\ \A i \in 1..n : r[i - 1] \in Data /\ r[i] = Eff(r[i - 1], t[i])
  BY <1>1, <1>3, <1>5
<1> DEFINE q == [i \in 0..n |-> [data |-> r[i], d |-> 0]]
<1>7. q = body(q)
  <2>1. ASSUME NEW i \in 0..n PROVE q[i] = IF i = 0 THEN start ELSE ExecutedOne(q[i - 1], t[i])
    <3>1. CASE i = 0
      BY <1>6, <3>1
    <3>2. CASE i # 0
      <4>1. i \in 1..n /\ i - 1 \in 0..n
        BY <1>1, <3>2
      <4>2. q[i - 1] = [data |-> r[i - 1], d |-> 0] /\ q[i] = [data |-> Eff(r[i - 1], t[i]), d |-> 0]
        BY <1>6, <4>1
      <4>3. ExecutedOne([data |-> r[i - 1], d |-> 0], t[i]) = [data |-> Eff(r[i - 1], t[i]), d |-> 0]
        BY <1>1, <1>6, <4>1, EffOne
      <4> HIDE DEF q
      <4> QED
        BY <3>2, <4>2, <4>3
    <3> QED
      BY <3>1, <3>2
  <2> HIDE DEF start
  <2> QED
    BY <2>1
<1>8. run = body(run)
  <2> HIDE DEF body, q
  <2> QED
    BY <1>7
<1> HIDE DEF run
<1>9. \A i \in 0..n : run[i] = IF i = 0 THEN start ELSE ExecutedOne(run[i - 1], t[i])
  <2> HIDE DEF start
  <2> QED
    BY <1>8
<1> DEFINE P == {i \in Nat : i <= n => run[i] = [data |-> r[i], d |-> 0]}
<1>10. 0 \in P
  <2>1. run[0] = start
    BY <1>1, <1>9
  <2> QED
    BY <1>6, <2>1
<1>11. ASSUME NEW i \in Nat, i \in P PROVE i + 1 \in P
  <2> SUFFICES ASSUME i + 1 <= n PROVE run[i + 1] = [data |-> r[i + 1], d |-> 0]
    OBVIOUS
  <2>1. run[i] = [data |-> r[i], d |-> 0]
    BY <1>1, <1>11
  <2>2. i + 1 \in 1..n /\ i + 1 \in 0..n /\ i + 1 # 0 /\ (i + 1) - 1 = i
    BY <1>1
  <2>3. run[i + 1] = ExecutedOne(run[i], t[i + 1])
    BY <1>9, <2>2
  <2>4. r[i] \in Data /\ r[i + 1] = Eff(r[i], t[i + 1]) /\ t[i + 1] \in Item
    BY <1>1, <1>6, <2>2
  <2> QED
    BY <2>1, <2>3, <2>4, EffOne
<1> HIDE DEF P
<1>12. Nat \subseteq P
  BY <1>10, <1>11, NatSetInduction
<1>13. run[n].data = r[n]
  <2>1. run[n] = [data |-> r[n], d |-> 0]
    BY <1>1, <1>12 DEF P
  <2> QED
    BY <2>1
<1> QED
  BY <1>4, <1>5, <1>6, <1>13 DEF Runs, n

\* Two runs that go on over the same items from the same dataset agree.
GoesOn(r, t, a, q, u, n) ==
  /\ r[a] = q[0]
  /\ \A j \in 1..n : t[a + j] = u[j]
  /\ \A j \in 1..n : q[j] = Eff(q[j - 1], u[j])
  /\ \A j \in 1..n : r[a + j] = Eff(r[(a + j) - 1], t[a + j])
LEMMA RunsAgree ==
  ASSUME NEW n \in Nat, NEW a \in Nat, NEW t, NEW u, NEW r, NEW q, GoesOn(r, t, a, q, u, n)
  PROVE  r[a + n] = q[n]
<1> USE DEF GoesOn
<1> DEFINE P == {j \in Nat : j <= n => r[a + j] = q[j]}
<1>1. 0 \in P
  OBVIOUS
<1>2. ASSUME NEW j \in Nat, j \in P PROVE j + 1 \in P
  <2> SUFFICES ASSUME j + 1 <= n PROVE r[a + (j + 1)] = q[j + 1]
    OBVIOUS
  <2>1. r[a + j] = q[j]
    BY <1>2
  <2>2. j + 1 \in 1..n /\ (j + 1) - 1 = j /\ (a + (j + 1)) - 1 = a + j
    OBVIOUS
  <2>3. /\ q[j + 1] = Eff(q[(j + 1) - 1], u[j + 1]) /\ t[a + (j + 1)] = u[j + 1]
        /\ r[a + (j + 1)] = Eff(r[(a + (j + 1)) - 1], t[a + (j + 1)])
    BY <2>2
  <2> QED
    BY <2>1, <2>2, <2>3
<1> HIDE DEF P
<1>3. Nat \subseteq P
  BY <1>1, <1>2, NatSetInduction
<1> QED
  BY <1>3 DEF P

LEMMA ExecutedConcat ==
  ASSUME OneDatabase, NEW D \in Data, NEW t \in Seq(Item), NEW u \in Seq(Item)
  PROVE  /\ Executed(D, 0, t) \in Data
         /\ Executed(D, 0, t \o u) = Executed(Executed(D, 0, t), 0, u)
<1> DEFINE w == t \o u
<1>1. PICK r : Runs(r, D, t) /\ Executed(D, 0, t) = r[Len(t)]
  BY ExecutedRun
<1>2. Executed(D, 0, t) \in Data
  BY <1>1 DEF Runs
<1>3. w \in Seq(Item) /\ Len(w) = Len(t) + Len(u) /\ Len(t) \in Nat /\ Len(u) \in Nat
      /\ (\A i \in 1..Len(t) : w[i] = t[i]) /\ \A j \in 1..Len(u) : w[Len(t) + j] = u[j]
  BY ConcatProperties
<1> HIDE DEF w
<1>4. PICK s : Runs(s, D, w) /\ Executed(D, 0, w) = s[Len(w)]
  BY <1>3, ExecutedRun
<1>5. PICK q : Runs(q, Executed(D, 0, t), u) /\ Executed(Executed(D, 0, t), 0, u) = q[Len(u)]
  BY <1>2, ExecutedRun
<1> DEFINE m == Len(t) n == Len(u)
<1>6. /\ m \in Nat /\ n \in Nat /\ Len(w) = m + n /\ s[0] = D /\ r[0] = D /\ q[0] = r[m]
      /\ \A j \in 1..m : r[j] = Eff(r[j - 1], t[j])
      /\ \A j \in 1..n : q[j] = Eff(q[j - 1], u[j])
      /\ \A j \in 1..m + n : s[j] = Eff(s[j - 1], w[j])
      /\ (\A i \in 1..m : w[i] = t[i]) /\ \A j \in 1..n : w[m + j] = u[j]
  BY <1>1, <1>3, <1>4, <1>5 DEF Runs
<1> HIDE DEF m, n
<1>7. s[m] = r[m]
  <2>1. GoesOn(s, w, 0, r, t, m)
    BY <1>6 DEF GoesOn
  <2>2. s[0 + m] = r[m]
    BY <1>6, <2>1, RunsAgree
  <2> QED
    BY <1>6, <2>2
<1>8. s[m + n] = q[n]
  <2>1. GoesOn(s, w, m, q, u, n)
    BY <1>6, <1>7 DEF GoesOn
  <2> QED
    BY <1>6, <2>1, RunsAgree
<1> QED
  BY <1>2, <1>4, <1>5, <1>6, <1>8 DEF w, n

LEMMA ExecutedSmall ==
  ASSUME OneDatabase, NEW D \in Data, NEW x \in Item
  PROVE  Executed(D, 0, <<>>) = D /\ Executed(D, 0, <<x>>) = Eff(D, x)
<1>1. <<>> \in Seq(Item) /\ Len(<<>>) = 0
  BY EmptyLists
<1>2. PICK r : Runs(r, D, <<>>) /\ Executed(D, 0, <<>>) = r[0]
  BY <1>1, ExecutedRun
<1> DEFINE t == <<x>>
<1>3. t \in Seq(Item) /\ Len(t) = 1 /\ t[1] = x
  OBVIOUS
<1> HIDE DEF t
<1>4. PICK q : Runs(q, D, t) /\ Executed(D, 0, t) = q[1]
  BY <1>3, ExecutedRun
<1>5. q[1] = Eff(q[0], t[1]) /\ q[0] = D
  BY <1>3, <1>4 DEF Runs
<1> QED
  BY <1>2, <1>3, <1>4, <1>5 DEF Runs, t

\* A stream begins with its head.
LEMMA ExecutedHead ==
  ASSUME OneDatabase, NEW D \in Data, NEW t \in Seq(Item), t # <<>>
  PROVE  Executed(D, 0, t) = Executed(Eff(D, Head(t)), 0, Tail(t))
<1>1. Head(t) \in Item /\ Tail(t) \in Seq(Item) /\ t = <<Head(t)>> \o Tail(t) /\ <<Head(t)>> \in Seq(Item)
  OBVIOUS
<1>2. Executed(D, 0, <<Head(t)>>) = Eff(D, Head(t))
  BY <1>1, ExecutedSmall
<1> DEFINE h == <<Head(t)>> u == Tail(t)
<1>3. h \in Seq(Item) /\ u \in Seq(Item) /\ t = h \o u /\ Executed(D, 0, h) = Eff(D, Head(t))
  BY <1>1, <1>2
<1> HIDE DEF h, u
<1>4. Executed(D, 0, h \o u) = Executed(Executed(D, 0, h), 0, u)
  BY <1>3, ExecutedConcat
<1> QED
  BY <1>3, <1>4 DEF u

\* What does not touch a dataset leaves it.
LEMMA ExecutedNeutral ==
  ASSUME OneDatabase, NEW D \in Data, NEW t \in Seq(Item), Neutral(t)
  PROVE  Executed(D, 0, t) = D
<1>1. PICK r : Runs(r, D, t) /\ Executed(D, 0, t) = r[Len(t)]
  BY ExecutedRun
<1> DEFINE P == {i \in Nat : i <= Len(t) => r[i] = D}
<1>2. 0 \in P
  BY <1>1 DEF Runs
<1>3. ASSUME NEW i \in Nat, i \in P PROVE i + 1 \in P
  <2> SUFFICES ASSUME i + 1 <= Len(t) PROVE r[i + 1] = D
    OBVIOUS
  <2>1. i + 1 \in 1..Len(t) /\ (i + 1) - 1 = i /\ i <= Len(t) /\ i + 1 \in DOMAIN t
    OBVIOUS
  <2>2. r[i] = D /\ r[i + 1] = Eff(r[i], t[i + 1])
    <3>1. r[i + 1] = Eff(r[(i + 1) - 1], t[i + 1])
      BY <1>1, <2>1 DEF Runs
    <3> QED
      BY <1>3, <2>1, <3>1
  <2>3. t[i + 1][1] \in Silence
    BY <2>1 DEF Neutral
  <2> QED
    BY <2>2, <2>3 DEF Eff, Silence
<1> HIDE DEF P
<1>4. Nat \subseteq P
  BY <1>2, <1>3, NatSetInduction
<1> QED
  BY <1>1, <1>4 DEF P

----------------------------------------------------------------------------
\* What is on its way.

LEMMA Concatenated ==
  ASSUME NEW t \in Seq(Item), NEW u \in Seq(Item)
  PROVE  /\ t \o u \in Seq(Item) /\ Len(t) \in Nat /\ Len(u) \in Nat
         /\ DOMAIN t = 1..Len(t) /\ DOMAIN u = 1..Len(u) /\ DOMAIN (t \o u) = 1..(Len(t) + Len(u))
         /\ \A i \in 1..Len(t) : (t \o u)[i] = t[i]
         /\ \A i \in 1..Len(u) : (t \o u)[Len(t) + i] = u[i]
         /\ \A i \in 1..(Len(t) + Len(u)) : i > Len(t) => (i - Len(t)) \in 1..Len(u) /\ (t \o u)[i] = u[i - Len(t)]
<1>1. /\ t \o u \in Seq(Item) /\ Len(t \o u) = Len(t) + Len(u) /\ Len(t) \in Nat /\ Len(u) \in Nat
      /\ (\A i \in 1..Len(t) : (t \o u)[i] = t[i]) /\ \A j \in 1..Len(u) : (t \o u)[Len(t) + j] = u[j]
  BY ConcatProperties
<1>2. DOMAIN t = 1..Len(t) /\ DOMAIN u = 1..Len(u) /\ DOMAIN (t \o u) = 1..(Len(t) + Len(u))
  BY <1>1
<1>3. ASSUME NEW i \in 1..(Len(t) + Len(u)), i > Len(t)
      PROVE  (i - Len(t)) \in 1..Len(u) /\ (t \o u)[i] = u[i - Len(t)]
  <2>1. (i - Len(t)) \in 1..Len(u) /\ Len(t) + (i - Len(t)) = i
    BY <1>1, <1>3
  <2> QED
    BY <1>1, <2>1
<1> QED
  BY <1>1, <1>2, <1>3

LEMMA NoItems == Neutral(<<>>) /\ NoLast(<<>>)
BY DEF Neutral, NoLast

LEMMA NeutralNoLast ==
  ASSUME NEW t, Neutral(t)
  PROVE  NoLast(t)
BY DEF Neutral, NoLast, Silence

LEMMA SilentItem ==
  ASSUME NEW x \in Silence
  PROVE  <<<<x>>>> \in Seq(Item) /\ Neutral(<<<<x>>>>) /\ NoLast(<<<<x>>>>)
<1>1. <<<<x>>>> \in Seq(Item)
  BY Replies
<1>2. Neutral(<<<<x>>>>)
  BY DEF Neutral
<1> QED
  BY <1>1, <1>2, NeutralNoLast

LEMMA NeutralOn ==
  ASSUME NEW t \in Seq(Item), NEW u \in Seq(Item), Neutral(u)
  PROVE  /\ Neutral(t) => Neutral(t \o u)
         /\ OneLast(t) => OneLast(t \o u)
<1> DEFINE m == Len(t) n == Len(u) w == t \o u
<1>1. /\ w \in Seq(Item) /\ m \in Nat /\ n \in Nat /\ DOMAIN t = 1..m /\ DOMAIN u = 1..n /\ DOMAIN w = 1..(m + n)
      /\ \A i \in 1..m : w[i] = t[i]
      /\ \A i \in 1..(m + n) : i > m => (i - m) \in 1..n /\ w[i] = u[i - m]
  BY Concatenated
<1> HIDE DEF m, n, w
<1>2. \A i \in 1..(m + n) : i > m => w[i][1] \in Silence /\ w[i][1] # "LAST"
  BY <1>1 DEF Neutral, Silence
<1>3. ASSUME Neutral(t) PROVE Neutral(w)
  BY <1>1, <1>2, <1>3 DEF Neutral
<1>4. ASSUME OneLast(t) PROVE OneLast(w)
  <2>1. PICK i \in 1..m : /\ t[i][1] = "LAST"
                          /\ \A j \in 1..m : j < i => t[j][1] \in Silence
                          /\ \A j \in 1..m : i < j => t[j][1] # "LAST"
    BY <1>1, <1>4 DEF OneLast
  <2>2. i \in 1..(m + n) /\ w[i][1] = "LAST"
    BY <1>1, <2>1
  <2>3. \A j \in 1..(m + n) : j < i => j \in 1..m /\ w[j] = t[j] /\ w[j][1] \in Silence
    BY <1>1, <2>1
  <2>4. ASSUME NEW j \in 1..(m + n), i < j PROVE w[j][1] # "LAST"
    <3>1. j \in 1..m \/ j > m
      BY <1>1
    <3> QED
      BY <1>1, <1>2, <2>1, <2>4, <3>1
  <2> QED
    BY <1>1, <2>2, <2>3, <2>4 DEF OneLast
<1> QED
  BY <1>3, <1>4 DEF w

LEMMA NoLastOn ==
  ASSUME NEW t \in Seq(Item), NEW u \in Seq(Item), NoLast(u)
  PROVE  /\ NoLast(t) => NoLast(t \o u)
         /\ OneLast(t) => OneLast(t \o u)
<1> DEFINE m == Len(t) n == Len(u) w == t \o u
<1>1. /\ w \in Seq(Item) /\ m \in Nat /\ n \in Nat /\ DOMAIN t = 1..m /\ DOMAIN u = 1..n /\ DOMAIN w = 1..(m + n)
      /\ \A i \in 1..m : w[i] = t[i]
      /\ \A i \in 1..(m + n) : i > m => (i - m) \in 1..n /\ w[i] = u[i - m]
  BY Concatenated
<1> HIDE DEF m, n, w
<1>2. \A i \in 1..(m + n) : i > m => w[i][1] # "LAST"
  BY <1>1 DEF NoLast
<1>3. ASSUME NoLast(t) PROVE NoLast(w)
  BY <1>1, <1>2, <1>3 DEF NoLast
<1>4. ASSUME OneLast(t) PROVE OneLast(w)
  <2>1. PICK i \in 1..m : /\ t[i][1] = "LAST"
                          /\ \A j \in 1..m : j < i => t[j][1] \in Silence
                          /\ \A j \in 1..m : i < j => t[j][1] # "LAST"
    BY <1>1, <1>4 DEF OneLast
  <2>2. i \in 1..(m + n) /\ w[i][1] = "LAST"
    BY <1>1, <2>1
  <2>3. \A j \in 1..(m + n) : j < i => j \in 1..m /\ w[j] = t[j] /\ w[j][1] \in Silence
    BY <1>1, <2>1
  <2>4. ASSUME NEW j \in 1..(m + n), i < j PROVE w[j][1] # "LAST"
    <3>1. j \in 1..m \/ j > m
      BY <1>1
    <3> QED
      BY <1>1, <1>2, <2>1, <2>4, <3>1
  <2> QED
    BY <1>1, <2>2, <2>3, <2>4 DEF OneLast
<1> QED
  BY <1>3, <1>4 DEF w

\* The dump comes after items that say nothing, and the buffer after it.
LEMMA DumpSent ==
  ASSUME NEW t \in Seq(Item), NEW f \in Data, NEW u \in Seq(Item), Neutral(t), NoLast(u)
  PROVE  /\ Append(t, <<"LAST", f>>) \in Seq(Item)
         /\ OneLast(Append(t, <<"LAST", f>>) \o u)
<1> DEFINE x == <<"LAST", f>> v == Append(t, x) m == Len(t)
<1>1. x \in Item /\ x[1] = "LAST"
  BY DEF Item
<1> HIDE DEF x
<1>2. v \in Seq(Item) /\ m \in Nat /\ DOMAIN t = 1..m /\ DOMAIN v = 1..m + 1 /\ v[m + 1] = x /\ \A i \in 1..m : v[i] = t[i]
  BY <1>1
<1> HIDE DEF v, m
<1>3. /\ m + 1 \in 1..m + 1
      /\ \A j \in 1..m + 1 : j < m + 1 => v[j][1] \in Silence
      /\ \A j \in 1..m + 1 : m + 1 < j => v[j][1] # "LAST"
  BY <1>2 DEF Neutral
<1>4. OneLast(v)
  BY <1>1, <1>2, <1>3 DEF OneLast
<1> QED
  BY <1>2, <1>4, NoLastOn DEF v, x

\* The first item is read.
LEMMA FirstRead ==
  ASSUME NEW t \in Seq(Item), t # <<>>
  PROVE  /\ Tail(t) \in Seq(Item) /\ Head(t) \in Item
         /\ Neutral(t) => Neutral(Tail(t)) /\ Head(t)[1] \in Silence
         /\ NoLast(t) => NoLast(Tail(t)) /\ Head(t)[1] # "LAST"
         /\ OneLast(t) /\ Head(t)[1] = "LAST" => NoLast(Tail(t))
         /\ OneLast(t) /\ Head(t)[1] # "LAST" => OneLast(Tail(t)) /\ Head(t)[1] \in Silence
<1> DEFINE u == Tail(t) h == Head(t) n == Len(t)
<1>1. /\ u \in Seq(Item) /\ h \in Item /\ n \in Nat /\ n > 0 /\ h = t[1] /\ DOMAIN t = 1..n /\ DOMAIN u = 1..n - 1
      /\ \A i \in 1..n - 1 : u[i] = t[i + 1]
  OBVIOUS
<1> HIDE DEF u, h, n
<1>2. \A i \in 1..n - 1 : i + 1 \in 1..n /\ u[i] = t[i + 1]
  BY <1>1
<1>3. 1 \in 1..n
  BY <1>1
<1>4. Neutral(t) => Neutral(u) /\ h[1] \in Silence
  BY <1>1, <1>2, <1>3 DEF Neutral
<1>5. NoLast(t) => NoLast(u) /\ h[1] # "LAST"
  BY <1>1, <1>2, <1>3 DEF NoLast
<1>6. ASSUME OneLast(t) PROVE (h[1] = "LAST" => NoLast(u)) /\ (h[1] # "LAST" => OneLast(u) /\ h[1] \in Silence)
  <2>1. PICK i \in 1..n : /\ t[i][1] = "LAST"
                          /\ \A j \in 1..n : j < i => t[j][1] \in Silence
                          /\ \A j \in 1..n : i < j => t[j][1] # "LAST"
    BY <1>1, <1>6 DEF OneLast
  <2>2. CASE i = 1
    <3>1. \A j \in 1..n - 1 : t[j + 1][1] # "LAST"
      BY <1>1, <2>1, <2>2
    <3> QED
      BY <1>1, <1>2, <2>1, <2>2, <3>1 DEF NoLast
  <2>3. CASE i # 1
    <3>1. h[1] \in Silence /\ h[1] # "LAST"
      BY <1>1, <1>3, <2>1, <2>3 DEF Silence
    <3>2. i - 1 \in 1..n - 1 /\ u[i - 1] = t[i]
      BY <1>1, <2>1, <2>3
    <3>3. /\ \A j \in 1..n - 1 : j < i - 1 => u[j][1] \in Silence
          /\ \A j \in 1..n - 1 : i - 1 < j => u[j][1] # "LAST"
      BY <1>1, <1>2, <2>1
    <3>4. OneLast(u)
      BY <1>1, <2>1, <3>2, <3>3 DEF OneLast
    <3> QED
      BY <3>1, <3>4
  <2> QED
    BY <2>2, <2>3
<1> QED
  BY <1>1, <1>4, <1>5, <1>6 DEF u, h

\* What slaves are fed with a write adds the write.
LEMMA FeedExecuted ==
  ASSUME OneDatabase, NEW L \in Link, NEW w \in Nat, NEW D \in Data
  PROVE  /\ Feed(L, 0, w) \in Seq(Item) /\ NoLast(Feed(L, 0, w))
         /\ Executed(D, 0, Feed(L, 0, w)) = Append(D, <<w, 0>>)
<1> DEFINE x == <<"WRITE", w>> y == <<"SELECT", 0>>
<1>1. x \in Item /\ y \in Item /\ x[1] = "WRITE" /\ x[2] = w /\ y[1] = "SELECT"
  BY EmptyLists DEF Item
<1>2. Feed(L, 0, w) = <<x>> \/ Feed(L, 0, w) = <<y, x>>
  BY DEF Feed
<1> HIDE DEF x, y
<1>3. Executed(D, 0, <<x>>) = Append(D, <<w, 0>>)
  BY <1>1, ExecutedSmall DEF Eff
<1>4. CASE Feed(L, 0, w) = <<x>>
  <2> DEFINE t == <<x>>
  <2>1. t \in Seq(Item) /\ DOMAIN t = {1} /\ t[1] = x /\ Feed(L, 0, w) = t
    BY <1>1, <1>4
  <2>2. Executed(D, 0, t) = Append(D, <<w, 0>>)
    BY <1>3
  <2> HIDE DEF t
  <2>3. NoLast(t)
    BY <1>1, <2>1 DEF NoLast
  <2> QED
    BY <2>1, <2>2, <2>3
<1>5. CASE Feed(L, 0, w) = <<y, x>>
  <2> DEFINE t == <<y, x>>
  <2>1. t \in Seq(Item) /\ t # <<>> /\ Head(t) = y /\ Tail(t) = <<x>> /\ Len(t) = 2 /\ t[1] = y /\ t[2] = x
    BY <1>1
  <2>2. Feed(L, 0, w) = t
    BY <1>5
  <2> HIDE DEF t
  <2>3. Executed(D, 0, t) = Executed(Eff(D, y), 0, <<x>>)
    BY <2>1, ExecutedHead
  <2>4. Eff(D, y) = D
    BY <1>1 DEF Eff
  <2>5. NoLast(t)
    <3>1. DOMAIN t = {1, 2}
      BY <2>1
    <3> QED
      BY <1>1, <2>1, <3>1 DEF NoLast
  <2> QED
    BY <1>3, <2>1, <2>2, <2>3, <2>4, <2>5
<1> QED
  BY <1>2, <1>4, <1>5

\* Items that say nothing may be added or read.
LEMMA ExecutedOn ==
  ASSUME OneDatabase, NEW D \in Data, NEW t \in Seq(Item), NEW u \in Seq(Item)
  PROVE  Neutral(u) => Executed(D, 0, t \o u) = Executed(D, 0, t)
<1> DEFINE E == Executed(D, 0, t)
<1>1. E \in Data /\ Executed(D, 0, t \o u) = Executed(E, 0, u)
  BY ExecutedConcat
<1> HIDE DEF E
<1>2. Neutral(u) => Executed(E, 0, u) = E
  BY <1>1, ExecutedNeutral
<1> QED
  BY <1>1, <1>2 DEF E

\* A write at the master and what it feeds go together.
LEMMA ExecutedFed ==
  ASSUME OneDatabase, NEW D \in Data, NEW t \in Seq(Item), NEW L \in Link, NEW w \in Nat
  PROVE  /\ t \o Feed(L, 0, w) \in Seq(Item)
         /\ Executed(D, 0, t \o Feed(L, 0, w)) = Append(Executed(D, 0, t), <<w, 0>>)
<1> DEFINE E == Executed(D, 0, t) f == Feed(L, 0, w)
<1>1. f \in Seq(Item)
  BY EmptyLists, FeedExecuted
<1>2. E \in Data /\ Executed(D, 0, t \o f) = Executed(E, 0, f)
  BY <1>1, ExecutedConcat
<1> HIDE DEF E
<1>3. Executed(E, 0, f) = Append(E, <<w, 0>>)
  BY <1>2, FeedExecuted
<1>4. t \o f \in Seq(Item)
  BY <1>1, ConcatProperties
<1> QED
  BY <1>2, <1>3, <1>4 DEF E

----------------------------------------------------------------------------
\* What changes nothing that a connection is about.

\* Who feeds a slave has slaves.
LEMMA Feeding ==
  ASSUME NEW R, Linked(R), NEW k \in Conns, R.conn[k].mopen
  PROVE  /\ R.conn[k].m \in Node
         /\ R.conn[k].repl # "NONE" => k \in Range(R.node[R.conn[k].m].slaves) /\ R.node[R.conn[k].m].slaves # <<>>
BY EmptyRange DEF Linked, Ends

\* The server n is, for its slaves, what it was.
SameFor(R, Q, n) ==
  /\ Q.node[n].child = R.node[n].child
  /\ R.node[n].slaves # <<>> => Q.node[n].data = R.node[n].data /\ Q.node[n].disk = R.node[n].disk

LEMMA BufferedSame ==
  ASSUME NEW R, NEW Q, Linked(R), NEW k \in Conns, R.conn[k].mopen, Buffered(R, k),
         SameFor(R, Q, R.conn[k].m), Q.conn[k].m = R.conn[k].m, Q.conn[k].repl = R.conn[k].repl,
         Q.conn[k].buf = R.conn[k].buf, Q.conn[k].file = R.conn[k].file
  PROVE  Buffered(Q, k)
BY Feeding DEF Buffered, SameFor

LEMMA StreamsSame ==
  ASSUME NEW R, NEW Q, Linked(R), NEW k \in Conns, R.conn[k].mopen, Streams(R, k),
         SameFor(R, Q, R.conn[k].m), Q.conn[k].m = R.conn[k].m, Q.conn[k].s = R.conn[k].s, Q.conn[k].repl = R.conn[k].repl,
         Q.conn[k].out = R.conn[k].out, Q.conn[k].cmds = R.conn[k].cmds,
         Q.node[R.conn[k].s].rs = R.node[R.conn[k].s].rs, Q.node[R.conn[k].s].data = R.node[R.conn[k].s].data
  PROVE  Streams(Q, k)
BY Feeding DEF Streams, SameFor

LEMMA LeavesComplete ==
  ASSUME NEW R, NEW Q, Typed(R), Linked(R), Complete(R), NEW n \in Node, NEW drop \in BOOLEAN, Leaves(R, Q, n, drop)
  PROVE  Complete(Q)
<1> SUFFICES ASSUME NEW k \in Conns, Q.conn[k].mopen
             PROVE  Buffered(Q, k) /\ (Q.conn[k].up /\ Q.conn[k].sopen => Streams(Q, k))
  BY DEF Complete, CompleteAt
<1>1. /\ R.conn[k].mopen /\ ~(drop /\ k \in Range(R.node[n].slaves))
      /\ Q.conn[k].s = R.conn[k].s /\ Q.conn[k].m = R.conn[k].m /\ Q.conn[k].up = R.conn[k].up
      /\ Q.conn[k].repl = R.conn[k].repl /\ Q.conn[k].buf = R.conn[k].buf /\ Q.conn[k].file = R.conn[k].file
      /\ Q.conn[k].sopen => R.conn[k].sopen /\ k # R.node[n].c
      /\ k # R.node[n].c => Q.conn[k].out = R.conn[k].out /\ Q.conn[k].cmds = R.conn[k].cmds
  BY DEF Leaves
<1>2. Buffered(R, k) /\ (R.conn[k].up /\ R.conn[k].sopen => Streams(R, k))
  BY <1>1 DEF Complete, CompleteAt
<1>3. \A p \in Node : p # n => Q.node[p] = R.node[p]
  BY DEF Leaves
<1>4. R.conn[k].m \in Node /\ (R.conn[k].repl # "NONE" => k \in Range(R.node[R.conn[k].m].slaves))
  BY <1>1, Feeding
\* Who is fed by n has not been dropped, so n has kept what it holds.
<1>5. SameFor(R, Q, R.conn[k].m) \/ R.conn[k].repl = "NONE"
  <2>1. CASE R.conn[k].m # n
    BY <1>3, <1>4, <2>1 DEF SameFor
  <2>2. CASE R.conn[k].m = n /\ R.conn[k].repl # "NONE"
    <3>1. ~drop
      BY <1>1, <1>4, <2>2
    <3> QED
      BY <2>2, <3>1 DEF Leaves, SameFor
  <2> QED
    BY <2>1, <2>2
<1>6. Buffered(Q, k)
  <2>1. CASE R.conn[k].repl = "NONE"
    BY <1>1, <1>2, <2>1 DEF Buffered
  <2>2. CASE SameFor(R, Q, R.conn[k].m)
    BY <1>1, <1>2, <2>2, BufferedSame
  <2> QED
    BY <1>5, <2>1, <2>2
<1>7. ASSUME Q.conn[k].up, Q.conn[k].sopen PROVE Streams(Q, k)
  <2>1. R.conn[k].s \in Node /\ R.conn[k].s # n
    BY <1>1, <1>7 DEF Linked, Ends
  <2>2. Streams(R, k) /\ Q.node[R.conn[k].s] = R.node[R.conn[k].s]
    BY <1>1, <1>2, <1>3, <1>7, <2>1
  <2>3. Q.conn[k].out = R.conn[k].out /\ Q.conn[k].cmds = R.conn[k].cmds
    BY <1>1, <1>7
  <2>4. CASE R.conn[k].repl = "NONE"
    BY <1>1, <2>2, <2>3, <2>4 DEF Streams
  <2>5. CASE SameFor(R, Q, R.conn[k].m)
    BY <1>1, <2>2, <2>3, <2>5, StreamsSame
  <2> QED
    BY <1>5, <2>4, <2>5
<1> QED
  BY <1>6, <1>7

LEMMA ClosesComplete ==
  ASSUME NEW R, NEW Q, Linked(R), Complete(R), NEW n \in Node, NEW ks, Closes(R, Q, n, ks)
  PROVE  Complete(Q)
<1> SUFFICES ASSUME NEW k \in Conns, Q.conn[k].mopen
             PROVE  Buffered(Q, k) /\ (Q.conn[k].up /\ Q.conn[k].sopen => Streams(Q, k))
  BY DEF Complete, CompleteAt
<1>1. /\ R.conn[k].mopen /\ Q.conn[k].sopen = R.conn[k].sopen
      /\ Q.conn[k].s = R.conn[k].s /\ Q.conn[k].m = R.conn[k].m /\ Q.conn[k].up = R.conn[k].up
      /\ Q.conn[k].repl = R.conn[k].repl /\ Q.conn[k].buf = R.conn[k].buf /\ Q.conn[k].file = R.conn[k].file
      /\ Q.conn[k].out = R.conn[k].out /\ Q.conn[k].cmds = R.conn[k].cmds
  BY DEF Closes
<1>2. Buffered(R, k) /\ (R.conn[k].up /\ R.conn[k].sopen => Streams(R, k))
  BY <1>1 DEF Complete, CompleteAt
<1>3. R.conn[k].m \in Node /\ (R.conn[k].sopen => R.conn[k].s \in Node)
  BY <1>1 DEF Linked, Ends
<1>4. SameFor(R, Q, R.conn[k].m)
  BY <1>3 DEF Closes, SameFor
<1>5. R.conn[k].sopen => /\ Q.node[R.conn[k].s].rs = R.node[R.conn[k].s].rs
                         /\ Q.node[R.conn[k].s].data = R.node[R.conn[k].s].data
  BY <1>3 DEF Closes
<1>6. Buffered(Q, k)
  BY <1>1, <1>2, <1>4, BufferedSame
<1>7. ASSUME Q.conn[k].up, Q.conn[k].sopen PROVE Streams(Q, k)
  BY <1>1, <1>2, <1>4, <1>5, <1>7, StreamsSame
<1> QED
  BY <1>6, <1>7

LEMMA ConnectsComplete ==
  ASSUME NEW R, NEW Q, Linked(R), Complete(R), NEW n \in Node, NEW c \in Conns, Connects(R, Q, n, c),
         R.node[n].rs = "CONNECT"
  PROVE  Complete(Q)
<1> SUFFICES ASSUME NEW k \in Conns, Q.conn[k].mopen
             PROVE  Buffered(Q, k) /\ (Q.conn[k].up /\ Q.conn[k].sopen => Streams(Q, k))
  BY DEF Complete, CompleteAt
<1>1. \A p \in Node : p # n => Q.node[p] = R.node[p]
  BY DEF Connects
<1>2. CASE k = c
  <2>1. /\ Q.conn[k].repl = "NONE" /\ Q.conn[k].buf = <<>> /\ Q.conn[k].out = <<>> /\ Q.conn[k].cmds = <<>>
        /\ Q.conn[k].s = n /\ Q.node[n].rs = "CONNECTING"
    BY <1>2 DEF Connects
  <2>2. Buffered(Q, k)
    BY <2>1, NoItems DEF Buffered
  <2>3. Streams(Q, k)
    BY <2>1, NoItems, EmptyRange DEF Streams
  <2> QED
    BY <2>2, <2>3
<1>3. CASE k # c
  <2>1. Q.conn[k] = R.conn[k]
    BY <1>3 DEF Connects
  <2>2. R.conn[k].mopen /\ Buffered(R, k) /\ (R.conn[k].up /\ R.conn[k].sopen => Streams(R, k))
    BY <2>1 DEF Complete, CompleteAt
  <2>3. R.conn[k].m \in Node
    BY <2>2, Feeding
  <2>4. SameFor(R, Q, R.conn[k].m)
    BY <1>1, <2>3 DEF Connects, SameFor
  <2>5. Buffered(Q, k)
    BY <2>1, <2>2, <2>4, BufferedSame
  <2>6. ASSUME Q.conn[k].up, Q.conn[k].sopen PROVE Streams(Q, k)
    <3>1. R.conn[k].s \in Node /\ R.node[R.conn[k].s].c = k /\ k # 0
      BY <2>1, <2>6, ReplicationAssumption DEF Linked, Ends, Conns, Range
    <3>2. R.node[n].c = 0
      BY DEF Linked, Modes, Handshake
    <3>3. Q.node[R.conn[k].s] = R.node[R.conn[k].s]
      BY <1>1, <3>1, <3>2
    <3> QED
      BY <2>1, <2>2, <2>4, <2>6, <3>3, StreamsSame
  <2> QED
    BY <2>5, <2>6
<1> QED
  BY <1>2, <1>3

LEMMA CrashesComplete ==
  ASSUME NEW R, NEW Q, Linked(R), Complete(R), NEW n \in Node, Crashes(R, Q, n)
  PROVE  Complete(Q)
<1> SUFFICES ASSUME NEW k \in Conns, Q.conn[k].mopen
             PROVE  Buffered(Q, k) /\ (Q.conn[k].up /\ Q.conn[k].sopen => Streams(Q, k))
  BY DEF Complete, CompleteAt
<1>1. /\ R.conn[k].mopen /\ R.conn[k].m # n
      /\ Q.conn[k].s = R.conn[k].s /\ Q.conn[k].m = R.conn[k].m /\ Q.conn[k].up = R.conn[k].up
      /\ Q.conn[k].repl = R.conn[k].repl /\ Q.conn[k].buf = R.conn[k].buf /\ Q.conn[k].file = R.conn[k].file
      /\ Q.conn[k].sopen => R.conn[k].sopen /\ k # R.node[n].c
      /\ k # R.node[n].c => Q.conn[k].out = R.conn[k].out
      /\ Q.conn[k].cmds = R.conn[k].cmds
  BY DEF Crashes
<1>2. Buffered(R, k) /\ (R.conn[k].up /\ R.conn[k].sopen => Streams(R, k))
  BY <1>1 DEF Complete, CompleteAt
<1>3. \A p \in Node : p # n => Q.node[p] = R.node[p]
  BY DEF Crashes
<1>4. SameFor(R, Q, R.conn[k].m)
  BY <1>1, <1>3, Feeding DEF SameFor
<1>5. Buffered(Q, k)
  BY <1>1, <1>2, <1>4, BufferedSame
<1>6. ASSUME Q.conn[k].up, Q.conn[k].sopen PROVE Streams(Q, k)
  <2>1. R.conn[k].s \in Node /\ R.conn[k].s # n
    BY <1>1, <1>6 DEF Linked, Ends
  <2> QED
    BY <1>1, <1>2, <1>3, <1>4, <1>6, <2>1, StreamsSame
<1> QED
  BY <1>5, <1>6

LEMMA ForgetsComplete ==
  ASSUME NEW R, NEW Q, Complete(R), Forgets(R, Q)
  PROVE  Complete(Q)
<1> SUFFICES ASSUME NEW k \in Conns, Q.conn[k].mopen
             PROVE  Buffered(Q, k) /\ (Q.conn[k].up /\ Q.conn[k].sopen => Streams(Q, k))
  BY DEF Complete, CompleteAt
<1>1. R.conn[k].mopen /\ Q.conn[k] = R.conn[k] /\ Q.node = R.node
  BY DEF Forgets
<1> QED
  BY <1>1 DEF Complete, CompleteAt, Buffered, Streams

LEMMA PrimedComplete ==
  ASSUME NEW Q, Q = [node |-> node', conn |-> conn'], Complete(Q)
  PROVE  Complete(Now)'
<1>1. Q.node = node' /\ Q.conn = conn'
  OBVIOUS
<1> QED
  BY ONLY Complete(Q), <1>1 DEF Complete, CompleteAt, Buffered, Streams, Now

LEMMA BecomesComplete ==
  ASSUME NEW R, Typed(R), Complete(R), Becomes(R)
  PROVE  Complete(Now)'
<1> DEFINE Q == [node |-> node', conn |-> conn']
<1>1. Forgets(R, Q)
  BY BecomesForgets
<1>2. Complete(Q)
  <2> HIDE DEF Q
  <2> QED
    BY <1>1, ForgetsComplete
<1> QED
  BY <1>2, PrimedComplete

----------------------------------------------------------------------------
\* What the slave does keeps the streams complete.

LEMMA DepartsComplete ==
  ASSUME Sound, Complete(Now), NEW n \in Node, Departs(n)
  PROVE  Complete(Now)'
<1>1. PICK Q : Typed(Q) /\ Becomes(Q) /\ \E drop \in BOOLEAN : Leaves(Now, Q, n, drop)
  BY DEF Departs
<1>2. Complete(Q)
  BY <1>1, LeavesComplete DEF Sound
<1> QED
  BY <1>1, <1>2, BecomesComplete

LEMMA DiesComplete ==
  ASSUME Sound, Complete(Now), NEW n \in Node, Dies(n)
  PROVE  Complete(Now)'
<1>1. PICK Q : Typed(Q) /\ Becomes(Q) /\ Crashes(Now, Q, n)
  BY DEF Dies
<1>2. Complete(Q)
  BY <1>1, CrashesComplete DEF Sound
<1> QED
  BY <1>1, <1>2, BecomesComplete

\* Server n reads from, or writes to, the connection to its master.
Own(R, Q, n) ==
  /\ \A p \in Node : p # n => Q.node[p] = R.node[p]
  /\ Q.node[n].up = R.node[n].up /\ Q.node[n].c = R.node[n].c /\ Q.node[n].slaves = R.node[n].slaves
  /\ SameFor(R, Q, n)
  /\ \A k \in Conns :
       /\ k # R.node[n].c => Q.conn[k] = R.conn[k]
       /\ Q.conn[k].s = R.conn[k].s /\ Q.conn[k].m = R.conn[k].m
       /\ Q.conn[k].sopen = R.conn[k].sopen /\ Q.conn[k].mopen = R.conn[k].mopen
       /\ Q.conn[k].up = R.conn[k].up /\ Q.conn[k].repl = R.conn[k].repl
       /\ Q.conn[k].buf = R.conn[k].buf /\ Q.conn[k].file = R.conn[k].file

LEMMA OwnOn ==
  ASSUME NEW R, NEW F, NEW Q, NEW n \in Node, Own(R, F, n), Own(F, Q, n)
  PROVE  Own(R, Q, n)
<1>1. R.node[n].c = F.node[n].c /\ R.node[n].slaves = F.node[n].slaves /\ SameFor(R, F, n) /\ SameFor(F, Q, n)
  BY DEF Own
<1>2. SameFor(R, Q, n)
  BY <1>1 DEF SameFor
<1> QED
  BY <1>2 DEF Own

LEMMA OwnLeaves ==
  ASSUME NEW R, NEW F, NEW Q, NEW n \in Node, Own(R, F, n), NEW drop \in BOOLEAN, Leaves(F, Q, n, drop)
  PROVE  Leaves(R, Q, n, drop)
<1>1. /\ F.node[n].up = R.node[n].up /\ F.node[n].child = R.node[n].child /\ F.node[n].c = R.node[n].c
      /\ F.node[n].slaves = R.node[n].slaves
      /\ R.node[n].slaves # <<>> => F.node[n].data = R.node[n].data /\ F.node[n].disk = R.node[n].disk
      /\ \A p \in Node : p # n => F.node[p] = R.node[p]
  BY DEF Own, SameFor
<1>2. /\ \A p \in Node : p # n => Q.node[p] = R.node[p]
      /\ Q.node[n].up = R.node[n].up /\ Q.node[n].child = R.node[n].child
      /\ Q.node[n].c = 0
      /\ Q.node[n].slaves = (IF drop THEN <<>> ELSE R.node[n].slaves)
      /\ Q.node[n].slaves # <<>> => Q.node[n].data = R.node[n].data /\ Q.node[n].disk = R.node[n].disk
  BY <1>1 DEF Leaves
<1>3. ASSUME NEW k \in Conns
      PROVE  /\ Q.conn[k].s = R.conn[k].s /\ Q.conn[k].m = R.conn[k].m
             /\ Q.conn[k].sopen <=> R.conn[k].sopen /\ k # R.node[n].c
             /\ Q.conn[k].mopen <=> R.conn[k].mopen /\ ~(drop /\ k \in Range(R.node[n].slaves))
             /\ Q.conn[k].up = R.conn[k].up /\ Q.conn[k].repl = R.conn[k].repl
             /\ Q.conn[k].buf = R.conn[k].buf /\ Q.conn[k].file = R.conn[k].file
             /\ k # R.node[n].c => Q.conn[k].out = R.conn[k].out /\ Q.conn[k].cmds = R.conn[k].cmds
  <2>1. /\ k # R.node[n].c => F.conn[k] = R.conn[k]
        /\ F.conn[k].s = R.conn[k].s /\ F.conn[k].m = R.conn[k].m
        /\ F.conn[k].sopen = R.conn[k].sopen /\ F.conn[k].mopen = R.conn[k].mopen
        /\ F.conn[k].up = R.conn[k].up /\ F.conn[k].repl = R.conn[k].repl
        /\ F.conn[k].buf = R.conn[k].buf /\ F.conn[k].file = R.conn[k].file
    BY DEF Own
  <2> QED
    BY <1>1, <2>1 DEF Leaves
<1> QED
  BY <1>2, <1>3 DEF Leaves

\* The other connections stay as they are, and so does what waits for the slaves.
LEMMA OwnOthers ==
  ASSUME NEW R, NEW Q, Linked(R), Complete(R), NEW n \in Node, Own(R, Q, n), NEW k \in Conns, Q.conn[k].mopen
  PROVE  Buffered(Q, k) /\ (k # R.node[n].c /\ Q.conn[k].up /\ Q.conn[k].sopen => Streams(Q, k))
<1>1. /\ k # R.node[n].c => Q.conn[k] = R.conn[k]
      /\ Q.conn[k].s = R.conn[k].s /\ Q.conn[k].m = R.conn[k].m
      /\ Q.conn[k].sopen = R.conn[k].sopen /\ R.conn[k].mopen
      /\ Q.conn[k].up = R.conn[k].up /\ Q.conn[k].repl = R.conn[k].repl
      /\ Q.conn[k].buf = R.conn[k].buf /\ Q.conn[k].file = R.conn[k].file
  BY DEF Own
<1>2. Buffered(R, k) /\ (R.conn[k].up /\ R.conn[k].sopen => Streams(R, k))
  BY <1>1 DEF Complete, CompleteAt
<1>3. SameFor(R, Q, R.conn[k].m)
  <2>1. R.conn[k].m \in Node
    BY <1>1, Feeding
  <2> QED
    BY <2>1 DEF Own, SameFor
<1>4. Buffered(Q, k)
  BY <1>1, <1>2, <1>3, BufferedSame
<1>5. ASSUME k # R.node[n].c, Q.conn[k].up, Q.conn[k].sopen PROVE Streams(Q, k)
  <2>1. R.conn[k].s \in Node /\ R.conn[k].s # n
    BY <1>1, <1>5 DEF Linked, Ends
  <2>2. Q.node[R.conn[k].s] = R.node[R.conn[k].s] /\ Q.conn[k] = R.conn[k]
    BY <1>5, <2>1 DEF Own
  <2> QED
    BY <1>1, <1>2, <1>3, <1>5, <2>2, StreamsSame
<1> QED
  BY <1>4, <1>5

\* Only the own connection has to be looked at.
LEMMA OwnComplete ==
  ASSUME NEW R, NEW Q, Linked(R), Complete(R), NEW n \in Node, Own(R, Q, n), R.node[n].c \in Conns,
         LET L == Q.conn[R.node[n].c] IN L.mopen /\ L.up /\ L.sopen => Streams(Q, R.node[n].c)
  PROVE  Complete(Q)
<1> SUFFICES ASSUME NEW k \in Conns, Q.conn[k].mopen
             PROVE  Buffered(Q, k) /\ (Q.conn[k].up /\ Q.conn[k].sopen => Streams(Q, k))
  BY DEF Complete, CompleteAt
<1>1. Buffered(Q, k) /\ (k # R.node[n].c /\ Q.conn[k].up /\ Q.conn[k].sopen => Streams(Q, k))
  BY OwnOthers
<1> QED
  BY <1>1

LEMMA ConsumedOwn ==
  ASSUME Sound, NEW n \in Node, node[n].c \in Conns, conn[node[n].c].out # <<>>
  PROVE  LET c == node[n].c
             L == Consumed(n).conn[c]
         IN  Own(Now, Consumed(n), n) /\ L.out = Tail(conn[c].out) /\ L.cmds = conn[c].cmds
<1> DEFINE c == node[n].c
           R == Consumed(n)
           M == conn[c]
<1>1. /\ R.node = node /\ R.conn[c] = [M EXCEPT !.out = Tail(M.out)]
      /\ \A j \in Conns : j # c => R.conn[j] = conn[j]
  BY ConsumedSound
<1>2. M \in Link
  BY NowIs, Fields DEF Sound
<1> HIDE DEF R, M
<1>3. LET L == R.conn[c]
      IN  /\ L.s = M.s /\ L.m = M.m /\ L.sopen = M.sopen /\ L.mopen = M.mopen /\ L.up = M.up /\ L.repl = M.repl
          /\ L.buf = M.buf /\ L.file = M.file /\ L.out = Tail(M.out) /\ L.cmds = M.cmds
  BY <1>1, <1>2 DEF Link
<1>4. ASSUME NEW k \in Conns
      PROVE  /\ k # node[n].c => R.conn[k] = conn[k]
             /\ R.conn[k].s = conn[k].s /\ R.conn[k].m = conn[k].m
             /\ R.conn[k].sopen = conn[k].sopen /\ R.conn[k].mopen = conn[k].mopen
             /\ R.conn[k].up = conn[k].up /\ R.conn[k].repl = conn[k].repl
             /\ R.conn[k].buf = conn[k].buf /\ R.conn[k].file = conn[k].file
  <2>1. CASE k = c
    BY <1>3, <2>1 DEF M
  <2>2. CASE k # c
    BY <1>1, <2>2
  <2> QED
    BY <2>1, <2>2
<1>5. Own(Now, R, n)
  BY <1>1, <1>4, NowIs DEF Own, SameFor
<1> QED
  BY <1>3, <1>5 DEF R, M

LEMMA SendsOwn ==
  ASSUME NEW R, Typed(R), Linked(R), NEW n \in Node, node[n].c \in Conns, R.node[n].c = node[n].c,
         NEW cmds \in Seq({"PING", "REPLCONF", "SYNC"})
  PROVE  LET c == node[n].c
             L == Sends(R, n, cmds).conn[c]
         IN  /\ Own(R, Sends(R, n, cmds), n) /\ L.out = R.conn[c].out
             /\ L.cmds = R.conn[c].cmds \/ L.cmds = R.conn[c].cmds \o cmds
<1> DEFINE c == node[n].c
           Q == Sends(R, n, cmds)
           M == R.conn[c]
<1>1. /\ Q.node = R.node /\ (Q.conn[c] = M \/ Q.conn[c] = [M EXCEPT !.cmds = M.cmds \o cmds])
      /\ \A j \in Conns : j # c => Q.conn[j] = R.conn[j]
  BY SendsSound
<1>2. M \in Link
  BY Fields
<1> HIDE DEF Q, M
<1>3. LET L == Q.conn[c]
      IN  /\ L.s = M.s /\ L.m = M.m /\ L.sopen = M.sopen /\ L.mopen = M.mopen /\ L.up = M.up /\ L.repl = M.repl
          /\ L.buf = M.buf /\ L.file = M.file /\ L.out = M.out /\ (L.cmds = M.cmds \/ L.cmds = M.cmds \o cmds)
  BY <1>1, <1>2 DEF Link
<1>4. ASSUME NEW k \in Conns
      PROVE  /\ k # c => Q.conn[k] = R.conn[k]
             /\ Q.conn[k].s = R.conn[k].s /\ Q.conn[k].m = R.conn[k].m
             /\ Q.conn[k].sopen = R.conn[k].sopen /\ Q.conn[k].mopen = R.conn[k].mopen
             /\ Q.conn[k].up = R.conn[k].up /\ Q.conn[k].repl = R.conn[k].repl
             /\ Q.conn[k].buf = R.conn[k].buf /\ Q.conn[k].file = R.conn[k].file
  <2>1. CASE k = c
    BY <1>3, <2>1 DEF M
  <2>2. CASE k # c
    BY <1>1, <2>2
  <2> QED
    BY <2>1, <2>2
<1>5. Own(R, Q, n)
  BY <1>1, <1>4 DEF Own, SameFor
<1> QED
  BY <1>3, <1>5 DEF Q, M

LEMMA ServerOwn ==
  ASSUME NEW R, Typed(R), NEW n \in Node, NEW N \in Server, NEW Q, SetsServer(R, Q, n, N),
         N.up = R.node[n].up, N.c = R.node[n].c, N.slaves = R.node[n].slaves, N.child = R.node[n].child,
         R.node[n].slaves # <<>> => N.data = R.node[n].data /\ N.disk = R.node[n].disk
  PROVE  Own(R, Q, n) /\ Q.node[n] = N /\ Q.conn = R.conn
<1>1. /\ Q.conn = R.conn /\ Q.node[n] = N
      /\ \A p \in Node : p # n => Q.node[p] = R.node[p]
  BY ServerSet
<1> QED
  BY <1>1 DEF Own, SameFor

\* What is known of the connection of n before the step.
LEMMA OwnStreams ==
  ASSUME Sound, Complete(Now), NEW n \in Node, node[n].c \in Conns
  PROVE  LET c == node[n].c
         IN  /\ conn[c].s = n /\ conn[c].m \in Node
             /\ conn[c].mopen /\ conn[c].up /\ conn[c].sopen => Streams(Now, c)
<1>1. node[n].c # 0
  BY ReplicationAssumption DEF Conns, Range
<1>2. Typed(Now) /\ Linked(Now)
  BY DEF Sound
<1>3. node[n].rs # "NONE"
  BY <1>1, <1>2, NowIs DEF Linked, Modes, Handshake
<1>4. conn[node[n].c].s = n /\ conn[node[n].c].m = node[n].mh /\ node[n].mh \in Node
  BY <1>1, <1>2, <1>3, NowIs, Linking
<1> QED
  BY <1>4, NowIs DEF Complete, CompleteAt

\* A step of a slave on its own connection.
LEMMA OwnStep ==
  ASSUME Sound, Complete(Now), NEW n \in Node, node[n].c \in Conns, NEW Q, Typed(Q), Becomes(Q), Own(Now, Q, n),
         Q.conn[node[n].c].mopen /\ Q.conn[node[n].c].up /\ Q.conn[node[n].c].sopen => Streams(Q, node[n].c)
  PROVE  Complete(Now)'
<1>1. Linked(Now) /\ Now.node[n].c = node[n].c
  BY NowIs DEF Sound
<1>2. Complete(Q)
  BY <1>1, OwnComplete
<1> QED
  BY <1>2, BecomesComplete

LEMMA OwnDeparts ==
  ASSUME NEW n \in Node, NEW F, Own(Now, F, n), Typed(F), F.node[n].c \in Conns, Becomes(BackToConnect(F, n))
  PROVE  Departs(n)
<1> DEFINE Q == BackToConnect(F, n)
<1>1. Typed(Q) /\ Leaves(F, Q, n, FALSE)
  BY BackToConnectEffect
<1>2. Becomes(Q)
  OBVIOUS
<1> HIDE DEF Q
<1>3. Leaves(Now, Q, n, FALSE)
  BY <1>1, OwnLeaves
<1> QED
  BY <1>1, <1>2, <1>3 DEF Departs

LEMMA NothingOwn ==
  ASSUME NEW n \in Node
  PROVE  Own(Now, Now, n)
BY DEF Own, SameFor

LEMMA SyncConnectedComplete ==
  ASSUME Sound, Complete(Now), NEW n \in Node, syncConnected(n)
  PROVE  Complete(Now)'
<1> DEFINE c == node[n].c
<1>1. Typed(Now) /\ Linked(Now) /\ node[n].rs = "CONNECTING" /\ node[n].rs \in Busy
  BY DEF Sound, syncConnected, Busy, Handshake
<1>2. node[n].c \in Conns
  BY <1>1, NowIs, Linking
<1>3. CASE Eof(n)
  <2>1. Becomes(BackToConnect(Now, n))
    BY <1>3 DEF syncConnected
  <2>2. Own(Now, Now, n) /\ Now.node[n].c \in Conns
    BY <1>2, NothingOwn, NowIs
  <2>3. Departs(n)
    BY <1>1, <2>1, <2>2, OwnDeparts
  <2> QED
    BY <2>3, DepartsComplete
<1>4. CASE ~Eof(n)
  <2> DEFINE S == Sends(Now, n, <<"PING">>)
             N == [S.node[n] EXCEPT !.rs = "RECEIVE_PONG"]
             Q == [S EXCEPT !.node[n].rs = "RECEIVE_PONG"]
  <2>1. Becomes(Q)
    BY <1>4 DEF syncConnected
  <2>2. Typed(S) /\ S.node = node /\ Own(Now, S, n) /\ S.conn[c].out = conn[c].out
        /\ (S.conn[c].cmds = conn[c].cmds \/ S.conn[c].cmds = conn[c].cmds \o <<"PING">>)
    <3>1. <<"PING">> \in Seq({"PING", "REPLCONF", "SYNC"})
      OBVIOUS
    <3>2. Follows(Now, S) /\ S.node = Now.node
      BY <1>1, <1>2, <3>1, SendsSound
    <3>3. Now.node[n].c = node[n].c
      BY NowIs
    <3>4. /\ Own(Now, S, n) /\ S.conn[c].out = Now.conn[c].out
          /\ S.conn[c].cmds = Now.conn[c].cmds \/ S.conn[c].cmds = Now.conn[c].cmds \o <<"PING">>
      BY <1>1, <1>2, <3>1, <3>3, SendsOwn
    <3> HIDE DEF S
    <3> QED
      BY <3>2, <3>4, NowIs DEF Follows
  <2> HIDE DEF S
  <2>3. S.node[n] \in Server
    BY <2>2, Fields
  <2>4. /\ N \in Server /\ N.up = S.node[n].up /\ N.c = S.node[n].c /\ N.slaves = S.node[n].slaves
        /\ N.child = S.node[n].child /\ N.data = S.node[n].data /\ N.disk = S.node[n].disk /\ N.rs = "RECEIVE_PONG"
    BY <2>3 DEF Server
  <2>5. SetsServer(S, Q, n, N)
    BY <2>2 DEF SetsServer, Typed
  <2> HIDE DEF N, Q
  <2>6. Own(S, Q, n) /\ Q.node[n] = N /\ Q.conn = S.conn /\ Typed(Q)
    <3>1. Typed(S)
      BY <2>2
    <3> HIDE DEF c
    <3> QED
      BY <2>4, <2>5, <3>1, ServerOwn, ServerSet
  <2>7. Own(Now, Q, n)
    BY <2>2, <2>6, OwnOn
  <2>8. ASSUME Q.conn[c].mopen, Q.conn[c].up, Q.conn[c].sopen PROVE Streams(Q, c)
    <3>1. /\ Q.conn[c].s = conn[c].s /\ Q.conn[c].m = conn[c].m /\ Q.conn[c].repl = conn[c].repl
          /\ Q.conn[c].mopen = conn[c].mopen /\ Q.conn[c].up = conn[c].up /\ Q.conn[c].sopen = conn[c].sopen
      BY <1>2, <2>7, NowIs DEF Own
    <3>2. conn[c].s = n /\ Streams(Now, c)
      BY <1>2, <2>8, <3>1, OwnStreams
    <3>3. conn[c].repl = "NONE" /\ "SYNC" \notin Range(conn[c].cmds) /\ Neutral(conn[c].out)
      BY <1>1, <3>2, NowIs DEF Streams, Handshake
    <3>4. "SYNC" \notin Range(Q.conn[c].cmds)
      <4>1. conn[c].cmds \in Seq({"PING", "REPLCONF", "SYNC"})
        <5>1. conn[c] \in Link
          BY <1>1, <1>2, NowIs, Fields
        <5> HIDE DEF c
        <5> QED
          BY <5>1 DEF Link
      <4> DEFINE t == conn[c].cmds
      <4>2. t \o <<"PING">> = Append(t, "PING")
        BY <4>1, AppendIsConcat
      <4>3. Range(Append(t, "PING")) = Range(t) \cup {"PING"}
        BY <4>1, AppendRange
      <4>4. Q.conn[c].cmds = t \/ Q.conn[c].cmds = Append(t, "PING")
        BY <2>2, <2>6, <4>2
      <4> HIDE DEF t, c
      <4>5. "SYNC" \notin Range(t)
        BY <3>3 DEF t
      <4>6. "SYNC" \notin Range(Append(t, "PING"))
        BY <4>3, <4>5
      <4> QED
        BY <4>4, <4>5, <4>6
    <3>5. Q.conn[c].repl = "NONE" /\ Q.conn[c].s = n /\ Neutral(Q.conn[c].out) /\ Q.node[n].rs = "RECEIVE_PONG"
      BY <2>2, <2>4, <2>6, <3>1, <3>2, <3>3
    <3> HIDE DEF c
    <3> QED
      BY <3>4, <3>5 DEF Streams
  <2> QED
    BY <1>2, <2>1, <2>6, <2>7, <2>8, OwnStep
<1> QED
  BY <1>3, <1>4

LEMMA SyncWithMasterComplete ==
  ASSUME Sound, Complete(Now), NEW n \in Node, syncWithMaster(n)
  PROVE  Complete(Now)'
<1> DEFINE c == node[n].c
           R == Consumed(n)
           N == [node[n] EXCEPT !.rs = "TRANSFER", !.got = "nothing"]
           T == [R EXCEPT !.node[n].rs = "TRANSFER", !.node[n].got = "nothing"]
           C == {"PING", "REPLCONF", "SYNC"}
<1>1. /\ Typed(Now) /\ Linked(Now) /\ node[n].rs = "RECEIVE_PONG" /\ node[n].rs \in Busy
      /\ conn[node[n].c].out # <<>>
  BY DEF Sound, syncWithMaster, Busy, Handshake, Readable
<1>2. node[n].c \in Conns /\ node[n] \in Server
  BY <1>1, NowIs, Linking, Fields
<1>3. Follows(Now, R) /\ R.node = node
  BY <1>1, <1>2, ConsumedSound
<1>4. Own(Now, R, n) /\ R.conn[c].out = Tail(conn[c].out)
  BY <1>1, <1>2, ConsumedOwn
<1>5. \/ Becomes(BackToConnect(R, n))
      \/ Becomes(BackToConnect(Sends(R, n, <<"SYNC">>), n))
      \/ \E cmds \in Seq(C) : Becomes(Sends(T, n, cmds))
  <2>1. <<"SYNC">> \in Seq(C) /\ <<"REPLCONF", "SYNC">> \in Seq(C)
    OBVIOUS
  <2>2. \/ Becomes(BackToConnect(R, n))
        \/ Becomes(Sends(T, n, <<"SYNC">>)) \/ Becomes(Sends(T, n, <<"REPLCONF", "SYNC">>))
        \/ Becomes(BackToConnect(Sends(R, n, <<"SYNC">>), n))
    BY DEF syncWithMaster
  <2> HIDE DEF T, R, C
  <2> QED
    BY <2>1, <2>2
<1> HIDE DEF R
<1>6. Typed(R) /\ Linked(R) /\ R.node[n].c = node[n].c
  BY <1>3 DEF Follows
<1>7. CASE Becomes(BackToConnect(R, n))
  BY <1>2, <1>4, <1>6, <1>7, OwnDeparts, DepartsComplete
<1>8. CASE Becomes(BackToConnect(Sends(R, n, <<"SYNC">>), n))
  <2> DEFINE S == Sends(R, n, <<"SYNC">>)
  <2>1. <<"SYNC">> \in Seq({"PING", "REPLCONF", "SYNC"})
    OBVIOUS
  <2>2. Own(R, S, n)
    BY <1>2, <1>6, <2>1, SendsOwn
  <2>3. Typed(S) /\ S.node[n].c = node[n].c
    BY <1>2, <1>6, <2>1, SendsSound DEF Follows
  <2>4. Becomes(BackToConnect(S, n))
    BY <1>8
  <2> HIDE DEF S
  <2>5. Own(Now, S, n)
    BY <1>4, <2>2, OwnOn
  <2> QED
    BY <1>2, <2>3, <2>4, <2>5, OwnDeparts, DepartsComplete
<1>9. ASSUME NEW cmds \in Seq({"PING", "REPLCONF", "SYNC"}), Becomes(Sends(T, n, cmds)) PROVE Complete(Now)'
  <2>1. SetsServer(R, T, n, N)
    BY <1>3, <1>6 DEF SetsServer, Typed, Server
  <2>2. /\ N \in Server /\ N.up = R.node[n].up /\ N.c = R.node[n].c /\ N.slaves = R.node[n].slaves
        /\ N.child = R.node[n].child /\ N.data = R.node[n].data /\ N.disk = R.node[n].disk /\ N.rs = "TRANSFER"
        /\ SameTies(R.node[n], N)
    BY <1>1, <1>2, <1>3 DEF Server, SameTies, Busy, Handshake
  <2> DEFINE Q == Sends(T, n, cmds)
  <2>3. Becomes(Q)
    BY <1>9
  <2> HIDE DEF N, T
  <2>4. Own(R, T, n) /\ T.node[n] = N /\ T.conn = R.conn /\ Typed(T) /\ Linked(T)
    BY <1>6, <2>1, <2>2, ServerOwn, ServerKeeps DEF Follows
  <2>5. T.node[n].c = node[n].c
    BY <1>6, <2>2, <2>4
  <2>6. Own(T, Q, n) /\ Q.conn[c].out = T.conn[c].out
    BY <1>2, <2>4, <2>5, SendsOwn
  <2>7. Typed(Q) /\ Q.node = T.node
    BY <1>2, <2>4, SendsSound DEF Follows
  <2> HIDE DEF Q
  <2>8. Own(Now, Q, n)
    BY <1>4, <2>4, <2>6, OwnOn
  <2>9. ASSUME Q.conn[c].mopen, Q.conn[c].up, Q.conn[c].sopen PROVE Streams(Q, c)
    <3>1. /\ Q.conn[c].s = conn[c].s /\ Q.conn[c].m = conn[c].m /\ Q.conn[c].repl = conn[c].repl
          /\ Q.conn[c].mopen = conn[c].mopen /\ Q.conn[c].up = conn[c].up /\ Q.conn[c].sopen = conn[c].sopen
      BY <1>2, <2>8, NowIs DEF Own
    <3>2. conn[c].s = n /\ Streams(Now, c)
      BY <1>2, <2>9, <3>1, OwnStreams
    <3>3. conn[c].repl = "NONE" /\ Neutral(conn[c].out)
      BY <1>1, <3>2, NowIs DEF Streams, Handshake
    <3>4. Neutral(Tail(conn[c].out))
      <4>1. conn[c].out \in Seq(Item) /\ conn[c].out # <<>>
        BY <1>1, <1>2, NowIs, Fields
      <4> HIDE DEF c
      <4> QED
        BY <3>3, <4>1, FirstRead
    <3>5. Q.conn[c].repl = "NONE" /\ Q.conn[c].s = n /\ Neutral(Q.conn[c].out) /\ Q.node[n].rs = "TRANSFER"
      BY <1>4, <2>2, <2>4, <2>6, <2>7, <3>1, <3>2, <3>3, <3>4
    <3> HIDE DEF c
    <3> QED
      BY <3>5 DEF Streams, Handshake
  <2> QED
    BY <1>2, <2>3, <2>7, <2>8, <2>9, OwnStep
<1> HIDE DEF T
<1> QED
  BY <1>5, <1>7, <1>8, <1>9

\* Server n reads the next item of its master, and executes it or, while it receives the dump, counts it.
Reads(Q, n) ==
  LET c == node[n].c
      first == Head(conn[c].out)
  IN  /\ \A p \in Node : p # n => Q.node[p].data = node[p].data
      /\ Q.conn[c].s = conn[c].s /\ Q.conn[c].m = conn[c].m /\ Q.conn[c].repl = conn[c].repl
      /\ Q.conn[c].mopen = conn[c].mopen /\ Q.conn[c].sopen = conn[c].sopen /\ Q.conn[c].up = conn[c].up
      /\ conn[c].out # <<>> /\ Q.conn[c].out = Tail(conn[c].out)
      /\ node[n].rs \in {"TRANSFER", "CONNECTED"}
      /\ Q.node[n].rs = IF first[1] = "LAST" THEN "CONNECTED" ELSE node[n].rs
      /\ \/ Q.node[n].data = Eff(node[n].data, first)
         \/ (node[n].rs = "TRANSFER" <=> first[1] # "LAST") /\ Q.node[n].data = node[n].data

LEMMA ReadStreams ==
  ASSUME OneDatabase, Sound, Complete(Now), NEW n \in Node, node[n].c \in Conns, NEW Q, Reads(Q, n)
  PROVE  Q.conn[node[n].c].mopen /\ Q.conn[node[n].c].up /\ Q.conn[node[n].c].sopen => Streams(Q, node[n].c)
<1> DEFINE c == node[n].c
           m == conn[c].m
           t == conn[c].out
           D == node[n].data
<1> SUFFICES ASSUME Q.conn[c].mopen, Q.conn[c].up, Q.conn[c].sopen PROVE Streams(Q, c)
  OBVIOUS
<1>1. conn[c].s = n /\ m \in Node /\ Streams(Now, c)
  <2>1. conn[c].mopen /\ conn[c].up /\ conn[c].sopen
    BY DEF Reads
  <2> QED
    BY <2>1, OwnStreams
<1>2. t \in Seq(Item) /\ t # <<>> /\ D \in Data
  BY NowIs, Fields DEF Sound, Reads
<1>3. /\ Q.conn[c].s = n /\ Q.conn[c].m = m /\ Q.conn[c].repl = conn[c].repl /\ Q.conn[c].out = Tail(t)
      /\ node[n].rs \in {"TRANSFER", "CONNECTED"}
      /\ Q.node[n].rs = IF Head(t)[1] = "LAST" THEN "CONNECTED" ELSE node[n].rs
      /\ \/ Q.node[n].data = Eff(D, Head(t))
         \/ (node[n].rs = "TRANSFER" <=> Head(t)[1] # "LAST") /\ Q.node[n].data = D
      /\ \A p \in Node : p # n => Q.node[p].data = node[p].data
  BY <1>1 DEF Reads
<1>4. /\ conn[c].repl # "ONLINE" => Neutral(t) /\ node[n].rs # "CONNECTED"
      /\ conn[c].repl = "ONLINE" /\ node[n].rs = "TRANSFER" => OneLast(t)
      /\ conn[c].repl = "ONLINE" /\ node[n].rs = "CONNECTED" => NoLast(t)
      /\ conn[c].repl = "ONLINE" => Executed(D, 0, t) = node[m].data
      /\ conn[c].repl # "NONE" => n # m
  BY <1>1, NowIs DEF Streams
<1> HIDE DEF c, m, t, D
<1>5. /\ Neutral(t) => Neutral(Tail(t)) /\ Head(t)[1] \in Silence
      /\ NoLast(t) => NoLast(Tail(t)) /\ Head(t)[1] # "LAST"
      /\ OneLast(t) /\ Head(t)[1] = "LAST" => NoLast(Tail(t))
      /\ OneLast(t) /\ Head(t)[1] # "LAST" => OneLast(Tail(t)) /\ Head(t)[1] \in Silence
  BY <1>2, FirstRead
<1>6. Head(t)[1] \in Silence => Head(t)[1] # "LAST" /\ Eff(D, Head(t)) = D
  BY DEF Eff, Silence
<1>7. CASE conn[c].repl # "ONLINE"
  <2>1. Neutral(Tail(t)) /\ Q.node[n].rs = "TRANSFER"
    BY <1>3, <1>4, <1>5, <1>6, <1>7
  <2> QED
    BY <1>3, <1>4, <1>7, <2>1 DEF Streams, Handshake
<1>8. CASE conn[c].repl = "ONLINE"
  <2>1. Q.node[n].data = Eff(D, Head(t))
    BY <1>3, <1>4, <1>5, <1>6, <1>8
  <2>2. Executed(Q.node[n].data, 0, Tail(t)) = node[m].data
    BY <1>2, <1>4, <1>8, <2>1, ExecutedHead
  <2>3. Q.node[m].data = node[m].data
    BY <1>1, <1>3, <1>4, <1>8
  <2>4. /\ Q.node[n].rs = "TRANSFER" => OneLast(Tail(t))
        /\ Q.node[n].rs = "CONNECTED" => NoLast(Tail(t))
        /\ Q.node[n].rs \in {"TRANSFER", "CONNECTED"}
    <3>1. CASE Head(t)[1] = "LAST"
      BY <1>3, <1>4, <1>5, <1>8, <3>1
    <3>2. CASE Head(t)[1] # "LAST"
      BY <1>3, <1>4, <1>5, <1>8, <3>2
    <3> QED
      BY <3>1, <3>2
  <2> QED
    BY <1>3, <1>4, <1>8, <2>2, <2>3, <2>4 DEF Streams, Handshake
<1> QED
  BY <1>7, <1>8

\* The slave changes what it knows of the transfer, and reads.
LEMMA ReadOwn ==
  ASSUME Sound, NEW n \in Node, node[n].c \in Conns, node[n].rs \in {"TRANSFER", "CONNECTED"}, conn[node[n].c].out # <<>>,
         NEW N \in Server, N.up = node[n].up, N.c = node[n].c, N.slaves = node[n].slaves, N.child = node[n].child,
         node[n].slaves # <<>> => N.data = node[n].data /\ N.disk = node[n].disk,
         NEW Q, SetsServer(Consumed(n), Q, n, N)
  PROVE  LET c == node[n].c
         IN  /\ Own(Now, Q, n) /\ Typed(Q) /\ Q.node[n] = N
             /\ Q.conn[c].out = Tail(conn[c].out)
             /\ \A p \in Node : p # n => Q.node[p].data = node[p].data
             /\ Q.conn[c].s = conn[c].s /\ Q.conn[c].m = conn[c].m /\ Q.conn[c].repl = conn[c].repl
             /\ Q.conn[c].mopen = conn[c].mopen /\ Q.conn[c].sopen = conn[c].sopen /\ Q.conn[c].up = conn[c].up
<1> DEFINE c == node[n].c
           R == Consumed(n)
<1>1. Follows(Now, R) /\ R.node = node
  BY ConsumedSound
<1>2. Own(Now, R, n) /\ R.conn[c].out = Tail(conn[c].out)
  BY ConsumedOwn
<1>3. SetsServer(R, Q, n, N) /\ Typed(R)
  BY <1>1 DEF Follows
<1> HIDE DEF R
<1>4. Own(R, Q, n) /\ Q.node[n] = N /\ Q.conn = R.conn
  <2>1. /\ N.up = R.node[n].up /\ N.c = R.node[n].c /\ N.slaves = R.node[n].slaves /\ N.child = R.node[n].child
        /\ R.node[n].slaves # <<>> => N.data = R.node[n].data /\ N.disk = R.node[n].disk
    BY <1>1
  <2> QED
    BY <1>3, <2>1, ServerOwn
<1>5. Typed(Q)
  BY <1>3, ServerSet
<1>6. Own(Now, Q, n)
  BY <1>2, <1>4, OwnOn
<1> QED
  BY <1>2, <1>4, <1>5, <1>6, NowIs DEF Own

LEMMA ReadSyncComplete ==
  ASSUME OneDatabase, Sound, Complete(Now), NEW n \in Node, readSyncBulkPayload(n)
  PROVE  Complete(Now)'
<1> DEFINE c == node[n].c
           R == Consumed(n)
           item == Head(conn[c].out)
           D == [R EXCEPT !.node[n].disk = item[2]]
           E == [R EXCEPT !.node[n].disk = item[2], !.node[n].data = <<>>]
           G(g) == [R EXCEPT !.node[n].got = g]
<1>1. /\ Typed(Now) /\ Linked(Now) /\ node[n].rs = "TRANSFER" /\ node[n].rs \in Busy
      /\ conn[node[n].c].out # <<>>
  BY DEF Sound, readSyncBulkPayload, Busy, Handshake, Readable
<1>2. node[n].c \in Conns /\ node[n] \in Server /\ node[n].slaves = <<>>
  BY <1>1, NowIs, Linking, Fields
<1>3. Follows(Now, R) /\ R.node = node /\ item \in Item
  <2>1. Next1(c) \in Item /\ Next1(c) = item
    BY <1>1, <1>2, ConsumedSound DEF Next1
  <2> QED
    BY <1>1, <1>2, <2>1, ConsumedSound
<1>4. Own(Now, R, n)
  BY <1>1, <1>2, ConsumedOwn
<1>5. \/ item[1] # "LAST" /\ (Becomes(R) \/ Becomes(G("size")) \/ Becomes(G("part")))
      \/ Becomes(BackToConnect(R, n))
      \/ item[1] = "LAST" /\ Becomes(Loaded(D, n, item[2]))
      \/ item[1] = "LAST" /\ Becomes(BackToConnect(E, n))
  BY DEF readSyncBulkPayload, Next1
<1>6. R = Consumed(n)
  OBVIOUS
<1> HIDE DEF R
<1>7. Typed(R) /\ Linked(R) /\ R.node[n].c = node[n].c
  BY <1>3 DEF Follows
\* What is read before the end of the dump is counted.
<1>8. ASSUME item[1] # "LAST", NEW N \in Server, N = node[n] \/ (\E g \in {"size", "part"} : N = [node[n] EXCEPT !.got = g]),
             NEW Q, SetsServer(R, Q, n, N), Becomes(Q)
      PROVE  Complete(Now)'
  <2>1. /\ N.up = node[n].up /\ N.c = node[n].c /\ N.slaves = node[n].slaves /\ N.child = node[n].child
        /\ N.data = node[n].data /\ N.disk = node[n].disk /\ N.rs = "TRANSFER"
    BY <1>1, <1>2, <1>8 DEF Server
  <2>2. SetsServer(Consumed(n), Q, n, N)
    BY <1>6, <1>8
  <2>3. node[n].rs \in {"TRANSFER", "CONNECTED"}
    BY <1>1
  <2>4. /\ Own(Now, Q, n) /\ Typed(Q) /\ Q.node[n] = N
        /\ Q.conn[c].out = Tail(conn[c].out)
        /\ \A p \in Node : p # n => Q.node[p].data = node[p].data
        /\ Q.conn[c].s = conn[c].s /\ Q.conn[c].m = conn[c].m /\ Q.conn[c].repl = conn[c].repl
        /\ Q.conn[c].mopen = conn[c].mopen /\ Q.conn[c].sopen = conn[c].sopen /\ Q.conn[c].up = conn[c].up
    BY <1>1, <1>2, <2>1, <2>2, <2>3, ReadOwn
  <2>5. Reads(Q, n)
    BY <1>1, <1>8, <2>1, <2>3, <2>4 DEF Reads
  <2>6. Q.conn[c].mopen /\ Q.conn[c].up /\ Q.conn[c].sopen => Streams(Q, c)
    BY <1>2, <2>5, ReadStreams
  <2> QED
    BY <1>2, <1>8, <2>4, <2>6, OwnStep
<1>9. CASE item[1] # "LAST" /\ Becomes(R)
  <2>1. SetsServer(R, R, n, node[n])
    BY <1>3, <1>7 DEF SetsServer, Typed
  <2> QED
    BY <1>2, <1>8, <1>9, <2>1
<1>10. ASSUME NEW g \in {"size", "part"}, item[1] # "LAST", Becomes(G(g)) PROVE Complete(Now)'
  <2> DEFINE N == [node[n] EXCEPT !.got = g]
             Q == G(g)
  <2>1. SetsServer(R, Q, n, N)
    BY <1>3, <1>7 DEF SetsServer, Typed
  <2>2. N \in Server
    BY <1>2 DEF Server
  <2>3. Becomes(Q)
    BY <1>10
  <2> HIDE DEF Q
  <2> QED
    BY <1>8, <1>10, <2>1, <2>2, <2>3
<1>11. CASE Becomes(BackToConnect(R, n))
  BY <1>2, <1>4, <1>7, <1>11, OwnDeparts, DepartsComplete
<1>12. item[1] = "LAST" => item[2] \in Data
  BY <1>3, ItemKinds
<1>13. CASE item[1] = "LAST" /\ Becomes(BackToConnect(E, n))
  <2> DEFINE N == [node[n] EXCEPT !.disk = item[2], !.data = <<>>]
  <2>1. SetsServer(R, E, n, N)
    BY <1>3, <1>7 DEF SetsServer, Typed, Server
  <2>2. /\ N \in Server /\ N.up = R.node[n].up /\ N.c = R.node[n].c /\ N.slaves = R.node[n].slaves
        /\ N.child = R.node[n].child
    BY <1>2, <1>3, <1>12, <1>13, EmptyLists DEF Server
  <2> HIDE DEF N, E
  <2>3. R.node[n].slaves = <<>>
    BY <1>2, <1>3
  <2>4. Own(R, E, n) /\ E.node[n] = N
    BY <1>7, <2>1, <2>2, <2>3, ServerOwn
  <2>5. Typed(E)
    BY <1>7, <2>1, <2>2, ServerSet
  <2>6. Own(Now, E, n) /\ E.node[n].c \in Conns
    BY <1>2, <1>4, <1>7, <2>2, <2>4, OwnOn
  <2>7. Departs(n)
    BY <1>13, <2>5, <2>6, OwnDeparts
  <2> QED
    BY <2>7, DepartsComplete
<1>14. CASE item[1] = "LAST" /\ Becomes(Loaded(D, n, item[2]))
  <2> DEFINE N == [node[n] EXCEPT !.disk = item[2], !.data = item[2], !.rs = "CONNECTED", !.sel = 0]
             Q == Loaded(D, n, item[2])
  <2>1. SetsServer(R, Q, n, N)
    BY <1>3, <1>7 DEF SetsServer, Loaded, Typed, Server
  <2>2. item[2] \in Data /\ 0 \in Db
    BY <1>12, <1>14, EmptyLists
  <2>3. /\ N \in Server /\ N.up = node[n].up /\ N.c = node[n].c /\ N.slaves = node[n].slaves
        /\ N.child = node[n].child /\ N.rs = "CONNECTED" /\ N.data = item[2]
    BY <1>2, <2>2 DEF Server
  <2>4. Becomes(Q)
    BY <1>14
  <2> HIDE DEF N, Q, D
  <2>5. SetsServer(Consumed(n), Q, n, N)
    BY <1>6, <2>1
  <2>6. node[n].rs \in {"TRANSFER", "CONNECTED"}
    BY <1>1
  <2>7. /\ Own(Now, Q, n) /\ Typed(Q) /\ Q.node[n] = N
        /\ Q.conn[c].out = Tail(conn[c].out)
        /\ \A p \in Node : p # n => Q.node[p].data = node[p].data
        /\ Q.conn[c].s = conn[c].s /\ Q.conn[c].m = conn[c].m /\ Q.conn[c].repl = conn[c].repl
        /\ Q.conn[c].mopen = conn[c].mopen /\ Q.conn[c].sopen = conn[c].sopen /\ Q.conn[c].up = conn[c].up
    BY <1>1, <1>2, <2>3, <2>5, <2>6, ReadOwn
  <2>8. N.data = Eff(node[n].data, item)
    BY <1>14, <2>3 DEF Eff
  <2>9. Reads(Q, n)
    BY <1>1, <1>14, <2>3, <2>6, <2>7, <2>8 DEF Reads
  <2>10. Q.conn[c].mopen /\ Q.conn[c].up /\ Q.conn[c].sopen => Streams(Q, c)
    BY <1>2, <2>9, ReadStreams
  <2> QED
    BY <1>2, <2>4, <2>7, <2>10, OwnStep
<1> HIDE DEF D, E, item
<1>15. (Becomes(G("size")) \/ Becomes(G("part"))) /\ item[1] # "LAST" => \E g \in {"size", "part"} : Becomes(G(g))
  OBVIOUS
<1> HIDE DEF G
<1> QED
  BY <1>5, <1>9, <1>10, <1>11, <1>13, <1>14, <1>15

\* What a write of n does.
Writes(R, Q, n, w) ==
  /\ Typed(Q)
  /\ Q.node[n] = [R.node[n] EXCEPT !.data = Append(@, <<w, 0>>)]
  /\ \A p \in Node : p # n => Q.node[p] = R.node[p]
  /\ \A k \in Conns : /\ k \in Range(R.node[n].slaves) => Q.conn[k] = Fed(R.conn[k], 0, w)
                      /\ k \notin Range(R.node[n].slaves) => Q.conn[k] = R.conn[k]
                      /\ Q.conn[k].s = R.conn[k].s /\ Q.conn[k].m = R.conn[k].m /\ Q.conn[k].up = R.conn[k].up
                      /\ Q.conn[k].sopen = R.conn[k].sopen /\ Q.conn[k].mopen = R.conn[k].mopen

LEMMA WritesIs ==
  ASSUME NEW R, Typed(R), NEW n \in Node, NEW w \in Nat
  PROVE  Writes(R, Written(R, n, 0, w), n, w)
<1> DEFINE Q == Written(R, n, 0, w)
<1>1. 0 \in Db
  BY EmptyLists
<1>2. ASSUME NEW d \in Db, NEW k \in Conns
      PROVE  LET V == Written(R, n, d, w)
             IN  /\ Typed(V)
                 /\ V.node[n] = [R.node[n] EXCEPT !.data = Append(@, <<w, d>>)]
                 /\ \A p \in Node : p # n => V.node[p] = R.node[p]
                 /\ V.conn[k] = IF k \in Range(R.node[n].slaves) THEN Fed(R.conn[k], d, w) ELSE R.conn[k]
  BY WrittenEffect
<1>3. ASSUME NEW d \in Db
      PROVE  LET V == Written(R, n, d, w)
             IN  /\ Typed(V)
                 /\ V.node[n] = [R.node[n] EXCEPT !.data = Append(@, <<w, d>>)]
                 /\ \A p \in Node : p # n => V.node[p] = R.node[p]
  BY WrittenEffect
<1>4. /\ Typed(Q)
      /\ Q.node[n] = [R.node[n] EXCEPT !.data = Append(@, <<w, 0>>)]
      /\ \A p \in Node : p # n => Q.node[p] = R.node[p]
  BY <1>1, <1>3
<1>5. \A k \in Conns : Q.conn[k] = IF k \in Range(R.node[n].slaves) THEN Fed(R.conn[k], 0, w) ELSE R.conn[k]
  BY <1>1, <1>2
<1> HIDE DEF Q
<1>6. ASSUME NEW k \in Conns
      PROVE  /\ Q.conn[k].s = R.conn[k].s /\ Q.conn[k].m = R.conn[k].m /\ Q.conn[k].up = R.conn[k].up
             /\ Q.conn[k].sopen = R.conn[k].sopen /\ Q.conn[k].mopen = R.conn[k].mopen
  <2> DEFINE L == R.conn[k]
             M == Fed(L, 0, w)
  <2>1. L \in Link
    BY Fields
  <2>2. Q.conn[k] = M \/ Q.conn[k] = L
    BY <1>5
  <2> HIDE DEF L
  <2>3. M.s = L.s /\ M.m = L.m /\ M.up = L.up /\ M.sopen = L.sopen /\ M.mopen = L.mopen
    BY <1>1, <2>1, FedEffect
  <2> HIDE DEF M
  <2> QED
    BY <2>2, <2>3 DEF L
<1>7. Writes(R, Q, n, w)
  BY <1>4, <1>5, <1>6 DEF Writes
<1> QED
  BY <1>7 DEF Q

\* A write of n: what it holds, and what it has for its slaves, go on together.
LEMMA WrittenOthers ==
  ASSUME OneDatabase, NEW R, Typed(R), Linked(R), NEW n \in Node, NEW w \in Nat, NEW k \in Conns, R.conn[k].mopen,
         NEW Q, Writes(R, Q, n, w)
  PROVE  /\ Buffered(R, k) => Buffered(Q, k)
         /\ R.conn[k].up /\ R.conn[k].sopen /\ R.conn[k].s # n /\ Streams(R, k) => Streams(Q, k)
<1> DEFINE L == R.conn[k]
           M == Fed(L, 0, w)
           f == Feed(L, 0, w)
           S == Range(R.node[n].slaves)
           N == [R.node[n] EXCEPT !.data = Append(@, <<w, 0>>)]
<1>1. L \in Link /\ 0 \in Db /\ L.out \in Seq(Item) /\ L.buf \in Seq(Item) /\ R.node[n] \in Server
  BY Fields, EmptyLists
<1>2. /\ Q.node[n] = N /\ \A p \in Node : p # n => Q.node[p] = R.node[p]
      /\ k \in S => Q.conn[k] = M
      /\ k \notin S => Q.conn[k] = L
  BY DEF Writes
<1>3. /\ N.data = Append(R.node[n].data, <<w, 0>>)
      /\ N.disk = R.node[n].disk /\ N.child = R.node[n].child /\ N.rs = R.node[n].rs
  BY <1>1 DEF Server
<1>4. L.m \in Node /\ (L.repl # "NONE" => k \in Range(R.node[L.m].slaves))
  BY Feeding
<1> HIDE DEF N
<1>5. CASE k \notin S
  <2>1. Q.conn[k] = L
    BY <1>2, <1>5
  <2>2. L.m # n \/ L.repl = "NONE"
    BY <1>4, <1>5
  <2>3. L.m # n => SameFor(R, Q, L.m)
    BY <1>2, <1>4 DEF SameFor
  <2>4. ASSUME Buffered(R, k) PROVE Buffered(Q, k)
    <3>1. CASE L.repl = "NONE"
      BY <2>1, <2>4, <3>1 DEF Buffered
    <3>2. CASE L.m # n
      BY <2>1, <2>3, <2>4, <3>2, BufferedSame
    <3> QED
      BY <2>2, <3>1, <3>2
  <2>5. ASSUME L.sopen, L.s # n, Streams(R, k) PROVE Streams(Q, k)
    <3>1. L.s \in Node /\ Q.node[L.s] = R.node[L.s]
      BY <1>2, <2>5 DEF Linked, Ends
    <3>2. CASE L.repl = "NONE"
      BY <2>1, <2>5, <3>1, <3>2 DEF Streams
    <3>3. CASE L.m # n
      BY <2>1, <2>3, <2>5, <3>1, <3>3, StreamsSame
    <3> QED
      BY <2>2, <3>2, <3>3
  <2> QED
    BY <2>4, <2>5
<1>6. CASE k \in S
  <2>1. L.m = n /\ L.repl # "NONE"
    BY <1>6 DEF Linked, SlavesKnown
  <2>2. /\ f \in Seq(Item) /\ NoLast(f)
        /\ M.s = L.s /\ M.m = L.m /\ M.up = L.up /\ M.repl = L.repl /\ M.file = L.file /\ M.cmds = L.cmds
        /\ L.repl = "WAIT_BGSAVE_START" => M.buf = L.buf /\ M.out = L.out
        /\ L.repl \in {"WAIT_BGSAVE_END", "SEND_BULK"} => M.buf = L.buf \o f /\ M.out = L.out
        /\ L.repl = "ONLINE" => M.buf = L.buf
        /\ L.repl = "ONLINE" /\ L.up /\ L.sopen => M.out = L.out \o f
    <3>1. \A D \in Data : f \in Seq(Item) /\ NoLast(f)
      BY <1>1, FeedExecuted
    <3>2. <<>> \in Data
      BY EmptyLists
    <3>3. L \in Link /\ 0 \in Db /\ L.repl # "NONE"
      BY <1>1, <2>1
    <3> HIDE DEF L
    <3>4. /\ M.s = L.s /\ M.m = L.m /\ M.up = L.up /\ M.repl = L.repl /\ M.file = L.file /\ M.cmds = L.cmds
          /\ L.repl = "WAIT_BGSAVE_START" => M.buf = L.buf /\ M.out = L.out
          /\ L.repl \in {"WAIT_BGSAVE_END", "SEND_BULK"} => M.buf = L.buf \o f /\ M.out = L.out
          /\ L.repl \in {"NONE", "ONLINE"} => M.buf = L.buf
          /\ L.repl \in {"NONE", "ONLINE"} /\ L.up /\ L.sopen => M.out = L.out \o f
      BY <3>3, FedEffect
    <3> HIDE DEF M, f
    <3> QED
      BY <3>1, <3>2, <3>4
  <2>3. \A D \in Data, t \in Seq(Item) : Executed(D, 0, t \o f) = Append(Executed(D, 0, t), <<w, 0>>)
    BY <1>1, ExecutedFed
  <2>4. Q.conn[k] = M
    BY <1>2, <1>6
  <2>5. L.repl \in {"WAIT_BGSAVE_START", "WAIT_BGSAVE_END", "SEND_BULK", "ONLINE"}
    BY <1>1, <2>1 DEF Link
  <2>6. L.file \in Data /\ R.node[n].child.snap \in Data
    BY <1>1 DEF Link, Server, Child
  <2> HIDE DEF M, f
  <2>7. ASSUME Buffered(R, k) PROVE Buffered(Q, k)
    <3> DEFINE A == R.node[n]
    <3>1. /\ L.repl \in {"NONE", "WAIT_BGSAVE_START"} => Neutral(L.buf)
          /\ NoLast(L.buf)
          /\ L.repl = "WAIT_BGSAVE_END" /\ A.child.st \in {"running", "ok"}
             => Executed(A.child.snap, 0, L.buf) = A.data
          /\ L.repl = "WAIT_BGSAVE_END" /\ A.child.st = "ok" => A.disk = A.child.snap
          /\ L.repl = "SEND_BULK" => Executed(L.file, 0, L.buf) = A.data
      BY <2>1, <2>7 DEF Buffered
    <3>2. NoLast(M.buf)
      <4>1. NoLast(L.buf \o f)
        BY <1>1, <2>2, <3>1, NoLastOn
      <4> QED
        BY <2>2, <2>5, <3>1, <4>1
    <3>3. L.repl = "WAIT_BGSAVE_END" /\ A.child.st \in {"running", "ok"}
          => Executed(A.child.snap, 0, M.buf) = N.data
      BY <1>1, <1>3, <2>2, <2>3, <2>6, <3>1
    <3>4. L.repl = "SEND_BULK" => Executed(L.file, 0, M.buf) = N.data
      BY <1>1, <1>3, <2>2, <2>3, <2>6, <3>1
    <3>5. L.repl = "WAIT_BGSAVE_START" => Neutral(M.buf)
      BY <2>2, <3>1
    <3> HIDE DEF L
    <3>6. M.m = n /\ M.repl = L.repl /\ M.repl # "NONE" /\ M.file = L.file /\ N.child = A.child /\ N.disk = A.disk
      BY <1>3, <2>1, <2>2
    <3> HIDE DEF A
    <3>7. /\ M.repl \in {"NONE", "WAIT_BGSAVE_START"} => Neutral(M.buf)
          /\ NoLast(M.buf)
          /\ M.repl = "WAIT_BGSAVE_END" /\ N.child.st \in {"running", "ok"}
             => Executed(N.child.snap, 0, M.buf) = N.data
          /\ M.repl = "WAIT_BGSAVE_END" /\ N.child.st = "ok" => N.disk = N.child.snap
          /\ M.repl = "SEND_BULK" => Executed(M.file, 0, M.buf) = N.data
      BY <3>1, <3>2, <3>3, <3>4, <3>5, <3>6
    <3>8. Q.conn[k] = M /\ Q.node[M.m] = N
      BY <1>2, <2>4, <3>6
    <3> QED
      BY <3>7, <3>8 DEF Buffered
  <2>8. ASSUME L.up, L.sopen, L.s # n, Streams(R, k) PROVE Streams(Q, k)
    <3> DEFINE B == R.node[L.s]
    <3>1. L.s \in Node /\ Q.node[L.s] = B /\ B.data \in Data
      BY <1>2, <2>8, Fields DEF Linked, Ends
    <3>2. /\ L.repl # "ONLINE" => Neutral(L.out) /\ B.rs # "CONNECTED"
          /\ B.rs \in Handshake => L.repl = "NONE" /\ "SYNC" \notin Range(L.cmds)
          /\ L.repl = "ONLINE" /\ B.rs = "TRANSFER" => OneLast(L.out)
          /\ L.repl = "ONLINE" /\ B.rs = "CONNECTED" => NoLast(L.out)
          /\ L.repl = "ONLINE" => Executed(B.data, 0, L.out) = R.node[n].data
      BY <2>1, <2>8 DEF Streams
    <3>3. CASE L.repl # "ONLINE"
      <4>1. M.out = L.out
        BY <2>2, <2>5, <3>3
      <4> HIDE DEF L, B
      <4> QED
        BY <2>1, <2>2, <2>4, <2>8, <3>1, <3>2, <3>3, <4>1 DEF Streams
    <3>4. CASE L.repl = "ONLINE"
      <4>1. M.out = L.out \o f
        BY <2>2, <2>8, <3>4
      <4>2. (OneLast(L.out) => OneLast(L.out \o f)) /\ (NoLast(L.out) => NoLast(L.out \o f))
        BY <1>1, <2>2, NoLastOn
      <4>3. Executed(B.data, 0, M.out) = N.data
        BY <1>1, <1>3, <2>3, <3>1, <3>2, <3>4, <4>1
      <4> HIDE DEF L, B
      <4> QED
        BY <1>2, <2>1, <2>2, <2>4, <2>8, <3>1, <3>2, <3>4, <4>1, <4>2, <4>3 DEF Streams
    <3> QED
      BY <3>3, <3>4
  <2> QED
    BY <2>7, <2>8
<1> QED
  BY <1>5, <1>6

LEMMA MasterCommandComplete ==
  ASSUME OneDatabase, Sound, Complete(Now), NEW n \in Node, masterCommand(n)
  PROVE  Complete(Now)'
<1> DEFINE c == node[n].c
           R == Consumed(n)
           item == Head(conn[c].out)
           D == [R EXCEPT !.node[n].sel = item[2]]
<1>1. /\ Typed(Now) /\ Linked(Now) /\ node[n].rs = "CONNECTED" /\ conn[node[n].c].out # <<>>
      /\ node[n].rs \in {"TRANSFER", "CONNECTED"}
  BY DEF Sound, masterCommand, Readable
<1>2. node[n].c \in Conns /\ node[n] \in Server
  BY <1>1, NowIs, Linking, Fields
<1>3. Follows(Now, R) /\ R.node = node /\ item \in Item
  <2>1. Next1(c) \in Item /\ Next1(c) = item
    BY <1>1, <1>2, ConsumedSound DEF Next1
  <2> QED
    BY <1>1, <1>2, <2>1, ConsumedSound
<1>4. Own(Now, R, n) /\ R.conn[c].out = Tail(conn[c].out)
  BY <1>1, <1>2, ConsumedOwn
<1>5. \/ item[1] # "WRITE" /\ Becomes(R)
      \/ item[1] = "SELECT" /\ Becomes(D)
      \/ item[1] = "WRITE" /\ Becomes(Written(R, n, node[n].sel, item[2]))
  BY DEF masterCommand, Next1
<1>6. R = Consumed(n)
  OBVIOUS
<1> HIDE DEF R
<1>7. Typed(R) /\ Linked(R)
  BY <1>3 DEF Follows
<1>8. ASSUME item[1] # "WRITE", NEW N \in Server, N = node[n] \/ (\E d \in Db : N = [node[n] EXCEPT !.sel = d]),
             NEW Q, SetsServer(R, Q, n, N), Becomes(Q)
      PROVE  Complete(Now)'
  <2>1. /\ N.up = node[n].up /\ N.c = node[n].c /\ N.slaves = node[n].slaves /\ N.child = node[n].child
        /\ N.data = node[n].data /\ N.disk = node[n].disk /\ N.rs = "CONNECTED"
    BY <1>1, <1>2, <1>8 DEF Server
  <2>2. SetsServer(Consumed(n), Q, n, N)
    BY <1>6, <1>8
  <2>3. /\ Own(Now, Q, n) /\ Typed(Q) /\ Q.node[n] = N
        /\ Q.conn[c].out = Tail(conn[c].out)
        /\ \A p \in Node : p # n => Q.node[p].data = node[p].data
        /\ Q.conn[c].s = conn[c].s /\ Q.conn[c].m = conn[c].m /\ Q.conn[c].repl = conn[c].repl
        /\ Q.conn[c].mopen = conn[c].mopen /\ Q.conn[c].sopen = conn[c].sopen /\ Q.conn[c].up = conn[c].up
    BY <1>1, <1>2, <2>1, <2>2, ReadOwn
  <2>4. item[1] # "LAST" => Eff(node[n].data, item) = node[n].data
    BY <1>8 DEF Eff
  <2> HIDE DEF item
  <2>5. Reads(Q, n)
    BY <1>1, <2>1, <2>3, <2>4 DEF Reads, item
  <2>6. Q.conn[c].mopen /\ Q.conn[c].up /\ Q.conn[c].sopen => Streams(Q, c)
    BY <1>2, <2>5, ReadStreams
  <2> QED
    BY <1>2, <1>8, <2>3, <2>6, OwnStep
<1>9. CASE item[1] # "WRITE" /\ Becomes(R)
  <2>1. SetsServer(R, R, n, node[n])
    BY <1>3, <1>7 DEF SetsServer, Typed
  <2> QED
    BY <1>2, <1>8, <1>9, <2>1
<1>10. CASE item[1] = "SELECT" /\ Becomes(D)
  <2> DEFINE N == [node[n] EXCEPT !.sel = item[2]]
             Q == D
  <2>1. SetsServer(R, Q, n, N)
    BY <1>3, <1>7 DEF SetsServer, Typed
  <2>2. item[2] \in Db
    BY <1>3, <1>10 DEF Item, Silence
  <2>3. N \in Server
    BY <1>2, <2>2 DEF Server
  <2>4. Becomes(Q) /\ item[1] # "WRITE"
    BY <1>10
  <2> HIDE DEF Q
  <2> QED
    BY <1>8, <2>1, <2>2, <2>3, <2>4
<1>11. CASE item[1] = "WRITE" /\ Becomes(Written(R, n, node[n].sel, item[2]))
  <2> DEFINE w == item[2]
             S == Range(node[n].slaves)
             Q == Written(R, n, 0, w)
  <2>1. w \in Nat /\ node[n].sel = 0
    BY <1>2, <1>3, <1>11, ItemKinds, DbIsZero DEF Server
  <2>2. Becomes(Q)
    BY <1>11, <2>1
  <2>3. Writes(R, Q, n, w)
    BY <1>7, <2>1, WritesIs
  <2> HIDE DEF Q
  <2>4. /\ Typed(Q)
        /\ Q.node[n] = [node[n] EXCEPT !.data = Append(@, <<w, 0>>)]
        /\ \A p \in Node : p # n => Q.node[p] = node[p]
        /\ \A k \in Conns : /\ k \notin S => Q.conn[k] = R.conn[k]
                            /\ Q.conn[k].s = R.conn[k].s /\ Q.conn[k].m = R.conn[k].m /\ Q.conn[k].up = R.conn[k].up
                            /\ Q.conn[k].sopen = R.conn[k].sopen /\ Q.conn[k].mopen = R.conn[k].mopen
    BY <1>3, <2>3 DEF Writes
  <2>5. Q.node[n].rs = "CONNECTED" /\ Q.node[n].data = Eff(node[n].data, item)
    <3>1. Q.node[n].rs = node[n].rs /\ Q.node[n].data = Append(node[n].data, <<w, 0>>)
      BY <1>2, <2>4 DEF Server
    <3> QED
      BY <1>1, <1>11, <3>1 DEF Eff
  <2>6. Complete(Q)
    <3> SUFFICES ASSUME NEW k \in Conns, Q.conn[k].mopen
                 PROVE  Buffered(Q, k) /\ (Q.conn[k].up /\ Q.conn[k].sopen => Streams(Q, k))
      BY DEF Complete, CompleteAt
    <3>1. R.conn[k].mopen /\ Q.conn[k].up = R.conn[k].up /\ Q.conn[k].sopen = R.conn[k].sopen
      BY <2>4
    <3>2. Buffered(R, k) /\ (k # c /\ R.conn[k].up /\ R.conn[k].sopen => Streams(R, k))
      <4>1. Now.node[n].c = c
        BY NowIs
      <4> QED
        BY <1>1, <1>4, <3>1, <4>1, OwnOthers
    <3>3. /\ Buffered(R, k) => Buffered(Q, k)
          /\ R.conn[k].up /\ R.conn[k].sopen /\ R.conn[k].s # n /\ Streams(R, k) => Streams(Q, k)
      BY <1>7, <2>1, <2>3, <3>1, WrittenOthers
    <3>4. ASSUME k # c, R.conn[k].sopen PROVE R.conn[k].s # n
      BY <1>3, <1>7, <3>4 DEF Linked, Ends
    <3>5. ASSUME k = c, Q.conn[k].up, Q.conn[k].sopen PROVE Streams(Q, c)
      <4>1. /\ R.conn[c].s = conn[c].s /\ R.conn[c].m = conn[c].m /\ R.conn[c].repl = conn[c].repl
            /\ R.conn[c].mopen = conn[c].mopen /\ R.conn[c].sopen = conn[c].sopen /\ R.conn[c].up = conn[c].up
        BY <1>2, <1>4, NowIs DEF Own
      <4>2. conn[c].s = n /\ Streams(Now, c)
        BY <1>2, <3>1, <3>5, <4>1, OwnStreams
\* The connection of a connected slave is not one of its own slaves.
      <4>3. c \notin S
        <5>1. conn[c].repl # "NONE" => n # conn[c].m
          BY <4>2, NowIs DEF Streams
        <5> QED
          BY <1>1, <5>1, NowIs DEF Linked, SlavesKnown
      <4>4. Q.conn[c] = R.conn[c]
        BY <1>2, <2>4, <4>3
      <4> HIDE DEF item
      <4>5. Reads(Q, n)
        <5>1. item[1] # "LAST"
          BY <1>11
        <5> QED
          BY <1>1, <1>4, <2>4, <2>5, <4>1, <4>4, <5>1 DEF Reads, item
      <4> QED
        BY <1>2, <3>5, <4>5, ReadStreams
    <3> QED
      BY <3>1, <3>2, <3>3, <3>4, <3>5
  <2> QED
    BY <2>2, <2>4, <2>6, BecomesComplete
<1> QED
  BY <1>5, <1>9, <1>10, <1>11

LEMMA MasterGoneComplete ==
  ASSUME Sound, Complete(Now), NEW n \in Node, MasterGone(n)
  PROVE  Complete(Now)'
<1> DEFINE Q == LinkLost(Now, n)
           drop == node[n].rs = "CONNECTED"
<1>1. Typed(Now) /\ Linked(Now) /\ node[n].c # 0 /\ Becomes(Q)
  BY DEF Sound, MasterGone, Eof, Silent
<1>2. node[n].rs \in Busy \cup {"CONNECTED"}
  BY <1>1, NowIs, Linking
<1>3. Typed(Q) /\ Leaves(Now, Q, n, drop)
  BY <1>1, <1>2, NowIs, LinkLostSound
<1>4. drop \in BOOLEAN
  OBVIOUS
<1> HIDE DEF Q, drop
<1>5. Departs(n)
  BY <1>1, <1>3, <1>4 DEF Departs
<1> QED
  BY <1>5, DepartsComplete

LEMMA WriteComplete ==
  ASSUME OneDatabase, Sound, Complete(Now), writes \in Nat, NEW n \in Node, NEW d \in Db, Write(n, d)
  PROVE  Complete(Now)'
<1> DEFINE w == writes + 1
           Q == Written(Now, n, 0, w)
<1>1. Typed(Now) /\ Linked(Now) /\ w \in Nat /\ node[n].mh = Nil /\ node[n].up
  BY DEF Sound, Write
<1>2. Becomes(Q)
  <2>1. d = 0
    BY DbIsZero
  <2> QED
    BY <2>1 DEF Write
<1>3. Writes(Now, Q, n, w)
  BY <1>1, WritesIs
<1> HIDE DEF Q, w
<1>4. /\ Typed(Q)
      /\ \A k \in Conns : /\ Q.conn[k].up = conn[k].up
                          /\ Q.conn[k].sopen = conn[k].sopen /\ Q.conn[k].mopen = conn[k].mopen
  BY <1>3, NowIs DEF Writes
<1>5. \A k \in Conns : conn[k].sopen => conn[k].s # n
  <2>1. node[n].c = 0 /\ 0 \notin Conns
    BY <1>1, NowIs, Fields DEF Linked, Modes, Handshake
  <2> QED
    BY <1>1, <2>1, NowIs DEF Linked, Ends
<1>6. Complete(Q)
  <2> SUFFICES ASSUME NEW k \in Conns, Q.conn[k].mopen
               PROVE  Buffered(Q, k) /\ (Q.conn[k].up /\ Q.conn[k].sopen => Streams(Q, k))
    BY DEF Complete, CompleteAt
  <2>1. Now.conn[k].mopen /\ Q.conn[k].up = Now.conn[k].up /\ Q.conn[k].sopen = Now.conn[k].sopen
        /\ (Now.conn[k].sopen => Now.conn[k].s # n)
    BY <1>4, <1>5, NowIs
  <2>2. Buffered(Now, k) /\ (Now.conn[k].up /\ Now.conn[k].sopen => Streams(Now, k))
    BY <2>1 DEF Complete, CompleteAt
  <2>3. /\ Buffered(Now, k) => Buffered(Q, k)
        /\ Now.conn[k].up /\ Now.conn[k].sopen /\ Now.conn[k].s # n /\ Streams(Now, k) => Streams(Q, k)
    BY <1>1, <1>3, <2>1, WrittenOthers
  <2> QED
    BY <2>1, <2>2, <2>3
<1> QED
  BY <1>2, <1>4, <1>6, BecomesComplete

\* The master closes a connection.
LEMMA ClientLostComplete ==
  ASSUME Sound, Complete(Now), NEW k \in Conns, ClientLost(k)
  PROVE  Complete(Now)'
<1> DEFINE n == conn[k].m
           Q == MasterCloses(Now, n, {k})
<1>1. Typed(Now) /\ Linked(Now) /\ n \in Node /\ Becomes(Q)
  BY NowIs DEF Sound, ClientLost, Linked, Ends
<1>2. Typed(Q) /\ Closes(Now, Q, n, {k})
  BY <1>1, MasterClosesEffect
<1> HIDE DEF Q
<1>3. Complete(Q)
  BY <1>1, <1>2, ClosesComplete
<1> QED
  BY <1>1, <1>2, <1>3, BecomesComplete

----------------------------------------------------------------------------
\* What the world and the child of a save do keeps the streams complete.

LEMMA SlaveofComplete ==
  ASSUME Sound, Complete(Now), NEW n \in Node, NEW m \in Node \cup {Nil}, slaveofCommand(n, m)
  PROVE  Complete(Now)'
BY SlaveofSound, DepartsComplete

LEMMA CrashComplete ==
  ASSUME Sound, Complete(Now), NEW n \in Node, Crash(n)
  PROVE  Complete(Now)'
BY CrashSound, DiesComplete

LEMMA RestartComplete ==
  ASSUME Sound, Complete(Now), NEW n \in Node, Restart(n)
  PROVE  Complete(Now)'
<1> DEFINE Q == [node |-> node', conn |-> conn']
<1>1. Typed(Now) /\ Linked(Now) /\ ~node[n].up /\ node \in [Node -> Server]
  BY NowIs DEF Sound, Restart, Typed
<1>2. Q.conn = conn /\ \A p \in Node : p # n => Q.node[p] = node[p]
  BY <1>1 DEF Restart
<1> HIDE DEF Q
<1>3. \A k \in Conns : /\ conn[k].mopen => conn[k].m \in Node /\ conn[k].m # n
                       /\ conn[k].sopen => conn[k].s \in Node /\ conn[k].s # n
  <2>1. node[n].c = 0 /\ 0 \notin Conns
    BY <1>1, NowIs, Fields DEF Linked, Modes, Handshake
  <2> QED
    BY <1>1, <2>1, NowIs DEF Linked, Ends
<1>4. Complete(Q)
  <2> SUFFICES ASSUME NEW k \in Conns, Q.conn[k].mopen
               PROVE  Buffered(Q, k) /\ (Q.conn[k].up /\ Q.conn[k].sopen => Streams(Q, k))
    BY DEF Complete, CompleteAt
  <2>1. Buffered(Now, k) /\ (Q.conn[k].up /\ Q.conn[k].sopen => Streams(Now, k))
    BY <1>2, NowIs DEF Complete, CompleteAt
  <2>2. Q.conn[k] = conn[k] /\ Q.node[conn[k].m] = node[conn[k].m]
    BY <1>2, <1>3
  <2>3. Buffered(Q, k)
    BY <2>1, <2>2, NowIs DEF Buffered
  <2>4. ASSUME Q.conn[k].sopen, Streams(Now, k) PROVE Streams(Q, k)
    <3>1. Q.node[conn[k].s] = node[conn[k].s]
      BY <1>2, <1>3, <2>4
    <3> QED
      BY <2>2, <2>4, <3>1, NowIs DEF Streams
  <2> QED
    BY <2>1, <2>3, <2>4
<1> QED
  BY <1>4, PrimedComplete DEF Q

LEMMA CutComplete ==
  ASSUME Sound, Complete(Now), NEW k \in Conns, Cut(k)
  PROVE  Complete(Now)'
<1> DEFINE Q == [node |-> node', conn |-> conn']
<1>1. Typed(Now) /\ Linked(Now) /\ conn[k] \in Link /\ conn \in [Conns -> Link]
  BY NowIs, Fields DEF Sound, Typed
<1>2. PICK i \in 0..Len(conn[k].out) :
        conn' = [conn EXCEPT ![k].up = FALSE, ![k].out = SubSeq(@, 1, i), ![k].cmds = <<>>]
  BY DEF Cut
<1>3. /\ Q.node = node
      /\ \A j \in Conns : j # k => Q.conn[j] = conn[j]
      /\ ~Q.conn[k].up /\ Q.conn[k].mopen = conn[k].mopen /\ Q.conn[k].m = conn[k].m /\ Q.conn[k].repl = conn[k].repl
      /\ Q.conn[k].buf = conn[k].buf /\ Q.conn[k].file = conn[k].file
  BY <1>1, <1>2 DEF Cut, Link
<1> HIDE DEF Q
<1>4. Complete(Q)
  <2> SUFFICES ASSUME NEW j \in Conns, Q.conn[j].mopen
               PROVE  Buffered(Q, j) /\ (Q.conn[j].up /\ Q.conn[j].sopen => Streams(Q, j))
    BY DEF Complete, CompleteAt
  <2>1. CASE j # k
    BY <1>3, <2>1, NowIs DEF Complete, CompleteAt, Buffered, Streams
  <2>2. CASE j = k
    <3>1. Buffered(Now, k)
      BY <1>3, <2>2, NowIs DEF Complete, CompleteAt
    <3> QED
      BY <1>3, <2>2, <3>1, NowIs DEF Buffered
  <2> QED
    BY <2>1, <2>2
<1> QED
  BY <1>4, PrimedComplete DEF Q

\* Only the child of n, or its dump, changes.
LEMMA ChildComplete ==
  ASSUME NEW R, NEW Q, Linked(R), Complete(R), NEW n \in Node, Q.conn = R.conn,
         \A p \in Node : /\ Q.node[p].data = R.node[p].data /\ Q.node[p].rs = R.node[p].rs
                         /\ p # n => Q.node[p] = R.node[p],
         \A k \in Conns : R.conn[k].mopen /\ R.conn[k].m = n /\ Buffered(R, k) => Buffered(Q, k)
  PROVE  Complete(Q)
<1> SUFFICES ASSUME NEW k \in Conns, Q.conn[k].mopen
             PROVE  Buffered(Q, k) /\ (Q.conn[k].up /\ Q.conn[k].sopen => Streams(Q, k))
  BY DEF Complete, CompleteAt
<1>1. Buffered(R, k) /\ (R.conn[k].up /\ R.conn[k].sopen => Streams(R, k))
  BY DEF Complete, CompleteAt
<1>2. R.conn[k].m \in Node /\ (R.conn[k].sopen => R.conn[k].s \in Node)
  BY DEF Linked, Ends
<1>3. Buffered(Q, k)
  <2>1. CASE R.conn[k].m = n
    BY <1>1, <2>1
  <2>2. CASE R.conn[k].m # n
    BY <1>1, <1>2, <2>2 DEF Buffered
  <2> QED
    BY <2>1, <2>2
<1>4. ASSUME Q.conn[k].up, Q.conn[k].sopen PROVE Streams(Q, k)
  <2>1. /\ Q.node[R.conn[k].m].data = R.node[R.conn[k].m].data
        /\ Q.node[R.conn[k].s].data = R.node[R.conn[k].s].data /\ Q.node[R.conn[k].s].rs = R.node[R.conn[k].s].rs
    BY <1>2, <1>4
  <2> QED
    BY <1>1, <1>4, <2>1 DEF Streams
<1> QED
  BY <1>3, <1>4

LEMMA ChildExitsComplete ==
  ASSUME Sound, Complete(Now), NEW n \in Node, ChildExits(n)
  PROVE  Complete(Now)'
<1> DEFINE Q == [node |-> node', conn |-> conn']
           C == node[n].child
           P == Q.node[n].child
<1>1. Typed(Now) /\ Linked(Now) /\ node[n] \in Server /\ C \in Child /\ node \in [Node -> Server]
  BY NowIs, Fields DEF Sound, Typed
<1>2. /\ C.st = "running" /\ Q.conn = conn
      /\ \A p \in Node : p # n => Q.node[p] = node[p]
      /\ Q.node[n].data = node[n].data /\ Q.node[n].rs = node[n].rs
      /\ \/ P.st = "ok" /\ P.snap = C.snap /\ Q.node[n].disk = C.snap
         \/ P.st = "failed"
  BY <1>1 DEF ChildExits, Server, Child
<1> HIDE DEF Q
<1>3. \A k \in Conns : conn[k].mopen /\ conn[k].m = n /\ Buffered(Now, k) => Buffered(Q, k)
  BY <1>2, NowIs DEF Buffered
<1>4. \A p \in Node : /\ Q.node[p].data = node[p].data /\ Q.node[p].rs = node[p].rs
                      /\ p # n => Q.node[p] = node[p]
  BY <1>2
<1>5. Complete(Q)
  BY <1>1, <1>2, <1>3, <1>4, NowIs, ChildComplete
<1> QED
  BY <1>5, PrimedComplete DEF Q

\* A save begins when nobody waits for one.
LEMMA SaveBeginsComplete ==
  ASSUME NEW R, Typed(R), Linked(R), Complete(R), NEW n \in Node, R.node[n].up,
         \A k \in Conns : R.conn[k].mopen /\ R.conn[k].m = n => R.conn[k].repl # "WAIT_BGSAVE_END"
  PROVE  Complete(rdbSaveBackground(R, n))
<1> DEFINE Q == rdbSaveBackground(R, n)
<1>1. /\ Q.conn = R.conn /\ Q.node[n].data = R.node[n].data /\ Q.node[n].rs = R.node[n].rs
      /\ \A p \in Node : p # n => Q.node[p] = R.node[p]
  BY SaveBeginsEffect
<1> HIDE DEF Q
<1>2. \A k \in Conns : R.conn[k].mopen /\ R.conn[k].m = n /\ Buffered(R, k) => Buffered(Q, k)
  BY <1>1 DEF Buffered
<1>3. \A p \in Node : /\ Q.node[p].data = R.node[p].data /\ Q.node[p].rs = R.node[p].rs
                      /\ p # n => Q.node[p] = R.node[p]
  BY <1>1
<1>4. Complete(Q)
  BY <1>1, <1>2, <1>3, ChildComplete
<1> QED
  BY <1>4 DEF Q

LEMMA BgsaveComplete ==
  ASSUME Sound, Waits(Now), Complete(Now), NEW n \in Node, bgsaveCommand(n)
  PROVE  Complete(Now)'
<1> DEFINE Q == rdbSaveBackground(Now, n)
<1>1. Typed(Now) /\ Linked(Now) /\ Now.node[n].up /\ node[n].child.st = "none" /\ Becomes(Q)
  BY NowIs DEF Sound, bgsaveCommand
<1>2. \A k \in Conns : Now.conn[k].mopen /\ Now.conn[k].m = n => Now.conn[k].repl # "WAIT_BGSAVE_END"
  BY <1>1, NowIs DEF Waits
<1>3. Typed(Q)
  BY <1>1, SaveBeginsEffect DEF Follows
<1>4. Complete(Q)
  BY <1>1, <1>2, SaveBeginsComplete
<1> QED
  BY <1>1, <1>3, <1>4, BecomesComplete

----------------------------------------------------------------------------
\* What says nothing may be on its way, or wait.

\* All that happens to the connection is that items that say nothing are added to it, and that commands are taken from it.
Quietly(L, M) ==
  /\ M.s = L.s /\ M.m = L.m /\ M.sopen = L.sopen /\ M.mopen = L.mopen /\ M.up = L.up
  /\ M.repl = L.repl /\ M.file = L.file
  /\ "SYNC" \in Range(M.cmds) => "SYNC" \in Range(L.cmds)
  /\ M.out = L.out \/ \E t \in Seq(Item) : Neutral(t) /\ M.out = L.out \o t
  /\ M.buf = L.buf \/ \E t \in Seq(Item) : Neutral(t) /\ M.buf = L.buf \o t

LEMMA QuietOn ==
  ASSUME OneDatabase, NEW t \in Seq(Item), NEW u, u = t \/ \E x \in Seq(Item) : Neutral(x) /\ u = t \o x
  PROVE  /\ u \in Seq(Item)
         /\ Neutral(t) => Neutral(u)
         /\ NoLast(t) => NoLast(u)
         /\ OneLast(t) => OneLast(u)
         /\ \A D \in Data : Executed(D, 0, u) = Executed(D, 0, t)
<1>1. CASE u = t
  BY <1>1
<1>2. ASSUME NEW x \in Seq(Item), Neutral(x), u = t \o x
      PROVE  /\ u \in Seq(Item)
             /\ Neutral(t) => Neutral(u)
             /\ NoLast(t) => NoLast(u)
             /\ OneLast(t) => OneLast(u)
             /\ \A D \in Data : Executed(D, 0, u) = Executed(D, 0, t)
  <2>1. t \o x \in Seq(Item)
    BY ConcatProperties
  <2>2. NoLast(x)
    BY <1>2, NeutralNoLast
  <2> QED
    BY <1>2, <2>1, <2>2, NeutralOn, NoLastOn, ExecutedOn
<1> QED
  BY <1>1, <1>2

LEMMA QuietComplete ==
  ASSUME OneDatabase, NEW R, NEW Q, Typed(R), Linked(R), Complete(R), Q.node = R.node,
         \A k \in Conns : Quietly(R.conn[k], Q.conn[k])
  PROVE  Complete(Q)
<1> SUFFICES ASSUME NEW k \in Conns, Q.conn[k].mopen
             PROVE  Buffered(Q, k) /\ (Q.conn[k].up /\ Q.conn[k].sopen => Streams(Q, k))
  BY DEF Complete, CompleteAt
<1> DEFINE L == R.conn[k]
           M == Q.conn[k]
<1>1. /\ M.s = L.s /\ M.m = L.m /\ M.sopen = L.sopen /\ M.mopen = L.mopen /\ M.up = L.up
      /\ M.repl = L.repl /\ M.file = L.file
      /\ "SYNC" \in Range(M.cmds) => "SYNC" \in Range(L.cmds)
      /\ M.out = L.out \/ \E t \in Seq(Item) : Neutral(t) /\ M.out = L.out \o t
      /\ M.buf = L.buf \/ \E t \in Seq(Item) : Neutral(t) /\ M.buf = L.buf \o t
  BY DEF Quietly
<1>2. L \in Link /\ L.out \in Seq(Item) /\ L.buf \in Seq(Item) /\ L.file \in Data
  BY Fields DEF Link
<1>3. Buffered(R, k) /\ (L.up /\ L.sopen => Streams(R, k))
  BY <1>1 DEF Complete, CompleteAt
<1>4. L.m \in Node /\ (L.sopen => L.s \in Node)
  BY <1>1 DEF Linked, Ends
<1>5. /\ Neutral(L.buf) => Neutral(M.buf)
      /\ NoLast(L.buf) => NoLast(M.buf)
      /\ \A D \in Data : Executed(D, 0, M.buf) = Executed(D, 0, L.buf)
  <2> DEFINE t == L.buf
             u == M.buf
  <2>1. t \in Seq(Item) /\ (u = t \/ \E x \in Seq(Item) : Neutral(x) /\ u = t \o x)
    BY <1>1, <1>2
  <2> HIDE DEF t, u
  <2>2. (Neutral(t) => Neutral(u)) /\ (NoLast(t) => NoLast(u)) /\ \A D \in Data : Executed(D, 0, u) = Executed(D, 0, t)
    BY <2>1, QuietOn
  <2> QED
    BY <2>2 DEF t, u
<1>6. /\ Neutral(L.out) => Neutral(M.out)
      /\ NoLast(L.out) => NoLast(M.out)
      /\ OneLast(L.out) => OneLast(M.out)
      /\ \A D \in Data : Executed(D, 0, M.out) = Executed(D, 0, L.out)
  BY <1>1, <1>2, QuietOn
<1>7. Buffered(Q, k)
  <2>1. R.node[L.m].child \in Child
    BY <1>4, Fields
  <2>2. R.node[L.m].child.snap \in Data
    BY <2>1 DEF Child
  <2> QED
    BY <1>1, <1>2, <1>3, <1>5, <2>2 DEF Buffered
<1>8. ASSUME M.up, M.sopen PROVE Streams(Q, k)
  <2>1. R.node[L.s].data \in Data
    BY <1>1, <1>4, <1>8, Fields
  <2>2. Streams(R, k)
    BY <1>1, <1>3, <1>8
  <2> QED
    BY <1>1, <1>6, <2>1, <2>2 DEF Streams
<1> QED
  BY <1>7, <1>8

LEMMA QuietSame ==
  ASSUME NEW L
  PROVE  Quietly(L, L)
BY DEF Quietly

LEMMA PingsComplete ==
  ASSUME OneDatabase, NEW R, Typed(R), Linked(R), Complete(R), NEW n \in Node, NEW Q,
         Q = [R EXCEPT !.conn = [k \in Conns |-> IF k \in Range(R.node[n].slaves) THEN Pinged(R.conn[k])
                                                 ELSE R.conn[k]]]
  PROVE  Complete(Q)
<1>1. /\ Q.node = R.node
      /\ Q.conn = [k \in Conns |-> IF k \in Range(R.node[n].slaves) THEN Pinged(R.conn[k]) ELSE R.conn[k]]
  BY DEF Typed
<1>2. ASSUME NEW k \in Conns PROVE Quietly(R.conn[k], Q.conn[k])
  <2>1. Q.conn[k] = Pinged(R.conn[k]) \/ Q.conn[k] = R.conn[k]
    BY <1>1
  <2> DEFINE L == R.conn[k]
             M == Pinged(L)
  <2>2. L \in Link /\ L.out \in Seq(Item)
    BY Fields
  <2> HIDE DEF L
  <2>3. /\ M.s = L.s /\ M.m = L.m /\ M.sopen = L.sopen /\ M.mopen = L.mopen
        /\ M.up = L.up /\ M.repl = L.repl /\ M.buf = L.buf /\ M.file = L.file
        /\ M.cmds = L.cmds
        /\ M.out = L.out \/ \E x \in Silence : M.out = Append(L.out, <<x>>)
    BY <2>2, PingedEffect
  <2> HIDE DEF M
  <2>4. M.out = L.out \/ \E t \in Seq(Item) : Neutral(t) /\ M.out = L.out \o t
    <3> SUFFICES ASSUME NEW x \in Silence, M.out = Append(L.out, <<x>>)
                 PROVE  \E t \in Seq(Item) : Neutral(t) /\ M.out = L.out \o t
      BY <2>3
    <3>1. Append(L.out, <<x>>) = L.out \o <<<<x>>>>
      BY <2>2, Replies
    <3> QED
      BY <3>1, SilentItem
  <2>5. Quietly(L, M)
    BY <2>3, <2>4 DEF Quietly
  <2> QED
    BY <2>1, <2>5, QuietSame DEF L, M
<1> QED
  BY <1>1, <1>2, QuietComplete

LEMMA CronComplete ==
  ASSUME OneDatabase, Sound, Complete(Now), NEW n \in Node, NEW late \in BOOLEAN, NEW ping \in BOOLEAN,
         replicationCron(n, late, ping)
  PROVE  Complete(Now)'
<1> DEFINE T == IF late THEN LinkLost(Now, n) ELSE Now
           C == IF T.node[n].rs = "CONNECT" /\ FreeConns(T, n) # {} THEN connectWithMaster(T, n) ELSE T
           P == IF ping THEN [C EXCEPT !.conn = [k \in Conns |-> IF k \in Range(C.node[n].slaves) THEN Pinged(C.conn[k])
                                                                 ELSE C.conn[k]]] ELSE C
<1>1. Typed(Now) /\ Linked(Now) /\ node[n].up
  BY DEF Sound, replicationCron
<1>2. Becomes(P) /\ (late => node[n].rs \in Busy \cup {"CONNECTED"})
  BY DEF replicationCron, Limited, Busy
<1>3. Typed(T) /\ Linked(T) /\ T.node[n].up /\ Complete(T)
  <2>1. CASE ~late
    BY <1>1, <2>1, NowIs
  <2>2. CASE late
    <3> DEFINE L == LinkLost(Now, n)
               drop == node[n].rs = "CONNECTED"
    <3>1. Typed(L) /\ Linked(L) /\ Leaves(Now, L, n, drop)
      BY <1>1, <1>2, <2>2, NowIs, LinkLostSound
    <3>2. drop \in BOOLEAN
      OBVIOUS
    <3> HIDE DEF L, drop
    <3>3. L.node[n].up
      BY <1>1, <3>1, NowIs DEF Leaves
    <3>4. Complete(L)
      BY <1>1, <3>1, <3>2, LeavesComplete
    <3> QED
      BY <2>2, <3>1, <3>3, <3>4 DEF L
  <2> QED
    BY <2>1, <2>2
<1> HIDE DEF T
<1>4. Typed(C) /\ Linked(C) /\ Complete(C)
  <2>1. CASE T.node[n].rs = "CONNECT" /\ FreeConns(T, n) # {}
    <3> DEFINE K == connectWithMaster(T, n)
               k == Min(FreeConns(T, n))
    <3>1. Typed(K) /\ Linked(K) /\ k \in Conns /\ Connects(T, K, n, k)
      BY <1>3, <2>1, ConnectSound
    <3> HIDE DEF K, k
    <3>2. Complete(K)
      BY <1>3, <2>1, <3>1, ConnectsComplete
    <3> QED
      BY <2>1, <3>1, <3>2 DEF K
  <2>2. CASE ~(T.node[n].rs = "CONNECT" /\ FreeConns(T, n) # {})
    BY <1>3, <2>2
  <2> QED
    BY <2>1, <2>2
<1> HIDE DEF C
<1>5. Typed(P) /\ Complete(P)
  <2>1. CASE ping
    <3>1. P = [C EXCEPT !.conn = [k \in Conns |-> IF k \in Range(C.node[n].slaves) THEN Pinged(C.conn[k])
                                                  ELSE C.conn[k]]]
      BY <2>1
    <3> HIDE DEF P
    <3>2. Follows(C, P)
      BY <1>4, <3>1, PingsSound
    <3>3. Complete(P)
      BY <1>4, <3>1, PingsComplete
    <3> QED
      BY <3>2, <3>3 DEF Follows
  <2>2. CASE ~ping
    BY <1>4, <2>2
  <2> QED
    BY <2>1, <2>2
<1> HIDE DEF P
<1> QED
  BY <1>2, <1>5, BecomesComplete

\* One connection is changed; the others are what they were.
LEMMA LinkComplete ==
  ASSUME NEW R, NEW Q, Complete(R), NEW k \in Conns, Q.node = R.node,
         \A j \in Conns : j # k => Q.conn[j] = R.conn[j],
         CompleteAt(R, k) => CompleteAt(Q, k)
  PROVE  Complete(Q)
<1> SUFFICES ASSUME NEW j \in Conns PROVE CompleteAt(Q, j)
  BY DEF Complete
<1>1. CompleteAt(R, j)
  BY DEF Complete
<1>2. CASE j = k
  BY <1>1, <1>2
<1>3. CASE j # k
  BY <1>1, <1>3 DEF CompleteAt, Buffered, Streams
<1> QED
  BY <1>2, <1>3

\* Whatever is on its way, a dump and what comes after it decide.
LEMMA ExecutedDump ==
  ASSUME OneDatabase, NEW D \in Data, NEW f \in Data, NEW t \in Seq(Item), NEW u \in Seq(Item)
  PROVE  Executed(D, 0, Append(t, <<"LAST", f>>) \o u) = Executed(f, 0, u)
<1> DEFINE x == <<"LAST", f>>
           a == Append(t, x)
           s == <<x>>
<1>1. x \in Item
  BY DEF Item
<1>2. a \in Seq(Item) /\ s \in Seq(Item) /\ a = t \o s
  <2> HIDE DEF x
  <2> QED
    BY <1>1
<1>3. Eff(Executed(D, 0, t), x) = f
  BY DEF Eff
<1> HIDE DEF x
<1>4. Executed(D, 0, t) \in Data
  BY ExecutedConcat
<1>5. Executed(Executed(D, 0, t), 0, s) = f
  BY <1>1, <1>3, <1>4, ExecutedSmall
<1> HIDE DEF a, s
<1>6. Executed(D, 0, t \o s) = f
  BY <1>2, <1>5, ExecutedConcat
<1>7. Executed(D, 0, a \o u) = Executed(Executed(D, 0, a), 0, u)
  BY <1>2, ExecutedConcat
<1> QED
  BY <1>2, <1>6, <1>7 DEF a, x

LEMMA SendBulkComplete ==
  ASSUME OneDatabase, Sound, Complete(Now), NEW k \in Conns, sendBulkToSlave(k)
  PROVE  Complete(Now)'
<1> DEFINE L == conn[k]
           first == <<<<"SIZE">>, <<"PART">>>>
           part == L.out \o first
           last == Append(L.out, <<"LAST", L.file>>) \o L.buf
           M1 == [L EXCEPT !.out = part, !.sent = TRUE]
           M2 == [L EXCEPT !.out = last, !.buf = <<>>, !.repl = "ONLINE", !.file = <<>>]
           M == IF ~L.sent THEN M1 ELSE M2
           Q == [Now EXCEPT !.conn[k] = M]
<1>1. /\ Typed(Now) /\ Linked(Now) /\ L \in Link /\ L.repl = "SEND_BULK"
      /\ L.mopen /\ L.up /\ L.out \in Seq(Item) /\ L.buf \in Seq(Item) /\ L.file \in Data
  BY NowIs, Fields DEF Sound, sendBulkToSlave, Link
<1>2. Becomes(Q)
  BY DEF sendBulkToSlave
<1>3. first \in Seq(Item) /\ Neutral(first) /\ part \in Seq(Item)
  <2>1. <<"SIZE">> \in Item /\ <<"PART">> \in Item
    BY Replies DEF Silence
  <2>2. Neutral(first)
    BY DEF Neutral, Silence
  <2>3. first \in Seq(Item)
    BY <2>1
  <2> HIDE DEF first
  <2> QED
    BY <1>1, <2>2, <2>3, ConcatProperties
<1>4. Buffered(Now, k) /\ (L.sopen => Streams(Now, k))
  BY <1>1, NowIs DEF Complete, CompleteAt
<1>5. /\ NoLast(L.buf)
      /\ Executed(L.file, 0, L.buf) = node[L.m].data
  BY <1>1, <1>4, NowIs DEF Buffered
<1>6. L.sopen => /\ L.s \in Node /\ node[L.s].data \in Data /\ Neutral(L.out) /\ node[L.s].rs # "CONNECTED"
                 /\ node[L.s].rs \notin Handshake /\ L.s # L.m
  <2>1. L.sopen => L.s \in Node
    BY <1>1, NowIs DEF Linked, Ends
  <2>2. L.s \in Node => node[L.s].data \in Data
    BY <1>1, NowIs, Fields
  <2> QED
    BY <1>1, <1>4, <2>1, <2>2, NowIs DEF Streams
<1>7. L.sopen => /\ last \in Seq(Item) /\ OneLast(last)
                 /\ Executed(node[L.s].data, 0, last) = node[L.m].data
  <2>1. ASSUME L.sopen PROVE OneLast(last)
    BY <1>1, <1>5, <1>6, <2>1, DumpSent
  <2>2. ASSUME L.sopen PROVE Executed(node[L.s].data, 0, last) = node[L.m].data
    BY <1>1, <1>5, <1>6, <2>2, ExecutedDump
  <2>3. <<"LAST", L.file>> \in Item
    BY <1>1 DEF Item
  <2>4. Append(L.out, <<"LAST", L.file>>) \in Seq(Item)
    BY <1>1, <2>3
  <2>5. last \in Seq(Item)
    BY <1>1, <2>4, ConcatProperties
  <2> QED
    BY <2>1, <2>2, <2>5
<1>8. Q.node = node /\ Q.conn[k] = M /\ \A j \in Conns : j # k => Q.conn[j] = conn[j]
  BY <1>1, NowIs DEF Typed
<1>9. Typed(Q)
  <2>1. SetsLink(Now, Q, k, M)
    BY DEF SetsLink, Now
  <2>2. M1 \in Link
    <3> HIDE DEF part, L
    <3> QED
      BY <1>1, <1>3 DEF Link
  <2>3. M2 \in Link
    <3>1. <<"LAST", L.file>> \in Item
      BY <1>1 DEF Item
    <3>2. Append(L.out, <<"LAST", L.file>>) \in Seq(Item)
      BY <1>1, <3>1
    <3>3. last \in Seq(Item)
      BY <1>1, <3>2, ConcatProperties
    <3> HIDE DEF last, L
    <3> QED
      BY <1>1, <3>3, EmptyLists DEF Link
  <2>4. M \in Link
    BY <2>2, <2>3
  <2> HIDE DEF Q, M
  <2> QED
    BY <1>1, <2>1, <2>4, LinkSet
<1>10. ASSUME ~L.sent PROVE CompleteAt(Q, k)
  <2>1. /\ M.s = L.s /\ M.m = L.m /\ M.sopen = L.sopen /\ M.repl = L.repl /\ M.buf = L.buf /\ M.file = L.file
        /\ M.out = part /\ M.cmds = L.cmds
    <3>1. M = M1
      BY <1>10
    <3> HIDE DEF M, L, part
    <3> QED
      BY <1>1, <3>1 DEF Link
  <2>2. L.sopen => Neutral(part)
    BY <1>1, <1>3, <1>6, NeutralOn
  <2> HIDE DEF Q, M, L, part
  <2>3. Buffered(Q, k)
    BY <1>4, <1>8, <2>1, NowIs DEF Buffered, L
  <2>4. L.sopen => Streams(Q, k)
    BY <1>1, <1>4, <1>8, <2>1, <2>2, NowIs DEF Streams, L
  <2> QED
    BY <1>8, <2>1, <2>3, <2>4 DEF CompleteAt
<1>11. ASSUME L.sent PROVE CompleteAt(Q, k)
  <2>1. M.s = L.s /\ M.m = L.m /\ M.sopen = L.sopen /\ M.repl = "ONLINE" /\ M.buf = <<>> /\ M.out = last
    <3>1. M = M2
      BY <1>11
    <3> HIDE DEF M, L, last
    <3> QED
      BY <1>1, <3>1 DEF Link
  <2> HIDE DEF Q, M, L, last
  <2>2. Buffered(Q, k)
    BY <1>8, <2>1, NoItems DEF Buffered
  <2>3. L.sopen => Streams(Q, k)
    BY <1>6, <1>7, <1>8, <2>1 DEF Streams
  <2> QED
    BY <1>8, <2>1, <2>2, <2>3 DEF CompleteAt
<1>12. CompleteAt(Q, k)
  BY <1>10, <1>11
<1> HIDE DEF Q, M
<1>13. Complete(Q)
  BY <1>8, <1>12, NowIs, LinkComplete
<1> QED
  BY <1>2, <1>9, <1>13, BecomesComplete

----------------------------------------------------------------------------
\* The end of a save.

\* The slaves of n are told that its save has ended.
Told(R, Q, n, ok) ==
  /\ \A p \in Node : /\ Q.node[p].data = R.node[p].data /\ Q.node[p].disk = R.node[p].disk
                     /\ Q.node[p].rs = R.node[p].rs
                     /\ p # n => Q.node[p].child = R.node[p].child
  /\ \A k \in Conns :
       Q.conn[k].mopen =>
         /\ R.conn[k].mopen
         /\ Q.conn[k].s = R.conn[k].s /\ Q.conn[k].m = R.conn[k].m /\ Q.conn[k].sopen = R.conn[k].sopen
         /\ Q.conn[k].up = R.conn[k].up /\ Q.conn[k].out = R.conn[k].out /\ Q.conn[k].cmds = R.conn[k].cmds
         /\ Q.conn[k].buf = R.conn[k].buf
         /\ \/ Q.conn[k].repl = R.conn[k].repl /\ Q.conn[k].file = R.conn[k].file
               /\ (R.conn[k].m = n => R.conn[k].repl \notin Waiters)
            \/ R.conn[k].m = n /\ R.conn[k].repl = "WAIT_BGSAVE_START" /\ Q.conn[k].repl = "WAIT_BGSAVE_END"
            \/ /\ R.conn[k].m = n /\ ok /\ R.conn[k].repl = "WAIT_BGSAVE_END"
               /\ Q.conn[k].repl = "SEND_BULK" /\ Q.conn[k].file = R.node[n].disk

LEMMA SaveEndedKeeps ==
  ASSUME NEW L \in Link, NEW ok \in BOOLEAN, NEW disk \in Data
  PROVE  LET M == SaveEnded(L, ok, disk)
         IN  /\ M.buf = L.buf /\ M.out = L.out /\ M.up = L.up /\ M.cmds = L.cmds
             /\ M.s = L.s /\ M.m = L.m /\ M.sopen = L.sopen /\ M.mopen = L.mopen
             /\ L.repl = "WAIT_BGSAVE_START" => M.repl = "WAIT_BGSAVE_END"
             /\ L.repl = "WAIT_BGSAVE_END" /\ ok => M.repl = "SEND_BULK" /\ M.file = disk
             /\ L.repl \notin Waiters => M = L
BY SaveEndedEffect DEF SaveEnded, SameEnds, Waiters, Link

LEMMA SlavesToldIs ==
  ASSUME NEW R, Typed(R), Linked(R), NEW n \in Node, NEW ok \in BOOLEAN
  PROVE  Told(R, SlavesTold(R, n, ok), n, ok)
<1> DEFINE E == [R EXCEPT !.conn = [k \in Conns |-> IF k \in Range(R.node[n].slaves)
                                                    THEN SaveEnded(R.conn[k], ok, R.node[n].disk) ELSE R.conn[k]]]
           W == Waiting(R, n, "WAIT_BGSAVE_END")
           Q == SlavesTold(R, n, ok)
<1>1. Q = IF ok THEN E ELSE MasterCloses(E, n, W)
  BY DEF SlavesTold
<1> HIDE DEF E, Q
<1>2. /\ Typed(E) /\ Linked(E) /\ E.node = R.node
      /\ \A k \in Conns : /\ SameEnds(R.conn[k], E.conn[k])
                          /\ k \in Range(R.node[n].slaves) => E.conn[k] = SaveEnded(R.conn[k], ok, R.node[n].disk)
                          /\ k \notin Range(R.node[n].slaves) => E.conn[k] = R.conn[k]
  BY ToldEffect DEF E
<1>3. /\ \A p \in Node : /\ Q.node[p].child = R.node[p].child /\ Q.node[p].rs = R.node[p].rs
                         /\ Q.node[p].data = R.node[p].data /\ Q.node[p].disk = R.node[p].disk
      /\ \A k \in Conns : /\ Q.conn[k].s = E.conn[k].s /\ Q.conn[k].m = E.conn[k].m /\ Q.conn[k].repl = E.conn[k].repl
                          /\ Q.conn[k].sopen = E.conn[k].sopen /\ Q.conn[k].up = E.conn[k].up
                          /\ Q.conn[k].buf = E.conn[k].buf /\ Q.conn[k].file = E.conn[k].file
                          /\ Q.conn[k].cmds = E.conn[k].cmds /\ Q.conn[k].out = E.conn[k].out
                          /\ Q.conn[k].mopen => E.conn[k].mopen /\ (ok \/ k \notin W)
  <2>1. CASE ok
    <3>1. Q = E
      BY <1>1, <2>1
    <3> QED
      BY <1>2, <2>1, <3>1
  <2>2. CASE ~ok
    <3>1. Q = MasterCloses(E, n, W)
      BY <1>1, <2>2
    <3>2. Closes(E, Q, n, W)
      BY <1>2, <3>1, MasterClosesEffect
    <3> QED
      BY <1>2, <3>2 DEF Closes
  <2> QED
    BY <2>1, <2>2
<1>4. ASSUME NEW k \in Conns, Q.conn[k].mopen
      PROVE  /\ R.conn[k].mopen
             /\ Q.conn[k].s = R.conn[k].s /\ Q.conn[k].m = R.conn[k].m /\ Q.conn[k].sopen = R.conn[k].sopen
             /\ Q.conn[k].up = R.conn[k].up /\ Q.conn[k].out = R.conn[k].out /\ Q.conn[k].cmds = R.conn[k].cmds
             /\ Q.conn[k].buf = R.conn[k].buf
             /\ \/ Q.conn[k].repl = R.conn[k].repl /\ Q.conn[k].file = R.conn[k].file
                   /\ (R.conn[k].m = n => R.conn[k].repl \notin Waiters)
                \/ R.conn[k].m = n /\ R.conn[k].repl = "WAIT_BGSAVE_START" /\ Q.conn[k].repl = "WAIT_BGSAVE_END"
                \/ /\ R.conn[k].m = n /\ ok /\ R.conn[k].repl = "WAIT_BGSAVE_END"
                   /\ Q.conn[k].repl = "SEND_BULK" /\ Q.conn[k].file = R.node[n].disk
  <2> DEFINE L == R.conn[k]
             M == E.conn[k]
  <2>1. L \in Link /\ R.node[n].disk \in Data
    BY Fields
  <2>2. /\ Q.conn[k].s = M.s /\ Q.conn[k].m = M.m /\ Q.conn[k].sopen = M.sopen /\ M.mopen
        /\ Q.conn[k].up = M.up /\ Q.conn[k].out = M.out /\ Q.conn[k].cmds = M.cmds
        /\ Q.conn[k].buf = M.buf /\ Q.conn[k].repl = M.repl /\ Q.conn[k].file = M.file
        /\ ok \/ k \notin W
    BY <1>3, <1>4
  <2>3. CASE k \notin Range(R.node[n].slaves)
    <3>1. M = L
      BY <1>2, <2>3
    <3>2. L.m = n => L.repl = "NONE"
      BY <2>2, <2>3, <3>1 DEF Linked, Ends
    <3> QED
      BY <2>2, <3>1, <3>2 DEF Waiters
  <2>4. CASE k \in Range(R.node[n].slaves)
    <3>1. M = SaveEnded(L, ok, R.node[n].disk) /\ L.m = n /\ L.mopen
      BY <1>2, <2>4 DEF Linked, SlavesKnown
    <3>2. ok \/ L.repl # "WAIT_BGSAVE_END"
      BY <2>2, <2>4 DEF Waiting
    <3> DEFINE disk == R.node[n].disk
               N == SaveEnded(L, ok, disk)
    <3> HIDE DEF L, M, disk
    <3>3. /\ N.buf = L.buf /\ N.out = L.out /\ N.up = L.up /\ N.cmds = L.cmds
          /\ N.s = L.s /\ N.m = L.m /\ N.sopen = L.sopen /\ N.mopen = L.mopen
          /\ L.repl = "WAIT_BGSAVE_START" => N.repl = "WAIT_BGSAVE_END"
          /\ L.repl = "WAIT_BGSAVE_END" /\ ok => N.repl = "SEND_BULK" /\ N.file = disk
          /\ L.repl \notin Waiters => N = L
      BY <2>1, SaveEndedKeeps DEF disk
    <3> HIDE DEF N
    <3>4. M = N
      BY <3>1 DEF N, disk
    <3> QED
      BY <2>2, <3>1, <3>2, <3>3, <3>4 DEF Waiters, L, disk
  <2> QED
    BY <2>3, <2>4
<1> QED
  BY <1>3, <1>4 DEF Told, Q

\* The child of n is none, or has begun with the dataset that n holds.
Begun(Q, n) ==
  \/ Q.node[n].child.st = "none"
  \/ Q.node[n].child.st = "running" /\ Q.node[n].child.snap = Q.node[n].data

LEMMA ToldComplete ==
  ASSUME OneDatabase, NEW R, NEW Q, Typed(R), Linked(R), Complete(R), NEW n \in Node, NEW ok \in BOOLEAN,
         Told(R, Q, n, ok), ok => R.node[n].child.st = "ok", Begun(Q, n)
  PROVE  Complete(Q)
<1> SUFFICES ASSUME NEW k \in Conns, Q.conn[k].mopen
             PROVE  Buffered(Q, k) /\ (Q.conn[k].up /\ Q.conn[k].sopen => Streams(Q, k))
  BY DEF Complete, CompleteAt
<1> DEFINE L == R.conn[k]
           M == Q.conn[k]
<1>1. \A p \in Node : /\ Q.node[p].data = R.node[p].data /\ Q.node[p].disk = R.node[p].disk
                      /\ Q.node[p].rs = R.node[p].rs
                      /\ p # n => Q.node[p].child = R.node[p].child
  BY DEF Told
<1>2. /\ L.mopen
      /\ M.s = L.s /\ M.m = L.m /\ M.sopen = L.sopen
      /\ M.up = L.up /\ M.out = L.out /\ M.cmds = L.cmds
      /\ M.buf = L.buf
      /\ \/ M.repl = L.repl /\ M.file = L.file /\ (L.m = n => L.repl \notin Waiters)
         \/ L.m = n /\ L.repl = "WAIT_BGSAVE_START" /\ M.repl = "WAIT_BGSAVE_END"
         \/ L.m = n /\ ok /\ L.repl = "WAIT_BGSAVE_END" /\ M.repl = "SEND_BULK" /\ M.file = R.node[n].disk
  BY DEF Told
<1>3. Buffered(R, k) /\ (L.up /\ L.sopen => Streams(R, k))
  BY <1>2 DEF Complete, CompleteAt
<1>4. L.m \in Node /\ (L.sopen => L.s \in Node)
  BY <1>2 DEF Linked, Ends
<1>5. Buffered(Q, k)
  <2>1. CASE M.repl = L.repl /\ M.file = L.file /\ (L.m = n => L.repl \notin Waiters)
    <3>1. CASE L.m = n
      BY <1>1, <1>2, <1>3, <1>4, <2>1, <3>1 DEF Buffered, Waiters
    <3>2. CASE L.m # n
      BY <1>1, <1>2, <1>3, <1>4, <2>1, <3>2 DEF Buffered
    <3> QED
      BY <3>1, <3>2
  <2>2. CASE L.m = n /\ L.repl = "WAIT_BGSAVE_START" /\ M.repl = "WAIT_BGSAVE_END"
    <3>1. Neutral(M.buf) /\ M.buf \in Seq(Item) /\ Q.node[n].data \in Data
      BY <1>1, <1>2, <1>3, <2>2, Fields DEF Buffered
    <3>2. Executed(Q.node[n].data, 0, M.buf) = Q.node[n].data
      BY <3>1, ExecutedNeutral
    <3>3. NoLast(M.buf)
      BY <3>1, NeutralNoLast
    <3> QED
      BY <1>2, <2>2, <3>2, <3>3 DEF Buffered, Begun
  <2>3. CASE L.m = n /\ ok /\ L.repl = "WAIT_BGSAVE_END" /\ M.repl = "SEND_BULK" /\ M.file = R.node[n].disk
    <3>1. /\ Executed(R.node[n].child.snap, 0, L.buf) = R.node[n].data
          /\ R.node[n].disk = R.node[n].child.snap /\ NoLast(L.buf)
      BY <1>3, <2>3 DEF Buffered
    <3> QED
      BY <1>1, <1>2, <2>3, <3>1 DEF Buffered
  <2> QED
    BY <1>2, <2>1, <2>2, <2>3
<1>6. ASSUME M.up, M.sopen PROVE Streams(Q, k)
  <2>1. /\ Q.node[L.m].data = R.node[L.m].data
        /\ Q.node[L.s].data = R.node[L.s].data /\ Q.node[L.s].rs = R.node[L.s].rs
    BY <1>1, <1>2, <1>4, <1>6
  <2>2. (M.repl = "NONE" <=> L.repl = "NONE") /\ (M.repl = "ONLINE" <=> L.repl = "ONLINE")
    BY <1>2
  <2> QED
    BY <1>2, <1>3, <1>6, <2>1, <2>2 DEF Streams
<1> QED
  BY <1>5, <1>6

LEMMA SaveDoneComplete ==
  ASSUME OneDatabase, Sound, Complete(Now), left \in [Fault -> Nat], NEW n \in Node, backgroundSaveDoneHandler(n),
         left'["laterfork"] = left["laterfork"]
  PROVE  Complete(Now)'
<1> DEFINE ok == node[n].child.st = "ok"
           N == [node[n] EXCEPT !.child = NoChild]
           R == [Now EXCEPT !.node[n].child = NoChild]
           T == SlavesTold(R, n, ok)
           starts == Waiting(R, n, "WAIT_BGSAVE_START")
<1>1. Typed(Now) /\ Linked(Now) /\ node[n] \in Server
  BY NowIs, Fields DEF Sound
<1>2. node[n].up
  BY <1>1, NowIs DEF Linked, Modes, backgroundSaveDoneHandler
<1>3. /\ N \in Server /\ N.up = node[n].up /\ N.mh = node[n].mh /\ N.c = node[n].c /\ N.slaves = node[n].slaves
      /\ N.rs = node[n].rs /\ N.child.st = "none" /\ N.data = node[n].data /\ N.disk = node[n].disk
  BY <1>1, EmptyLists DEF Server, NoChild
<1>4. SetsServer(Now, R, n, N)
  BY DEF SetsServer, Now
<1>5. Becomes(updateSlavesWaitingBgsave(R, n, ok, TRUE))
  <2>1. ~Spend("laterfork")
    <3>1. "laterfork" \in Fault
      BY DEF Fault
    <3> QED
      BY <3>1, Spent
  <2> QED
    BY <2>1 DEF backgroundSaveDoneHandler
<1> HIDE DEF N, R
<1>6. /\ Typed(R) /\ R.conn = conn /\ R.node[n] = N
      /\ \A p \in Node : p # n => R.node[p] = node[p]
  BY <1>1, <1>3, <1>4, NowIs, ServerSet
<1>7. Linked(R)
  <2>1. SameLinks(Now, R)
    BY <1>2, <1>3, <1>6, NowIs DEF SameLinks
  <2> QED
    BY <1>1, <1>6, <2>1, SameLinksSound
<1>8. ok \in BOOLEAN /\ (ok => Now.node[n].child.st = "ok")
  BY NowIs
<1> HIDE DEF ok
<1>9. Told(R, T, n, ok)
  BY <1>6, <1>7, <1>8, SlavesToldIs
<1>10. Typed(T) /\ Linked(T) /\ \A p \in Node : T.node[p].up = R.node[p].up /\ T.node[p].child = R.node[p].child
  BY <1>6, <1>7, <1>8, SlavesToldEffect
<1>11. updateSlavesWaitingBgsave(R, n, ok, TRUE) = IF starts = {} THEN T ELSE rdbSaveBackground(T, n)
  BY DEF updateSlavesWaitingBgsave
<1> HIDE DEF T, starts
\* What the slaves are told is told of the state in which the child ended.
<1>12. ASSUME NEW Q, Typed(Q), Told(R, Q, n, ok), Begun(Q, n), Becomes(Q)
       PROVE  Complete(Now)'
  <2>1. \A p \in Node : /\ R.node[p].data = Now.node[p].data /\ R.node[p].disk = Now.node[p].disk
                        /\ R.node[p].rs = Now.node[p].rs
                        /\ p # n => R.node[p].child = Now.node[p].child
    BY <1>3, <1>6, NowIs
  <2>2. R.conn = Now.conn
    BY <1>6, NowIs
  <2>3. Told(Now, Q, n, ok)
    BY <1>12, <2>1, <2>2 DEF Told
  <2>4. Complete(Q)
    BY <1>1, <1>8, <1>12, <2>3, ToldComplete
  <2> QED
    BY <1>12, <2>4, BecomesComplete
<1>13. CASE Becomes(T)
  <2>1. Begun(T, n)
    BY <1>3, <1>6, <1>10 DEF Begun
  <2> QED
    BY <1>9, <1>10, <1>12, <1>13, <2>1
<1>14. CASE Becomes(rdbSaveBackground(T, n))
  <2> DEFINE Q == rdbSaveBackground(T, n)
  <2>1. T.node[n].up
    BY <1>2, <1>3, <1>6, <1>10
  <2>2. /\ Follows(T, Q) /\ Q.conn = T.conn
        /\ Q.node[n].child.st = "running" /\ Q.node[n].child.snap = T.node[n].data
        /\ Q.node[n].data = T.node[n].data /\ Q.node[n].disk = T.node[n].disk /\ Q.node[n].rs = T.node[n].rs
        /\ \A p \in Node : p # n => Q.node[p] = T.node[p]
    BY <1>10, <2>1, SaveBeginsEffect
  <2>3. Becomes(Q)
    BY <1>14
  <2> HIDE DEF Q
  <2>4. Begun(Q, n)
    BY <2>2 DEF Begun
  <2>5. \A p \in Node : /\ Q.node[p].data = T.node[p].data /\ Q.node[p].disk = T.node[p].disk
                        /\ Q.node[p].rs = T.node[p].rs
                        /\ p # n => Q.node[p].child = T.node[p].child
    BY <2>2
  <2>6. Told(R, Q, n, ok)
    BY <1>9, <2>2, <2>5 DEF Told
  <2> QED
    BY <1>12, <2>2, <2>3, <2>4, <2>6 DEF Follows
<1> QED
  BY <1>5, <1>11, <1>13, <1>14

----------------------------------------------------------------------------
\* What the master answers.

LEMMA RepliedComplete ==
  ASSUME OneDatabase, NEW R, Typed(R), Linked(R), Complete(R), NEW k \in Conns, NEW x \in Silence,
         NEW Q, SetsLink(R, Q, k, addReply(R.conn[k], <<<<x>>>>))
  PROVE  Complete(Q)
<1> DEFINE L == R.conn[k]
           t == <<<<x>>>>
           M == addReply(L, t)
<1>1. t \in Seq(Item) /\ Neutral(t)
  BY SilentItem
<1>2. L \in Link
  BY Fields
<1> HIDE DEF L, t
<1>3. /\ M \in Link
      /\ M.s = L.s /\ M.m = L.m /\ M.sopen = L.sopen /\ M.mopen = L.mopen /\ M.up = L.up /\ M.repl = L.repl
      /\ M.file = L.file /\ M.cmds = L.cmds
      /\ L.repl \notin {"NONE", "ONLINE"} => M.buf = L.buf \o t /\ M.out = L.out
      /\ L.repl \in {"NONE", "ONLINE"} => M.buf = L.buf
      /\ L.repl \in {"NONE", "ONLINE"} /\ L.up /\ L.sopen => M.out = L.out \o t
      /\ ~(L.up /\ L.sopen) => M.out = L.out
  BY <1>1, <1>2, AddReplyEffect
<1>4. SetsLink(R, Q, k, M)
  BY DEF L, t
<1> HIDE DEF M
<1>5. Q.node = R.node /\ Q.conn[k] = M /\ \A j \in Conns : j # k => Q.conn[j] = R.conn[j]
  BY <1>3, <1>4, LinkSet
<1>6. Quietly(L, M)
  BY <1>1, <1>3 DEF Quietly
<1>7. \A j \in Conns : Quietly(R.conn[j], Q.conn[j])
  BY <1>5, <1>6, QuietSame DEF L
<1> QED
  BY <1>5, <1>7, QuietComplete

LEMMA RefusedComplete ==
  ASSUME OneDatabase, NEW R, Typed(R), Linked(R), Complete(R), NEW k \in Conns
  PROVE  Complete(Refused(R, k))
<1>1. SetsLink(R, Refused(R, k), k, addReply(R.conn[k], <<<<"ERR">>>>))
  BY DEF SetsLink, Refused, Typed
<1>2. "ERR" \in Silence
  BY DEF Silence
<1> QED
  BY <1>1, <1>2, RepliedComplete

LEMMA TakenComplete ==
  ASSUME OneDatabase, Sound, Complete(Now), NEW k \in Conns, conn[k].cmds # <<>>
  PROVE  Complete(Taken(k))
<1> DEFINE R == Taken(k)
           L == conn[k]
           M == [L EXCEPT !.cmds = Tail(L.cmds)]
<1>1. R.node = node /\ R.conn[k] = M /\ \A j \in Conns : j # k => R.conn[j] = conn[j]
  BY TakenSound
<1>2. Typed(Now) /\ Linked(Now) /\ L \in Link
  BY NowIs, Fields DEF Sound
<1> HIDE DEF R
<1>3. Quietly(L, M)
  <2>1. L.cmds \in Seq({"PING", "REPLCONF", "SYNC"}) /\ L.cmds # <<>>
    BY <1>2 DEF Link
  <2>2. Range(Tail(L.cmds)) \subseteq Range(L.cmds)
    BY <2>1 DEF Range
  <2> HIDE DEF L
  <2>3. /\ M.s = L.s /\ M.m = L.m /\ M.sopen = L.sopen /\ M.mopen = L.mopen /\ M.up = L.up /\ M.repl = L.repl
        /\ M.file = L.file /\ M.cmds = Tail(L.cmds) /\ M.buf = L.buf /\ M.out = L.out
    BY <1>2 DEF Link
  <2> QED
    BY <2>2, <2>3 DEF Quietly
<1>4. \A j \in Conns : Quietly(Now.conn[j], R.conn[j])
  <2> HIDE DEF M
  <2> QED
    BY <1>1, <1>3, NowIs, QuietSame
<1>5. R.node = Now.node
  BY <1>1, NowIs
<1>6. Complete(R)
  BY <1>2, <1>4, <1>5, QuietComplete
<1> QED
  BY <1>6 DEF R

\* The connection k becomes that of a slave of n which waits for a save: for the next, for one that begins, or with
\* another slave for the one that runs.
Joined(R, Q, n, k) ==
  /\ \A p \in Node : /\ Q.node[p].data = R.node[p].data /\ Q.node[p].disk = R.node[p].disk
                     /\ Q.node[p].rs = R.node[p].rs
                     /\ p # n => Q.node[p].child = R.node[p].child
  /\ \A j \in Conns : j # k => Q.conn[j] = R.conn[j]
  /\ Q.conn[k].s = R.conn[k].s /\ Q.conn[k].m = R.conn[k].m /\ Q.conn[k].sopen = R.conn[k].sopen
  /\ Q.conn[k].up = R.conn[k].up /\ Q.conn[k].out = R.conn[k].out /\ Q.conn[k].mopen = R.conn[k].mopen
  /\ \/ /\ Q.node[n].child = R.node[n].child
        /\ Q.conn[k].repl = "WAIT_BGSAVE_START" /\ Q.conn[k].buf = R.conn[k].buf
     \/ /\ Q.node[n].child = R.node[n].child /\ Q.conn[k].repl = "WAIT_BGSAVE_END"
        /\ \E j \in Conns : /\ R.conn[j].mopen /\ R.conn[j].m = n /\ R.conn[j].repl = "WAIT_BGSAVE_END"
                            /\ Q.conn[k].buf = R.conn[j].buf
     \/ /\ R.node[n].child.st = "none"
        /\ Q.node[n].child.st = "running" /\ Q.node[n].child.snap = R.node[n].data
        /\ Q.conn[k].repl = "WAIT_BGSAVE_END" /\ Q.conn[k].buf = R.conn[k].buf

LEMMA JoinedComplete ==
  ASSUME OneDatabase, NEW R, NEW Q, Typed(R), Linked(R), Waits(R), Complete(R), NEW n \in Node, NEW k \in Conns,
         Joined(R, Q, n, k), R.conn[k].mopen, R.conn[k].m = n, R.conn[k].repl = "NONE", ~Stale(R, n),
         R.conn[k].up /\ R.conn[k].sopen => R.node[R.conn[k].s].rs \notin Handshake
  PROVE  Complete(Q)
<1> DEFINE L == R.conn[k]
           M == Q.conn[k]
<1>1. \A p \in Node : /\ Q.node[p].data = R.node[p].data /\ Q.node[p].disk = R.node[p].disk
                      /\ Q.node[p].rs = R.node[p].rs
                      /\ p # n => Q.node[p].child = R.node[p].child
  BY DEF Joined
<1>2. /\ M.s = L.s /\ M.m = L.m /\ M.sopen = L.sopen /\ M.up = L.up /\ M.out = L.out /\ M.mopen = L.mopen
      /\ M.repl \in Waiters
  BY DEF Joined, Waiters
<1>3. Buffered(R, k) /\ (L.up /\ L.sopen => Streams(R, k))
  BY DEF Complete, CompleteAt
<1>4. Neutral(L.buf) /\ NoLast(L.buf) /\ L.buf \in Seq(Item) /\ R.node[n].data \in Data
  BY <1>3, Fields DEF Buffered
<1>5. Buffered(Q, k)
  <2>1. CASE M.repl = "WAIT_BGSAVE_START" /\ M.buf = L.buf
    BY <1>4, <2>1 DEF Buffered
  <2>2. ASSUME NEW j \in Conns, Q.node[n].child = R.node[n].child, M.repl = "WAIT_BGSAVE_END",
               R.conn[j].mopen, R.conn[j].m = n, R.conn[j].repl = "WAIT_BGSAVE_END", M.buf = R.conn[j].buf
        PROVE  Buffered(Q, k)
    <3>1. Buffered(R, j)
      BY <2>2 DEF Complete, CompleteAt
    <3> QED
      BY <1>1, <1>2, <2>2, <3>1 DEF Buffered
  <2>3. CASE /\ Q.node[n].child.st = "running" /\ Q.node[n].child.snap = R.node[n].data
             /\ M.repl = "WAIT_BGSAVE_END" /\ M.buf = L.buf
    <3>1. Executed(R.node[n].data, 0, L.buf) = R.node[n].data
      BY <1>4, ExecutedNeutral
    <3> QED
      BY <1>1, <1>2, <1>4, <2>3, <3>1 DEF Buffered
  <2> QED
    BY <2>1, <2>2, <2>3 DEF Joined
<1>6. ASSUME L.up, L.sopen PROVE Streams(Q, k)
  <2>1. L.s \in Node /\ R.node[L.s].c = k
    BY <1>6 DEF Linked, Ends
  <2>2. Neutral(L.out) /\ R.node[L.s].rs # "CONNECTED" /\ R.node[L.s].rs \notin Handshake
    BY <1>3, <1>6 DEF Streams
\* Who is connected to itself is not connected.
  <2>3. L.s # n
    <3> SUFFICES ASSUME L.s = n PROVE FALSE
      OBVIOUS
    <3>1. R.node[n].c # 0
      BY <2>1, Fields
    <3>2. R.node[n].mh = n
      BY <2>1, <3>1 DEF Linked, MasterKnown
    <3>3. n # Nil
      BY ReplicationAssumption
    <3> QED
      BY <2>2, <3>2, <3>3 DEF Stale
  <2>4. Q.node[L.s].rs = R.node[L.s].rs /\ M.repl \notin {"NONE", "ONLINE"}
    BY <1>1, <1>2, <2>1 DEF Waiters
  <2> QED
    BY <1>2, <2>2, <2>3, <2>4 DEF Streams
<1>7. CompleteAt(Q, k)
  BY <1>2, <1>5, <1>6 DEF CompleteAt
<1>8. ASSUME NEW j \in Conns, j # k, Q.conn[j].mopen
      PROVE  Buffered(Q, j) /\ (Q.conn[j].up /\ Q.conn[j].sopen => Streams(Q, j))
  <2>1. Q.conn[j] = R.conn[j]
    BY <1>8 DEF Joined
  <2>2. Buffered(R, j) /\ (R.conn[j].up /\ R.conn[j].sopen => Streams(R, j))
    BY <1>8, <2>1 DEF Complete, CompleteAt
  <2>3. R.conn[j].m \in Node /\ (R.conn[j].sopen => R.conn[j].s \in Node)
    BY <1>8, <2>1 DEF Linked, Ends
  <2>4. Q.node[R.conn[j].m].child = R.node[R.conn[j].m].child \/ R.conn[j].repl # "WAIT_BGSAVE_END"
    <3>1. CASE R.conn[j].m # n
      BY <1>1, <2>3, <3>1
    <3>2. CASE R.conn[j].m = n /\ R.node[n].child.st = "none"
      BY <1>8, <2>1, <3>2 DEF Waits
    <3>3. CASE R.conn[j].m = n /\ Q.node[n].child = R.node[n].child
      BY <3>3
    <3> QED
      BY <3>1, <3>2, <3>3 DEF Joined
  <2>5. Buffered(Q, j)
    BY <1>1, <2>1, <2>2, <2>3, <2>4 DEF Buffered
  <2>6. ASSUME R.conn[j].up, R.conn[j].sopen PROVE Streams(Q, j)
    <3>1. /\ Q.node[R.conn[j].m].data = R.node[R.conn[j].m].data
          /\ Q.node[R.conn[j].s].data = R.node[R.conn[j].s].data /\ Q.node[R.conn[j].s].rs = R.node[R.conn[j].s].rs
      BY <1>1, <2>3, <2>6
    <3> QED
      BY <2>1, <2>2, <2>6, <3>1 DEF Streams
  <2> QED
    BY <2>1, <2>5, <2>6
<1> QED
  BY <1>7, <1>8 DEF Complete, CompleteAt

\* A slave is attached to a system B that differs from R in the child of n, or in the buffer of k.
LEMMA AttachedJoined ==
  ASSUME NEW R, Typed(R), NEW n \in Node, NEW k \in Conns, R.conn[k].m = n, NEW B, Typed(B),
         \A p \in Node : /\ B.node[p].data = R.node[p].data /\ B.node[p].disk = R.node[p].disk
                         /\ B.node[p].rs = R.node[p].rs
                         /\ p # n => B.node[p].child = R.node[p].child,
         \A j \in Conns : j # k => B.conn[j] = R.conn[j],
         B.conn[k].s = R.conn[k].s, B.conn[k].m = R.conn[k].m, B.conn[k].sopen = R.conn[k].sopen,
         B.conn[k].up = R.conn[k].up, B.conn[k].out = R.conn[k].out, B.conn[k].mopen = R.conn[k].mopen,
         B.node[n].child.st # "none", NEW st \in Waiters,
         \/ B.node[n].child = R.node[n].child /\ st = "WAIT_BGSAVE_START" /\ B.conn[k].buf = R.conn[k].buf
         \/ /\ B.node[n].child = R.node[n].child /\ st = "WAIT_BGSAVE_END"
            /\ \E j \in Conns : /\ R.conn[j].mopen /\ R.conn[j].m = n /\ R.conn[j].repl = "WAIT_BGSAVE_END"
                                /\ B.conn[k].buf = R.conn[j].buf
         \/ /\ R.node[n].child.st = "none"
            /\ B.node[n].child.st = "running" /\ B.node[n].child.snap = R.node[n].data
            /\ st = "WAIT_BGSAVE_END" /\ B.conn[k].buf = R.conn[k].buf
  PROVE  Joined(R, Attached(B, n, k, st), n, k)
<1> DEFINE Q == Attached(B, n, k, st)
<1>1. /\ \A p \in Node : /\ Q.node[p].data = B.node[p].data /\ Q.node[p].disk = B.node[p].disk
                         /\ Q.node[p].rs = B.node[p].rs /\ Q.node[p].child = B.node[p].child
      /\ \A j \in Conns : j # k => Q.conn[j] = B.conn[j]
      /\ Q.conn[k].s = B.conn[k].s /\ Q.conn[k].m = B.conn[k].m /\ Q.conn[k].sopen = B.conn[k].sopen
      /\ Q.conn[k].up = B.conn[k].up /\ Q.conn[k].out = B.conn[k].out /\ Q.conn[k].mopen = B.conn[k].mopen
      /\ Q.conn[k].buf = B.conn[k].buf /\ Q.conn[k].repl = st
  BY AttachedEffect
<1> HIDE DEF Q
<1>6. Joined(R, Q, n, k)
  BY <1>1 DEF Joined
<1> QED
  BY <1>6 DEF Q

\* The connection k may become that of a slave: it asks for a dataset, so it is not in a handshake.
Asks(R, k) == R.conn[k].up /\ R.conn[k].sopen => R.node[R.conn[k].s].rs \notin Handshake

LEMMA JoinsComplete ==
  ASSUME OneDatabase, NEW R, Typed(R), Linked(R), Waits(R), Complete(R), NEW n \in Node, NEW k \in Conns,
         R.conn[k].mopen, R.conn[k].m = n, R.conn[k].repl = "NONE", ~Stale(R, n), Asks(R, k),
         Waiting(R, n, "WAIT_BGSAVE_END") # {}, R.node[n].child.st # "none"
  PROVE  Complete(Joins(R, n, k))
<1> DEFINE list  == R.node[n].slaves
           other == list[Min({i \in DOMAIN list : list[i] \in Waiting(R, n, "WAIT_BGSAVE_END")})]
           L == [R.conn[k] EXCEPT !.buf = R.conn[other].buf]
           B == [R EXCEPT !.conn[k].buf = R.conn[other].buf]
           st == "WAIT_BGSAVE_END"
<1>1. /\ other \in Conns /\ R.conn[other].mopen /\ R.conn[other].m = n /\ R.conn[other].repl = "WAIT_BGSAVE_END"
  <2>1. other \in Conns /\ other \in Waiting(R, n, "WAIT_BGSAVE_END")
    BY JoinsOther
  <2> HIDE DEF other
  <2> QED
    BY <2>1 DEF Waiting, Linked, SlavesKnown
<1>2. Joins(R, n, k) = Attached(B, n, k, st)
  BY DEF Joins
<1> HIDE DEF other
<1>3. R.conn[k] \in Link /\ R.conn[other].buf \in Seq(Item)
  BY <1>1, Fields
<1>4. SetsLink(R, B, k, L)
  BY DEF SetsLink, Typed
<1>5. /\ L \in Link /\ L.s = R.conn[k].s /\ L.m = R.conn[k].m /\ L.sopen = R.conn[k].sopen /\ L.up = R.conn[k].up
      /\ L.out = R.conn[k].out /\ L.mopen = R.conn[k].mopen /\ L.buf = R.conn[other].buf
  BY <1>3 DEF Link
<1> HIDE DEF B, L
<1>6. Typed(B) /\ B.node = R.node /\ B.conn[k] = L /\ \A j \in Conns : j # k => B.conn[j] = R.conn[j]
  BY <1>4, <1>5, LinkSet
<1>7. st \in Waiters
  BY DEF Waiters
<1>8. \E j \in Conns : /\ R.conn[j].mopen /\ R.conn[j].m = n /\ R.conn[j].repl = "WAIT_BGSAVE_END"
                       /\ B.conn[k].buf = R.conn[j].buf
  BY <1>1, <1>5, <1>6
<1>9. Joined(R, Attached(B, n, k, st), n, k)
  BY <1>5, <1>6, <1>7, <1>8, AttachedJoined
<1>10. R.conn[k].up /\ R.conn[k].sopen => R.node[R.conn[k].s].rs \notin Handshake
  BY DEF Asks
<1>11. Complete(Attached(B, n, k, st))
  BY <1>9, <1>10, JoinedComplete
<1> QED
  BY <1>2, <1>11

LEMMA SyncComplete ==
  ASSUME OneDatabase, NEW R, Typed(R), Linked(R), Waits(R), Complete(R), NEW k \in Conns, R.conn[k].mopen, Asks(R, k),
         NEW forked \in BOOLEAN
  PROVE  Complete(syncCommand(R, R.conn[k].m, k, forked))
<1> DEFINE n == R.conn[k].m
           Q == syncCommand(R, n, k, forked)
           start == "WAIT_BGSAVE_START"
           end == "WAIT_BGSAVE_END"
<1>1. n \in Node /\ R.node[n].up
  BY DEF Linked, Ends
<1>2. start \in Waiters /\ end \in Waiters
  BY DEF Waiters
<1>3. R.conn[k].up /\ R.conn[k].sopen => R.node[R.conn[k].s].rs \notin Handshake
  BY DEF Asks
<1> DEFINE m == n
<1>4. R.conn[k].m = m
  OBVIOUS
<1> HIDE DEF n
<1>5. CASE R.conn[k].repl # "NONE"
  <2>1. Q = R
    BY <1>5 DEF syncCommand
  <2> QED
    BY <2>1 DEF n
<1>6. CASE Q = Refused(R, k)
  BY <1>6, RefusedComplete DEF n
<1>7. CASE R.conn[k].repl = "NONE" /\ ~Stale(R, n) /\ R.node[n].child.st # "none"
  <2>1. CASE Waiting(R, n, "WAIT_BGSAVE_END") # {}
    <3>1. Q = Joins(R, n, k)
      BY <1>7, <2>1 DEF syncCommand
    <3> QED
      BY <1>1, <1>4, <1>7, <2>1, <3>1, JoinsComplete DEF n
  <2>2. CASE Waiting(R, n, "WAIT_BGSAVE_END") = {}
    <3>1. Q = Attached(R, n, k, start)
      BY <1>7, <2>2 DEF syncCommand
    <3>2. Joined(R, Attached(R, n, k, start), n, k)
      <4>1. R.node[n].child.st # "none"
        BY <1>7
      <4> QED
        BY <1>1, <1>2, <1>4, <4>1, AttachedJoined
    <3>3. Complete(Attached(R, n, k, start))
      BY <1>1, <1>3, <1>4, <1>7, <3>2, JoinedComplete
    <3> QED
      BY <3>1, <3>3 DEF n
  <2> QED
    BY <2>1, <2>2
<1>8. CASE R.conn[k].repl = "NONE" /\ ~Stale(R, n) /\ R.node[n].child.st = "none" /\ forked
  <2> DEFINE B == rdbSaveBackground(R, n)
  <2>1. Q = Attached(B, n, k, end)
    BY <1>8 DEF syncCommand
  <2>2. /\ Follows(R, B) /\ B.conn = R.conn /\ B.node[n].child.st = "running" /\ B.node[n].child.snap = R.node[n].data
        /\ B.node[n].data = R.node[n].data /\ B.node[n].disk = R.node[n].disk /\ B.node[n].rs = R.node[n].rs
        /\ \A p \in Node : p # n => B.node[p] = R.node[p]
    BY <1>1, SaveBeginsEffect
  <2> HIDE DEF B
  <2>3. Typed(B) /\ B.node[n].child.st # "none"
    BY <2>2 DEF Follows
  <2>4. \A p \in Node : /\ B.node[p].data = R.node[p].data /\ B.node[p].disk = R.node[p].disk
                        /\ B.node[p].rs = R.node[p].rs
                        /\ p # n => B.node[p].child = R.node[p].child
    BY <2>2
  <2>5. Joined(R, Attached(B, n, k, end), n, k)
    BY <1>1, <1>2, <1>4, <1>8, <2>2, <2>3, <2>4, AttachedJoined
  <2>6. Complete(Attached(B, n, k, end))
    BY <1>1, <1>3, <1>4, <1>8, <2>5, JoinedComplete
  <2> QED
    BY <2>1, <2>6 DEF n
<1> QED
  BY <1>5, <1>6, <1>7, <1>8 DEF syncCommand, n

LEMMA CommandedComplete ==
  ASSUME OneDatabase, Sound, Waits(Now), Complete(Now), NEW k \in Conns, Commanded(k)
  PROVE  Complete(Now)'
<1> DEFINE R == Taken(k)
           Pong == [R EXCEPT !.conn[k] = addReply(@, <<<<"PONG">>>>)]
           Ok == [R EXCEPT !.conn[k] = addReply(@, <<<<"OK">>>>)]
           Sync(forked) == syncCommand(R, conn[k].m, k, forked)
           asked == "SYNC" \in Range(conn[k].cmds)
<1>1. conn[k].mopen /\ conn[k].up /\ conn[k].cmds # <<>>
  BY DEF Commanded
<1>2. /\ Follows(Now, R) /\ R.conn[k].mopen /\ R.conn[k].m = conn[k].m
      /\ R.node = node /\ R.conn[k] = [conn[k] EXCEPT !.cmds = Tail(conn[k].cmds)]
  BY <1>1, TakenSound
<1>3. Typed(R) /\ Linked(R) /\ Waits(R)
  BY <1>2 DEF Follows
<1>4. Complete(R)
  BY <1>1, TakenComplete
<1>5. conn[k] \in Link /\ Head(conn[k].cmds) \in {"PING", "REPLCONF", "SYNC"} /\ Head(conn[k].cmds) \in Range(conn[k].cmds)
  <2>1. conn[k] \in Link
    BY NowIs, Fields DEF Sound
  <2>2. conn[k].cmds \in Seq({"PING", "REPLCONF", "SYNC"})
    BY <2>1 DEF Link
  <2> QED
    BY <1>1, <2>1, <2>2 DEF Range
<1>6. \/ Becomes(Pong) \/ Becomes(Refused(R, k)) \/ Becomes(Ok)
      \/ asked /\ (Becomes(Sync(TRUE)) \/ Becomes(Sync(FALSE)))
  BY <1>5 DEF Commanded, Taken
<1> HIDE DEF R
<1>7. Typed(Pong) /\ Complete(Pong)
  <2>1. <<<<"PONG">>>> \in Seq(Item) /\ "PONG" \in Silence
    BY Replies DEF Silence
  <2>2. SetsLink(R, Pong, k, addReply(R.conn[k], <<<<"PONG">>>>))
    BY <1>3 DEF SetsLink, Typed
  <2>3. Follows(R, Pong)
    BY <1>3, <2>1, <2>2, ReplySound
  <2>4. Complete(Pong)
    BY <1>3, <1>4, <2>1, <2>2, RepliedComplete
  <2> QED
    BY <2>3, <2>4 DEF Follows
<1>8. Typed(Ok) /\ Complete(Ok)
  <2>1. <<<<"OK">>>> \in Seq(Item) /\ "OK" \in Silence
    BY Replies DEF Silence
  <2>2. SetsLink(R, Ok, k, addReply(R.conn[k], <<<<"OK">>>>))
    BY <1>3 DEF SetsLink, Typed
  <2>3. Follows(R, Ok)
    BY <1>3, <2>1, <2>2, ReplySound
  <2>4. Complete(Ok)
    BY <1>3, <1>4, <2>1, <2>2, RepliedComplete
  <2> QED
    BY <2>3, <2>4 DEF Follows
<1>9. Typed(Refused(R, k)) /\ Complete(Refused(R, k))
  BY <1>3, <1>4, RefusedSound, RefusedComplete DEF Follows
<1>10. ASSUME asked, NEW forked \in BOOLEAN PROVE Typed(Sync(forked)) /\ Complete(Sync(forked))
  <2>1. Typed(Sync(forked))
    BY <1>2, <1>3, SyncSound DEF Follows
\* Who has sent SYNC is not in its handshake any more.
  <2>2. Asks(R, k)
    <3>1. conn[k].sopen => node[conn[k].s].rs \notin Handshake
      BY <1>1, <1>10, NowIs DEF Complete, CompleteAt, Streams
    <3>2. R.conn[k].sopen = conn[k].sopen /\ R.conn[k].s = conn[k].s
      BY <1>2, <1>5 DEF Link
    <3> QED
      BY <1>2, <3>1, <3>2 DEF Asks
  <2>3. Complete(syncCommand(R, R.conn[k].m, k, forked))
    BY <1>2, <1>3, <1>4, <2>2, SyncComplete
  <2> QED
    BY <1>2, <2>1, <2>3
<1>11. PICK Q : Typed(Q) /\ Complete(Q) /\ Becomes(Q)
  <2> HIDE DEF Sync, asked, Pong, Ok
  <2>1. ASSUME asked PROVE /\ Typed(Sync(TRUE)) /\ Complete(Sync(TRUE))
                           /\ Typed(Sync(FALSE)) /\ Complete(Sync(FALSE))
    BY <1>10, <2>1
  <2> QED
    BY <1>6, <1>7, <1>8, <1>9, <2>1
<1> QED
  BY <1>11, BecomesComplete

----------------------------------------------------------------------------
\* The theorem about the streams.

CompleteInv == ReplicationInv /\ (NoLateForkFailed => Complete(Now))

LEMMA InitComplete == Init => Complete(Now)
<1> SUFFICES ASSUME Init PROVE Complete(Now)
  OBVIOUS
<1>1. \A k \in Conns : ~conn[k].mopen
  BY DEF Init, NoConn
<1> QED
  BY <1>1, NowIs DEF Complete, CompleteAt

LEMMA NextComplete ==
  ASSUME OneDatabase, ReplicationInv, Complete(Now), Waits(Now), [Next]_vars, left'["laterfork"] = left["laterfork"]
  PROVE  Complete(Now)'
<1> DEFINE Step == Complete(Now)'
<1>1. Sound /\ family \in DOMAIN Conf /\ writes \in Nat /\ left \in [Fault -> Nat]
  BY DEF ReplicationInv, Budget
<1>2. ASSUME NEW n \in Node, LinkEvent(n) PROVE Step
  BY <1>1, <1>2, SyncConnectedComplete, SyncWithMasterComplete, ReadSyncComplete, MasterCommandComplete, MasterGoneComplete
  DEF LinkEvent
<1>3. ASSUME NEW n \in Node, Saves(n) PROVE Step
  BY <1>1, <1>3, ChildExitsComplete, SaveDoneComplete DEF Saves
<1>4. ASSUME NEW n \in Node, bgsaveCommand(n) \/ Crash(n) \/ Restart(n) PROVE Step
  BY <1>1, <1>4, BgsaveComplete, CrashComplete, RestartComplete
<1>5. ASSUME NEW n \in Node, NEW late \in BOOLEAN, NEW ping \in BOOLEAN, replicationCron(n, late, ping) PROVE Step
  BY <1>1, <1>5, CronComplete
<1>6. ASSUME NEW k \in Conns, Serves(k) \/ Cut(k) PROVE Step
  BY <1>1, <1>6, CommandedComplete, SendBulkComplete, ClientLostComplete, CutComplete DEF Serves
<1>7. ASSUME NEW n \in Node, NEW d \in conf.dbs, Write(n, d) PROVE Step
  <2>1. d \in Db
    BY <1>1 DEF Db, conf
  <2> QED
    BY <1>1, <1>7, <2>1, WriteComplete
<1>8. ASSUME NEW n \in Node, NEW m \in Node \cup {Nil}, slaveofCommand(n, m) PROVE Step
  BY <1>1, <1>8, SlaveofComplete
<1>9. ASSUME UNCHANGED vars PROVE Step
  <2>1. Now = [node |-> node', conn |-> conn']
    BY <1>9 DEF vars, Now
  <2> QED
    BY <2>1, PrimedComplete
<1> HIDE DEF Step
<1>10. Step
  BY <1>2, <1>3, <1>4, <1>5, <1>6, <1>7, <1>8, <1>9 DEF Next
<1> QED
  BY <1>10 DEF Step

\* With one database, whatever a slave waits for, its dump and what is kept for it give the dataset of its master
\* (syncCommand, sendBulkToSlave), and so does what an online slave holds with what is on its way to it, until a
\* fork fails at the end of a save.
THEOREM StreamCompletesCorrect ==
  ASSUME OneDatabase
  PROVE  Spec => [](NoLateForkFailed => StreamCompletes)
<1>1. Init => CompleteInv
  BY InitInv, InitComplete DEF CompleteInv
<1>2. CompleteInv /\ [Next]_vars => CompleteInv'
  <2> SUFFICES ASSUME CompleteInv, [Next]_vars PROVE CompleteInv'
    OBVIOUS
  <2>1. ReplicationInv'
    BY NextInv DEF CompleteInv
  <2>2. NoLateForkFailed' => NoLateForkFailed /\ left'["laterfork"] = left["laterfork"]
    BY NextBudget DEF CompleteInv, ReplicationInv
  <2>3. ASSUME NoLateForkFailed' PROVE Complete(Now)'
    <3>1. ReplicationInv /\ Waits(Now) /\ Complete(Now) /\ left'["laterfork"] = left["laterfork"]
      BY <2>2, <2>3 DEF CompleteInv, ReplicationInv
    <3> QED
      BY <3>1, NextComplete
  <2> QED
    BY <2>1, <2>3 DEF CompleteInv
<1>3. CompleteInv => (NoLateForkFailed => StreamCompletes)
  <2> SUFFICES ASSUME CompleteInv, NoLateForkFailed, NEW k \in Conns, conn[k].mopen
               PROVE  LET cl == conn[k]
                          master == node[cl.m]
                      IN  CASE cl.repl = "WAIT_BGSAVE_END" -> master.child.st \in {"running", "ok"}
                                                              => Executed(master.child.snap, 0, cl.buf) = master.data
                            [] cl.repl = "SEND_BULK" -> Executed(cl.file, 0, cl.buf) = master.data
                            [] cl.repl = "ONLINE" /\ cl.up /\ cl.sopen ->
                                   Executed(node[cl.s].data, node[cl.s].sel, cl.out) = master.data
                            [] OTHER -> TRUE
    BY DEF StreamCompletes
  <2> DEFINE cl == conn[k]
             master == node[cl.m]
  <2>1. Complete(Now) /\ Typed(Now) /\ Linked(Now)
    BY DEF CompleteInv, ReplicationInv, Sound
  <2>2. Buffered(Now, k) /\ (cl.up /\ cl.sopen => Streams(Now, k))
    BY <2>1, NowIs DEF Complete, CompleteAt
  <2>3. CASE cl.repl = "WAIT_BGSAVE_END"
    BY <2>2, <2>3, NowIs DEF Buffered
  <2>4. CASE cl.repl = "SEND_BULK"
    BY <2>2, <2>4, NowIs DEF Buffered
  <2>5. CASE cl.repl = "ONLINE" /\ cl.up /\ cl.sopen
    <3>1. cl.s \in Node
      BY <2>1, <2>5, NowIs DEF Linked, Ends
    <3>2. node[cl.s] \in Server
      BY <2>1, <3>1, NowIs, Fields
    <3>3. node[cl.s].sel = 0
      BY <3>2, DbIsZero DEF Server
    <3>4. Executed(node[cl.s].data, 0, cl.out) = master.data
      BY <2>2, <2>5, NowIs DEF Streams
    <3> QED
      BY <2>5, <3>3, <3>4
  <2>6. CASE cl.repl \notin {"WAIT_BGSAVE_END", "SEND_BULK"} /\ ~(cl.repl = "ONLINE" /\ cl.up /\ cl.sopen)
    BY <2>6
  <2> QED
    BY <2>3, <2>4, <2>5, <2>6
<1> QED
  BY <1>1, <1>2, <1>3, PTL DEF Spec
=============================================================================
