------------------------- MODULE SentinelNet_proofs -------------------------
(***************************************************************************)
(* Theorems about SentinelNet, for every set of servers, every family and  *)
(* every value of the periods and limits that SentinelAssumption allows.   *)
(*                                                                         *)
(* The operators of Sentinel take a sentinel and give another, one inside  *)
(* the other as the calls of the code are.  So what each does is stated as *)
(* a relation between the sentinel S before and Q after:                   *)
(*   Works   no role changes: links, pings, questions, scripts             *)
(*   Quiet   the failover stays as it is                                   *)
(*   Asks    the other sentinels are asked: what counts of their answers   *)
(*           is recent                                                     *)
(*   Acts    instances keep who they are and what they answered; the       *)
(*           failover may take a step                                      *)
(*   Steps   the same, and Q is Fine                                       *)
(*   Rounds  one round of the timer, about one instance                    *)
(*   Goes    what the callback of a reply does                             *)
(*   Moves   what the action properties say of a step                      *)
(* A sentinel is Fine when its record is well formed (Sane), its failover  *)
(* is in a phase that its flags agree with (FailoverOk), no sentinel is    *)
(* entered twice (Runids), and the addresses it may give out are of        *)
(* servers that were masters (Named).  NetOk, the inductive invariant,     *)
(* adds that the servers name only those; each action has a lemma ...Keeps.*)
(*                                                                         *)
(* A loop is a function from the number of its rounds to what they leave.  *)
(* That there is such a function is shown in each lemma about a loop: the  *)
(* set P of the numbers up to which there is one, with what the rounds     *)
(* keep, is all of Nat (NatSetInduction).                                  *)
(***************************************************************************)
EXTENDS SentinelNet, SumTheorems, SequenceTheorems

----------------------------------------------------------------------------
\* One instance.  Its name says what it is.
Kind(i) == IF i = MasterId THEN "master" ELSE IF i \in Addr THEN "slave" ELSE "sentinel"
Key == {"type", "addr", "flags", "runid", "cc", "out", "pend", "md", "prio", "fstate", "promoted"}
Queued(r) == Range(r.cc) \cup Range(r.out)
LinkOk(r) ==
    IF r.cc = Nil THEN r.out = <<>> /\ Has(r, "DISCONNECTED")
    ELSE r.cc \in Seq(Command) /\ r.out \in Seq(Command) /\ (r.type = "sentinel" => <<"INFO">> \notin Queued(r))
PendOk(r) ==
    /\ r.pend \in Int /\ r.pend >= MinPending
    /\ r.type = "master" => r.pend <= MaxPending
    /\ r.type = "sentinel" => r.pend <= MaxPending + 1
    /\ r.type = "sentinel" /\ r.pend = MaxPending + 1 => r.cc # Nil /\ <<"ASK">> \in Queued(r)
InstOk(i, r) ==
    /\ Key \subseteq DOMAIN r
    /\ r.type = Kind(i)
    /\ r.type = "master" => r.addr \in Addr
    /\ r.type = "slave" => r.addr = i
    /\ r.md \in Int /\ r.prio \in Nat
    /\ LinkOk(r) /\ PendOk(r)
Insts(ri) ==
    /\ MasterId \in DOMAIN ri /\ IsFiniteSet(DOMAIN ri)
    /\ \A i \in DOMAIN ri : InstOk(i, ri[i])

\* What happens to an instance r, which becomes q: it stays who it is, its part in a failover stays,
\* it is sent no role command, and nothing new is known of the answers that decide O_DOWN.
Marks == {"PROMOTED", "RECONF_SENT", "RECONF_INPROG", "FAILOVER_IN_PROGRESS", "I_AM_THE_LEADER"}
RolesOf(r) == IF r.cc = Nil THEN {} ELSE {c \in Queued(r) : c[1] \in Roles}
Keeps(r, q) == q.type = r.type /\ q.addr = r.addr /\ (r.type = "sentinel" => q.runid = r.runid)
Marked(r, q) == q.fstate = r.fstate /\ q.promoted = r.promoted /\ \A f \in Marks : Has(q, f) <=> Has(r, f)
Mute(r, q) == RolesOf(q) \subseteq RolesOf(r)
Answers(r, q) ==
    /\ q.md = r.md
    /\ Has(q, "MASTER_DOWN") <=> Has(r, "MASTER_DOWN")
    /\ Has(q, "O_DOWN") => Has(r, "O_DOWN")
Silent(r, q) == Keeps(r, q) /\ Marked(r, q) /\ Mute(r, q) /\ Answers(r, q)

LEMMA RangeAppend ==
  ASSUME NEW X, NEW s \in Seq(X), NEW c \in X
  PROVE  Append(s, c) \in Seq(X) /\ Range(Append(s, c)) = Range(s) \cup {c}
<1> DEFINE u == Append(s, c)
<1>1. Len(s) \in Nat /\ DOMAIN s = 1..Len(s) /\ DOMAIN u = 1..Len(s) + 1
  OBVIOUS
<1>2. u[Len(s) + 1] = c /\ \A i \in 1..Len(s) : u[i] = s[i]
  OBVIOUS
<1>3. u \in Seq(X)
  OBVIOUS
<1> HIDE DEF u
<1>4. Range(u) \subseteq Range(s) \cup {c}
  BY <1>1, <1>2 DEF Range
<1>5. Range(s) \cup {c} \subseteq Range(u)
  BY <1>1, <1>2 DEF Range
<1> QED
  BY <1>3, <1>4, <1>5 DEF u

LEMMA RangeTail ==
  ASSUME NEW X, NEW s \in Seq(X), s # <<>>
  PROVE  Tail(s) \in Seq(X) /\ Range(Tail(s)) \subseteq Range(s)
<1>1. Len(s) \in Nat \ {0} /\ DOMAIN s = 1..Len(s)
  OBVIOUS
<1>2. Tail(s) \in Seq(X) /\ DOMAIN Tail(s) = 1..Len(s) - 1 /\ \A i \in 1..Len(s) - 1 : Tail(s)[i] = s[i + 1]
  OBVIOUS
<1> QED
  BY <1>1, <1>2 DEF Range

LEMMA Constants ==
  /\ IsFiniteSet(Addr) /\ First \in Addr /\ MasterId \notin Addr
  /\ Nil \notin Addr /\ Nil \notin Seq(Command) /\ <<>> \in Seq(Command) /\ <<>> # Nil
  /\ Me \in Nat /\ MaxPending \in Nat /\ ScriptMaxQueue \in Nat /\ ScriptMaxRunning \in Nat
  /\ T.tilt \in Int /\ T.validity \in Int /\ CapOf.md \in Int /\ CapOf.tilt \in Int
  /\ T.tilt <= CapOf.tilt /\ T.tilt <= Never
  /\ MinPending = -1
<1>1. <<>> \in Seq(Command)
  OBVIOUS
<1> QED
  BY <1>1, SentinelAssumption DEF MinPending

LEMMA CommandsAre ==
  /\ \A x \in Plain : <<x>> \in Command
  /\ \A a \in Addr : <<"SLAVEOF", a>> \in Command
  /\ \A c \in Command : c[1] = "SLAVEOF" => c[2] \in Addr
  /\ \A c \in Command : c[1] = "INFO" => c = <<"INFO">>
  /\ \A c \in Command : c[1] = "ASK" => c = <<"ASK">>
BY DEF Command, Plain

LEMMA RangeNil == Range(<<>>) = {}
BY DEF Range

LEMMA InstSend ==
  ASSUME NEW i, NEW r, InstOk(i, r), r.cc # Nil, NEW c \in Command, c[1] \notin Roles,
         r.type = "sentinel" => c # <<"INFO">>,
         \/ r.pend < MaxPending \/ r.type = "slave"
         \/ r.type = "sentinel" /\ c = <<"ASK">> /\ <<"ASK">> \notin Queued(r)
  PROVE  InstOk(i, Send(r, c)) /\ Silent(r, Send(r, c))
<1> DEFINE q == Send(r, c)
<1>1. Append(r.out, c) \in Seq(Command) /\ Range(Append(r.out, c)) = Range(r.out) \cup {c}
  BY RangeAppend DEF InstOk, LinkOk
<1>2. /\ Key \subseteq DOMAIN q /\ q.type = r.type /\ q.addr = r.addr /\ q.flags = r.flags /\ q.runid = r.runid
      /\ q.cc = r.cc /\ q.out = Append(r.out, c) /\ q.pend = r.pend + 1 /\ q.md = r.md /\ q.prio = r.prio
      /\ q.fstate = r.fstate /\ q.promoted = r.promoted
  BY DEF InstOk, Key, Send, Counted
<1> HIDE DEF q
<1>3. Queued(q) = Queued(r) \cup {c}
  BY <1>1, <1>2 DEF Queued
<1>4. LinkOk(q)
  BY <1>1, <1>2, <1>3 DEF InstOk, LinkOk
<1>5. PendOk(q)
  <2>1. r.pend \in Int /\ r.pend >= MinPending /\ MinPending = -1 /\ MaxPending \in Nat
    BY Constants DEF InstOk, PendOk
  <2>2. q.type = "master" => q.pend <= MaxPending
    BY <1>2, <2>1 DEF InstOk, PendOk
  <2>3. q.type = "sentinel" => /\ q.pend <= MaxPending + 1
                               /\ q.pend = MaxPending + 1 => <<"ASK">> \in Queued(q)
    <3>1. CASE r.pend < MaxPending
      BY <1>2, <2>1, <3>1
    <3>2. CASE r.type = "sentinel" /\ c = <<"ASK">> /\ <<"ASK">> \notin Queued(r)
      <4>1. r.pend <= MaxPending
        BY <2>1, <3>2 DEF InstOk, PendOk
      <4> QED
        BY <1>2, <1>3, <2>1, <3>2, <4>1
    <3> QED
      BY <1>2, <3>1, <3>2
  <2> QED
    BY <1>2, <2>1, <2>2, <2>3 DEF PendOk
<1>6. InstOk(i, q)
  BY <1>2, <1>4, <1>5 DEF InstOk
<1>7. Silent(r, q)
  BY <1>2, <1>3 DEF Silent, Keeps, Marked, Mute, Answers, RolesOf, Has
<1> QED
  BY <1>6, <1>7 DEF q

LEMMA InstSame ==
  ASSUME NEW i, NEW r, NEW q, InstOk(i, r), Key \subseteq DOMAIN q, q.type = r.type, q.addr = r.addr,
         q.cc = r.cc, q.out = r.out, q.pend = r.pend, q.md \in Int, q.prio \in Nat,
         r.cc = Nil => Has(q, "DISCONNECTED")
  PROVE  InstOk(i, q) /\ Mute(r, q)
<1>1. Queued(q) = Queued(r)
  BY DEF Queued
<1>2. LinkOk(q)
  BY <1>1 DEF InstOk, LinkOk
<1>3. PendOk(q)
  BY <1>1 DEF InstOk, PendOk
<1> QED
  BY <1>1, <1>2, <1>3 DEF InstOk, Mute, RolesOf

LEMMA InstFields ==
  ASSUME NEW i, NEW r, InstOk(i, r)
  PROVE  /\ {"type", "addr", "flags", "runid", "cc", "out", "pend", "md", "prio", "fstate", "promoted"} \subseteq DOMAIN r
         /\ r.cc = Nil => Has(r, "DISCONNECTED")
         /\ r.md \in Int /\ r.prio \in Nat /\ r.pend \in Int
BY DEF InstOk, LinkOk, PendOk, Key

LEMMA InstTold ==
  ASSUME NEW i, NEW r, InstOk(i, r), r.cc # Nil, NEW c \in Command, r.type = "sentinel" => c # <<"INFO">>
  PROVE  /\ InstOk(i, SendUncounted(r, c)) /\ Keeps(r, SendUncounted(r, c)) /\ Marked(r, SendUncounted(r, c))
         /\ Answers(r, SendUncounted(r, c))
         /\ c[1] \notin Roles => Mute(r, SendUncounted(r, c))
<1> DEFINE q == SendUncounted(r, c)
<1>1. Append(r.out, c) \in Seq(Command) /\ Range(Append(r.out, c)) = Range(r.out) \cup {c}
  BY RangeAppend DEF InstOk, LinkOk
<1>2. /\ Key \subseteq DOMAIN q /\ q.type = r.type /\ q.addr = r.addr /\ q.flags = r.flags /\ q.runid = r.runid
      /\ q.cc = r.cc /\ q.out = Append(r.out, c) /\ q.pend = r.pend /\ q.md = r.md /\ q.prio = r.prio
      /\ q.fstate = r.fstate /\ q.promoted = r.promoted
  BY DEF InstOk, Key, SendUncounted
<1> HIDE DEF q
<1>3. Queued(q) = Queued(r) \cup {c}
  BY <1>1, <1>2 DEF Queued
<1>4. LinkOk(q)
  BY <1>1, <1>2, <1>3 DEF InstOk, LinkOk
<1>5. PendOk(q)
  BY <1>2, <1>3 DEF InstOk, PendOk
<1>6. InstOk(i, q)
  BY <1>2, <1>4, <1>5 DEF InstOk
<1>7. Keeps(r, q) /\ Marked(r, q) /\ Answers(r, q) /\ (c[1] \notin Roles => Mute(r, q))
  BY <1>2, <1>3 DEF Keeps, Marked, Mute, Answers, RolesOf, Has
<1> QED
  BY <1>6, <1>7 DEF q

\* A link that is closed, whatever else happens to the instance.
LEMMA InstCut ==
  ASSUME NEW i, NEW r, NEW q, InstOk(i, r), Key \subseteq DOMAIN q, q.type = r.type, q.addr \in Addr \/ q.addr = r.addr,
         q.type = "slave" => q.addr = r.addr,
         q.cc = Nil, q.out = <<>>, q.pend \in MinPending..MaxPending \/ (q.type = "slave" /\ q.pend \in Nat \cup {-1}),
         q.md \in Int, q.prio \in Nat, Has(q, "DISCONNECTED")
  PROVE  InstOk(i, q) /\ Mute(r, q)
<1>1. MinPending = -1 /\ MaxPending \in Nat
  BY Constants
<1>2. LinkOk(q)
  BY DEF LinkOk
<1>3. PendOk(q)
  BY <1>1 DEF PendOk
<1> QED
  BY <1>2, <1>3 DEF InstOk, Mute, RolesOf

LEMMA InstClosed ==
  ASSUME NEW i, NEW r, InstOk(i, r)
  PROVE  InstOk(i, Closed(r)) /\ Silent(r, Closed(r)) /\ Has(Closed(r), "DISCONNECTED")
<1> DEFINE q == Closed(r)
<1>1. /\ Key \subseteq DOMAIN q /\ q.type = r.type /\ q.addr = r.addr /\ q.flags = r.flags \cup {"DISCONNECTED"}
      /\ q.runid = r.runid
      /\ q.cc = Nil /\ q.out = <<>> /\ q.pend = 0 /\ q.md = r.md /\ q.prio = r.prio
      /\ q.fstate = r.fstate /\ q.promoted = r.promoted
  BY DEF InstOk, Key, Closed
<1> HIDE DEF q
<1>2. 0 \in MinPending..MaxPending
  BY Constants
<1>3. InstOk(i, q) /\ Mute(r, q)
  BY <1>1, <1>2, InstCut, InstFields DEF Has
<1>4. Keeps(r, q) /\ Marked(r, q) /\ Answers(r, q)
  BY <1>1 DEF Keeps, Marked, Answers, Has, Marks
<1> QED
  BY <1>1, <1>3, <1>4 DEF q, Silent, Has

LEMMA InstPubsubKilled ==
  ASSUME NEW i, NEW r, InstOk(i, r)
  PROVE  InstOk(i, KillPubsub(r)) /\ Silent(r, KillPubsub(r))
<1> DEFINE q == KillPubsub(r)
<1>1. /\ Key \subseteq DOMAIN q /\ q.type = r.type /\ q.addr = r.addr /\ q.flags = r.flags \cup {"DISCONNECTED"}
      /\ q.runid = r.runid /\ q.cc = r.cc /\ q.out = r.out /\ q.pend = r.pend /\ q.md = r.md /\ q.prio = r.prio
      /\ q.fstate = r.fstate /\ q.promoted = r.promoted
  BY DEF InstOk, Key, KillPubsub
<1> HIDE DEF q
<1>2. InstOk(i, q) /\ Mute(r, q)
  BY <1>1, InstSame, InstFields DEF Has
<1>3. Keeps(r, q) /\ Marked(r, q) /\ Answers(r, q)
  BY <1>1 DEF Keeps, Marked, Answers, Has, Marks
<1> QED
  BY <1>2, <1>3 DEF q, Silent

\* A reply: what waits gets shorter.
LEMMA InstReceived ==
  ASSUME NEW i, NEW r, InstOk(i, r), r.cc \notin {Nil, <<>>}
  PROVE  InstOk(i, Received(r)) /\ Silent(r, Received(r)) /\ Received(r).cc # Nil
<1> DEFINE q == Received(r)
<1>1. /\ Key \subseteq DOMAIN q /\ q.type = r.type /\ q.addr = r.addr /\ q.flags = r.flags /\ q.runid = r.runid
      /\ q.cc = Tail(r.cc) /\ q.out = r.out /\ q.md = r.md /\ q.prio = r.prio
      /\ q.fstate = r.fstate /\ q.promoted = r.promoted
      /\ q.pend = IF r.pend > MinPending THEN r.pend - 1 ELSE r.pend
  BY DEF InstOk, Key, Received
<1>2. r.cc \in Seq(Command) /\ Tail(r.cc) \in Seq(Command) /\ Range(Tail(r.cc)) \subseteq Range(r.cc)
  BY RangeTail DEF InstOk, LinkOk
<1> HIDE DEF q
<1>3. Queued(q) \subseteq Queued(r) /\ q.cc # Nil
  BY <1>1, <1>2, Constants DEF Queued
<1>4. LinkOk(q)
  BY <1>1, <1>2, <1>3 DEF InstOk, LinkOk
<1>5. PendOk(q)
  <2>1. /\ r.pend \in Int /\ r.pend >= MinPending /\ MinPending = -1 /\ MaxPending \in Nat
        /\ r.type = "master" => r.pend <= MaxPending
        /\ r.type = "sentinel" => r.pend <= MaxPending + 1
    BY Constants DEF InstOk, PendOk
  <2> QED
    BY <1>1, <2>1 DEF PendOk
<1>6. InstOk(i, q)
  BY <1>1, <1>4, <1>5 DEF InstOk
<1>7. Silent(r, q)
  BY <1>1, <1>2, <1>3 DEF Silent, Keeps, Marked, Mute, Answers, RolesOf, Has
<1> QED
  BY <1>3, <1>6, <1>7 DEF q

LEMMA InstWritten ==
  ASSUME NEW i, NEW r, InstOk(i, r), r.cc # Nil, NEW q, q = [r EXCEPT !.cc = r.cc \o r.out, !.out = <<>>]
  PROVE  InstOk(i, q) /\ Silent(r, q)
<1>1. r.cc \in Seq(Command) /\ r.out \in Seq(Command)
  BY DEF InstOk, LinkOk
<1>2. r.cc \o r.out \in Seq(Command) /\ Range(r.cc \o r.out) = Range(r.cc) \cup Range(r.out)
  BY <1>1, RangeConcatenation
<1>3. /\ Key \subseteq DOMAIN q /\ q.type = r.type /\ q.addr = r.addr /\ q.flags = r.flags /\ q.runid = r.runid
      /\ q.cc = r.cc \o r.out /\ q.out = <<>> /\ q.md = r.md /\ q.prio = r.prio /\ q.pend = r.pend
      /\ q.fstate = r.fstate /\ q.promoted = r.promoted
  BY DEF InstOk, Key
<1>4. Queued(q) = Queued(r) /\ q.cc # Nil /\ q.out \in Seq(Command)
  BY <1>2, <1>3, RangeNil, Constants DEF Queued
<1>5. LinkOk(q)
  BY <1>2, <1>3, <1>4 DEF InstOk, LinkOk
<1>6. PendOk(q)
  BY <1>3, <1>4 DEF InstOk, PendOk
<1>7. InstOk(i, q)
  BY <1>3, <1>5, <1>6 DEF InstOk
<1>8. Silent(r, q)
  BY <1>3, <1>4 DEF Silent, Keeps, Marked, Mute, Answers, RolesOf, Has
<1> QED
  BY <1>7, <1>8

LEMMA SilentRefl ==
  ASSUME NEW r PROVE Silent(r, r)
BY DEF Silent, Keeps, Marked, Mute, Answers

LEMMA SilentTrans ==
  ASSUME NEW r, NEW q, NEW p, Silent(r, q), Silent(q, p)
  PROVE  Silent(r, p)
<1>1. Keeps(r, p)
  BY DEF Silent, Keeps
<1>2. Marked(r, p)
  BY DEF Silent, Marked
<1>3. Mute(r, p)
  BY DEF Silent, Mute
<1>4. Answers(r, p)
  BY DEF Silent, Answers
<1> QED
  BY <1>1, <1>2, <1>3, <1>4 DEF Silent

\* The link is there again.
LEMMA InstReconnected ==
  ASSUME NEW i, NEW r, InstOk(i, r), NEW q,
         Key \subseteq DOMAIN q, q.type = r.type, q.addr = r.addr, q.runid = r.runid,
         q.cc = IF r.cc = Nil THEN <<>> ELSE r.cc, q.out = r.out, q.pend = r.pend, q.md = r.md, q.prio = r.prio,
         q.fstate = r.fstate, q.promoted = r.promoted, q.flags = r.flags \ {"DISCONNECTED"}
  PROVE  InstOk(i, q) /\ Silent(r, q) /\ q.cc # Nil
<1>1. q.cc # Nil /\ q.cc \in Seq(Command) /\ q.out \in Seq(Command)
  BY Constants DEF InstOk, LinkOk
<1>2. CASE r.cc = Nil
  <2>1. Queued(q) = {}
    BY <1>2, RangeNil DEF Queued, InstOk, LinkOk
  <2>2. LinkOk(q)
    BY <1>1, <2>1 DEF LinkOk
  <2>3. PendOk(q)
    BY <1>2 DEF PendOk, InstOk
  <2> QED
    BY <1>1, <1>2, <2>1, <2>2, <2>3 DEF InstOk, Silent, Keeps, Marked, Mute, Answers, RolesOf, Has, Marks
<1>3. CASE r.cc # Nil
  <2>1. Queued(q) = Queued(r)
    BY <1>3 DEF Queued
  <2>2. LinkOk(q)
    BY <1>1, <1>3, <2>1 DEF LinkOk, InstOk
  <2>3. PendOk(q)
    BY <1>1, <2>1 DEF PendOk, InstOk
  <2> QED
    BY <1>1, <1>3, <2>1, <2>2, <2>3 DEF InstOk, Silent, Keeps, Marked, Mute, Answers, RolesOf, Has, Marks
<1> QED
  BY <1>2, <1>3

----------------------------------------------------------------------------
\* What is kept besides the table.
IsList(s) == \E X : s \in Seq(X)
ScriptsOk(S) ==
    /\ IsList(S.scripts) /\ Len(S.scripts) <= ScriptMaxQueue
    /\ S.running \in Int /\ S.running <= ScriptMaxRunning
Parts == {"ri", "tilt", "tiltAge", "late", "scripts", "running", "wild"}
Shape(S) ==
    /\ Parts \subseteq DOMAIN S /\ ScriptsOk(S)
    /\ S.wild \subseteq Addr \X Command
    /\ S.tiltAge \in Int /\ (S.tiltAge < T.tilt => S.tilt)
Tilt(S, Q) == Q.tilt = S.tilt /\ Q.tiltAge = S.tiltAge
\* Nothing changes but the table.
OnlyRi(S, Q) ==
    /\ Parts \subseteq DOMAIN Q /\ Tilt(S, Q)
    /\ Q.late = S.late /\ Q.scripts = S.scripts /\ Q.running = S.running /\ Q.wild = S.wild
\* Nothing changes but the scripts.
OnlyScripts(S, Q) ==
    /\ Parts \subseteq DOMAIN Q /\ Tilt(S, Q)
    /\ Q.late = S.late /\ Q.ri = S.ri /\ Q.wild = S.wild

LEMMA ShapeKept ==
  ASSUME NEW S, NEW Q, Shape(S), OnlyRi(S, Q)
  PROVE  Shape(Q)
BY DEF Shape, OnlyRi, Tilt, ScriptsOk

LEMMA ShapeScripts ==
  ASSUME NEW S, NEW Q, Shape(S), OnlyScripts(S, Q), ScriptsOk(Q)
  PROVE  Shape(Q)
BY DEF Shape, OnlyScripts, Tilt

LEMMA SetIs ==
  ASSUME NEW S, Shape(S), NEW i, NEW r
  PROVE  /\ OnlyRi(S, Set(S, i, r)) /\ Shape(Set(S, i, r)) /\ Set(S, i, r).ri = [S.ri EXCEPT ![i] = r]
         /\ DOMAIN Set(S, i, r).ri = DOMAIN S.ri
         /\ i \in DOMAIN S.ri => Set(S, i, r).ri[i] = r
         /\ \A j \in DOMAIN S.ri : j # i => Set(S, i, r).ri[j] = S.ri[j]
<1>1. /\ OnlyRi(S, Set(S, i, r)) /\ Set(S, i, r).ri = [S.ri EXCEPT ![i] = r]
      /\ DOMAIN Set(S, i, r).ri = DOMAIN S.ri
      /\ i \in DOMAIN S.ri => Set(S, i, r).ri[i] = r
      /\ \A j \in DOMAIN S.ri : j # i => Set(S, i, r).ri[j] = S.ri[j]
  BY DEF Shape, Set, OnlyRi, Parts, Tilt
<1> QED
  BY <1>1, ShapeKept

LEMMA NatMin ==
  ASSUME NEW N \in SUBSET Nat, N # {}
  PROVE  Min(N) \in N /\ \A y \in N : Min(N) <= y
<1>1. PICK x \in N : \A y \in N : <<y, x>> \notin OpToRel(<, Nat)
  BY WFMin, NatLessThanWellFounded
<1>2. \A y \in N : ~(y < x)
  BY <1>1 DEF OpToRel
<1>3. \A y \in N : x <= y
  BY <1>2
<1> QED
  BY <1>3 DEF Min

LEMMA RemoveAtList ==
  ASSUME NEW X, NEW s \in Seq(X), NEW n \in 1..Len(s)
  PROVE  RemoveAt(s, n) \in Seq(X) /\ Len(RemoveAt(s, n)) = Len(s) - 1
<1> DEFINE a == SubSeq(s, 1, n - 1)
           b == SubSeq(s, n + 1, Len(s))
<1>1. Len(s) \in Nat /\ n \in Nat
  OBVIOUS
<1>2. a \in Seq(X) /\ Len(a) = n - 1
  BY <1>1
<1>3. b \in Seq(X) /\ Len(b) = Len(s) - n
  BY <1>1
<1> HIDE DEF a, b
<1>4. a \o b \in Seq(X) /\ Len(a \o b) = Len(a) + Len(b)
  BY <1>2, <1>3
<1>5. RemoveAt(s, n) = a \o b
  BY DEF RemoveAt, a, b
<1>6. Len(a \o b) = Len(s) - 1
  BY ONLY <1>1, <1>2, <1>3, <1>4
<1> QED
  BY ONLY <1>4, <1>5, <1>6

\* The queue of the scripts keeps to its limit: what is new waits, so that some job can go.
LEMMA Scheduled ==
  ASSUME NEW S, Shape(S), NEW type
  PROVE  LET Q == sentinelScheduleScriptExecution(S, type) IN OnlyScripts(S, Q) /\ Shape(Q)
<1> DEFINE Q == sentinelScheduleScriptExecution(S, type)
           q == Append(S.scripts, NewJob(type))
           N == {n \in 1..Len(q) : ~IsRunning(q[n])}
           old == FirstJob(q, LAMBDA j : ~IsRunning(j))
           new == IF Len(q) > ScriptMaxQueue /\ old # 0 THEN RemoveAt(q, old) ELSE q
<1>1. PICK X : S.scripts \in Seq(X)
  BY DEF Shape, ScriptsOk, IsList
<1> DEFINE Y == X \cup {NewJob(type)}
<1>2. q \in Seq(Y) /\ Len(q) = Len(S.scripts) + 1 /\ Len(q) \in Nat /\ q[Len(q)] = NewJob(type)
  <2>1. S.scripts \in Seq(Y) /\ NewJob(type) \in Y
    BY <1>1, SeqMonotonic
  <2> HIDE DEF Y
  <2> QED
    BY <2>1
<1>3. Q = [S EXCEPT !.scripts = new]
  BY DEF sentinelScheduleScriptExecution
<1>4. N \subseteq Nat /\ Len(q) \in N
  <2>1. ~IsRunning(NewJob(type))
    BY DEF IsRunning, NewJob
  <2> HIDE DEF q
  <2> QED
    BY <1>2, <2>1
<1>5. old = Min(N)
  <2> HIDE DEF q
  <2> QED
    BY <1>4 DEF FirstJob, SelectInSeq
<1>6. old \in 1..Len(q) /\ old # 0
  <2> HIDE DEF q
  <2>1. Min(N) \in N
    BY <1>4, NatMin
  <2> QED
    BY <1>5, <2>1
<1> HIDE DEF q, N, old, Y
<1>7. RemoveAt(q, old) \in Seq(Y) /\ Len(RemoveAt(q, old)) = Len(q) - 1
  BY <1>2, <1>6, RemoveAtList
<1>8. new \in Seq(Y) /\ Len(new) <= ScriptMaxQueue
  BY <1>2, <1>6, <1>7, Constants DEF Shape, ScriptsOk
<1> HIDE DEF new
<1>9. OnlyScripts(S, Q) /\ Q.scripts = new /\ Q.running = S.running
  BY <1>3 DEF Shape, Parts, OnlyScripts, Tilt
<1>10. ScriptsOk(Q)
  BY <1>8, <1>9 DEF Shape, ScriptsOk, IsList
<1> QED
  BY <1>9, <1>10, ShapeScripts

LEMMA EventIs ==
  ASSUME NEW S, Shape(S), NEW type, NEW c
  PROVE  /\ OnlyScripts(S, sentinelEvent(S, type, c)) /\ Shape(sentinelEvent(S, type, c))
         /\ OnlyScripts(S, sentinelCallClientReconfScript(S, type, c))
         /\ Shape(sentinelCallClientReconfScript(S, type, c))
<1>1. OnlyScripts(S, S)
  BY DEF OnlyScripts, Tilt, Shape
<1> QED
  BY <1>1, Scheduled DEF sentinelEvent, sentinelCallClientReconfScript

----------------------------------------------------------------------------
\* What is done to S where no role changes.
Sane(S) == Shape(S) /\ Insts(S.ri)
Works(S, Q) ==
    /\ Sane(Q) /\ Tilt(S, Q) /\ DOMAIN Q.ri = DOMAIN S.ri
    /\ \A i \in DOMAIN S.ri : Silent(S.ri[i], Q.ri[i])

LEMMA WorksRefl ==
  ASSUME NEW S, Sane(S) PROVE Works(S, S)
BY SilentRefl DEF Works, Tilt

LEMMA WorksTrans ==
  ASSUME NEW S, NEW Q, NEW R, Works(S, Q), Works(Q, R)
  PROVE  Works(S, R)
<1>1. \A i \in DOMAIN S.ri : Silent(S.ri[i], R.ri[i])
  BY SilentTrans DEF Works
<1> QED
  BY <1>1 DEF Works, Tilt

LEMMA WorksSet ==
  ASSUME NEW S, Sane(S), NEW i \in DOMAIN S.ri, NEW r, InstOk(i, r), Silent(S.ri[i], r)
  PROVE  Works(S, Set(S, i, r))
<1> DEFINE Q == Set(S, i, r)
<1>0. Shape(S)
  BY DEF Sane
<1>1. /\ OnlyRi(S, Q) /\ Shape(Q) /\ DOMAIN Q.ri = DOMAIN S.ri
      /\ Q.ri[i] = r
      /\ \A j \in DOMAIN S.ri : j # i => Q.ri[j] = S.ri[j]
  <2>1. OnlyRi(S, Q)
    BY <1>0, SetIs
  <2>2. Shape(Q) /\ DOMAIN Q.ri = DOMAIN S.ri
    BY <1>0, SetIs
  <2>3. Q.ri[i] = r
    BY <1>0, SetIs
  <2>4. \A j \in DOMAIN S.ri : j # i => Q.ri[j] = S.ri[j]
    <3>1. Q.ri = [S.ri EXCEPT ![i] = r]
      BY <1>0, SetIs
    <3> HIDE DEF Q
    <3> QED
      BY ONLY <3>1
  <2> QED
    BY <2>1, <2>2, <2>3, <2>4
<1> HIDE DEF Q
<1>2. Insts(Q.ri)
  BY <1>1 DEF Sane, Insts
<1>3. \A j \in DOMAIN S.ri : Silent(S.ri[j], Q.ri[j])
  BY <1>1, SilentRefl
<1> QED
  BY <1>1, <1>2, <1>3 DEF Works, Sane, OnlyRi, Q

LEMMA WorksScripts ==
  ASSUME NEW S, NEW Q, Sane(S), OnlyScripts(S, Q), Shape(Q)
  PROVE  Works(S, Q)
BY SilentRefl DEF Works, Sane, OnlyScripts

LEMMA WorksEvent ==
  ASSUME NEW S, NEW Q, Works(S, Q), NEW type, NEW c
  PROVE  Works(S, sentinelEvent(Q, type, c))
<1>1. Works(Q, sentinelEvent(Q, type, c))
  BY EventIs, WorksScripts DEF Works, Sane
<1> QED
  BY <1>1, WorksTrans

LEMMA WrittenWorks ==
  ASSUME NEW S, Sane(S)
  PROVE  Works(S, Written(S))
<1> DEFINE Q == Written(S)
           w(i) == WrittenLink(S.ri[i])
<1>0. /\ Parts \subseteq DOMAIN S
      /\ Q = [S EXCEPT !.ri = [i \in DOMAIN S.ri |-> w(i)]]
  <2>1. Parts \subseteq DOMAIN S
    BY DEF Sane, Shape
  <2>2. Written(S) = [S EXCEPT !.ri = [i \in DOMAIN S.ri |-> w(i)]]
    BY DEF Written
  <2> QED
    BY <2>1, <2>2
<1> HIDE DEF w
<1>1. OnlyRi(S, Q) /\ DOMAIN Q.ri = DOMAIN S.ri /\ \A i \in DOMAIN S.ri : Q.ri[i] = w(i)
  <2> HIDE DEF Q
  <2>1. Q.ri = [i \in DOMAIN S.ri |-> w(i)]
    BY <1>0 DEF Parts
  <2>2. OnlyRi(S, Q)
    BY <1>0 DEF OnlyRi, Parts, Tilt
  <2> QED
    BY <2>1, <2>2
<1>2. \A i \in DOMAIN S.ri : InstOk(i, w(i)) /\ Silent(S.ri[i], w(i))
  BY InstWritten, SilentRefl DEF Sane, Insts, w, WrittenLink
<1> HIDE DEF Q, w
<1>3. Insts(Q.ri)
  BY <1>1, <1>2 DEF Sane, Insts
<1>4. Shape(Q)
  BY <1>1, ShapeKept DEF Sane
<1> QED
  BY <1>1, <1>2, <1>3, <1>4 DEF Works, Sane, OnlyRi, Q

LEMMA ReconnectWorks ==
  ASSUME NEW S, Sane(S), NEW i \in DOMAIN S.ri
  PROVE  Works(S, sentinelReconnectInstance(S, i))
<1> DEFINE r == S.ri[i]
           c == IF r.cc = Nil THEN [r EXCEPT !.cc = <<>>, !.conn = 0] ELSE r
           p == IF r.type = "master" /\ ~r.pc THEN [c EXCEPT !.pc = TRUE, !.pcconn = 0] ELSE c
           q == [p EXCEPT !.flags = @ \ {"DISCONNECTED"}]
<1>1. InstOk(i, r)
  BY DEF Sane, Insts
<1>2. /\ Key \subseteq DOMAIN c /\ c.type = r.type /\ c.addr = r.addr /\ c.runid = r.runid
      /\ c.cc = (IF r.cc = Nil THEN <<>> ELSE r.cc) /\ c.out = r.out /\ c.pend = r.pend /\ c.md = r.md
      /\ c.prio = r.prio /\ c.fstate = r.fstate /\ c.promoted = r.promoted /\ c.flags = r.flags
  BY <1>1 DEF InstOk, Key
<1> HIDE DEF c
<1>3. /\ Key \subseteq DOMAIN p /\ p.type = r.type /\ p.addr = r.addr /\ p.runid = r.runid
      /\ p.cc = (IF r.cc = Nil THEN <<>> ELSE r.cc) /\ p.out = r.out /\ p.pend = r.pend /\ p.md = r.md
      /\ p.prio = r.prio /\ p.fstate = r.fstate /\ p.promoted = r.promoted /\ p.flags = r.flags
  BY <1>2 DEF Key
<1> HIDE DEF p
<1>4. /\ Key \subseteq DOMAIN q /\ q.type = r.type /\ q.addr = r.addr /\ q.runid = r.runid
      /\ q.cc = (IF r.cc = Nil THEN <<>> ELSE r.cc) /\ q.out = r.out /\ q.pend = r.pend /\ q.md = r.md
      /\ q.prio = r.prio /\ q.fstate = r.fstate /\ q.promoted = r.promoted /\ q.flags = r.flags \ {"DISCONNECTED"}
  BY <1>3 DEF Key
<1> HIDE DEF q
<1>5. InstOk(i, q) /\ Silent(r, q)
  BY <1>1, <1>4, InstReconnected
<1>6. Works(S, Set(S, i, q))
  BY <1>5, WorksSet
<1>7. sentinelReconnectInstance(S, i) = IF Has(r, "DISCONNECTED") THEN Set(S, i, q) ELSE S
  BY DEF sentinelReconnectInstance, q, p, c
<1> QED
  BY <1>6, <1>7, WorksRefl

LEMMA PingWorks ==
  ASSUME NEW S, Sane(S), NEW i \in DOMAIN S.ri
  PROVE  Works(S, sentinelPingInstance(S, i))
<1> DEFINE r == S.ri[i]
<1>1. InstOk(i, r)
  BY DEF Sane, Insts
<1>2. <<"INFO">> \in Command /\ <<"PING">> \in Command /\ <<"PUBLISH">> \in Command
  BY CommandsAre DEF Plain
<1>3. <<"INFO">>[1] \notin Roles /\ <<"PING">>[1] \notin Roles /\ <<"PUBLISH">>[1] \notin Roles
      /\ <<"PING">> # <<"INFO">> /\ <<"PUBLISH">> # <<"INFO">>
  BY DEF Roles
<1>4. CASE Has(r, "DISCONNECTED") \/ r.pend >= MaxPending
  BY <1>4, WorksRefl DEF sentinelPingInstance
<1>5. CASE ~(Has(r, "DISCONNECTED") \/ r.pend >= MaxPending)
  <2>1. r.cc # Nil /\ r.pend < MaxPending
    BY <1>1, <1>5, InstFields, Constants
  <2> HIDE DEF r
  <2>2. r.type # "sentinel" => Works(S, Set(S, i, Send(r, <<"INFO">>)))
    BY <1>1, <1>2, <1>3, <2>1, InstSend, WorksSet DEF r
  <2>3. Works(S, Set(S, i, Send(r, <<"PING">>)))
    BY <1>1, <1>2, <1>3, <2>1, InstSend, WorksSet DEF r
  <2>4. Works(S, Set(S, i, Send(r, <<"PUBLISH">>)))
    BY <1>1, <1>2, <1>3, <2>1, InstSend, WorksSet DEF r
  <2> QED
    BY <1>5, <2>2, <2>3, <2>4, WorksRefl DEF sentinelPingInstance, r
<1> QED
  BY <1>4, <1>5

\* A command in flight on a link to a Redis server.
LEMMA InFlightIs ==
  ASSUME NEW i, NEW r, InstOk(i, r)
  PROVE  InFlight(r) \subseteq Addr \X Command
<1>1. CASE r.cc = Nil \/ r.type = "sentinel"
  BY <1>1 DEF InFlight
<1>2. CASE r.cc # Nil /\ r.type # "sentinel"
  <2>1. r.addr \in Addr
    BY <1>2, Constants DEF InstOk, Kind
  <2>2. Range(r.cc) \subseteq Command
    BY <1>2, RangeOfSeq DEF InstOk, LinkOk
  <2> QED
    BY <1>2, <2>1, <2>2 DEF InFlight
<1> QED
  BY <1>1, <1>2

LEMMA KillLinkWorks ==
  ASSUME NEW S, Sane(S), NEW i \in DOMAIN S.ri
  PROVE  Works(S, sentinelKillLink(S, i))
<1> DEFINE Q == sentinelKillLink(S, i)
           q == Closed(S.ri[i])
<1>1. InstOk(i, S.ri[i]) /\ Parts \subseteq DOMAIN S
  BY DEF Sane, Insts, Shape
<1>2. /\ Q = [S EXCEPT !.ri[i] = q, !.wild = S.wild \cup InFlight(S.ri[i])]
      /\ InstOk(i, q) /\ Silent(S.ri[i], q) /\ InFlight(S.ri[i]) \subseteq Addr \X Command
  BY <1>1, InstClosed, InFlightIs DEF sentinelKillLink
<1> HIDE DEF Q, q
<1>3. /\ Parts \subseteq DOMAIN Q /\ Q.tilt = S.tilt /\ Q.tiltAge = S.tiltAge /\ Q.scripts = S.scripts
      /\ Q.running = S.running /\ Q.ri = [S.ri EXCEPT ![i] = q]
      /\ Q.wild = S.wild \cup InFlight(S.ri[i])
  BY <1>1, <1>2 DEF Parts
<1>4. DOMAIN Q.ri = DOMAIN S.ri /\ Q.ri[i] = q
  BY <1>3
<1>5. \A j \in DOMAIN S.ri : j # i => Q.ri[j] = S.ri[j]
  BY <1>3
<1>6. Insts(Q.ri)
  BY <1>2, <1>4, <1>5 DEF Sane, Insts
<1>7. Shape(Q)
  BY <1>2, <1>3 DEF Shape, Sane, ScriptsOk
<1>8. \A j \in DOMAIN S.ri : Silent(S.ri[j], Q.ri[j])
  BY <1>2, <1>4, <1>5, SilentRefl
<1> QED
  BY <1>3, <1>4, <1>6, <1>7, <1>8 DEF Works, Sane, Tilt, Q

\* Flags that are no marks, and ages.
LEMMA InstMinor ==
  ASSUME NEW i, NEW r, NEW q, InstOk(i, r), Key \subseteq DOMAIN q,
         q.type = r.type, q.addr = r.addr, q.runid = r.runid, q.cc = r.cc, q.out = r.out, q.pend = r.pend,
         q.md = r.md, q.prio \in Nat, q.fstate = r.fstate, q.promoted = r.promoted,
         \A f \in Marks \cup {"DISCONNECTED", "MASTER_DOWN"} : Has(q, f) <=> Has(r, f),
         Has(q, "O_DOWN") => Has(r, "O_DOWN")
  PROVE  InstOk(i, q) /\ Silent(r, q)
<1>1. InstOk(i, q) /\ Mute(r, q)
  BY InstSame, InstFields
<1>2. Keeps(r, q) /\ Marked(r, q) /\ Answers(r, q)
  BY DEF Keeps, Marked, Answers
<1> QED
  BY <1>1, <1>2 DEF Silent

LEMMA SubjectivelyDownWorks ==
  ASSUME NEW S, Sane(S), NEW i \in DOMAIN S.ri, NEW c
  PROVE  Works(S, sentinelCheckSubjectivelyDown(S, i, c))
<1> DEFINE r == S.ri[i]
           K == IF r.cc # Nil /\ r.conn > T.reconnect /\ r.pong > T.down \div 2 THEN sentinelKillLink(S, i) ELSE S
           P == IF r.pc /\ r.pcconn > T.reconnect /\ r.pcact > 3 * T.publish
                THEN Set(K, i, KillPubsub(K.ri[i])) ELSE K
           d == [P.ri[i] EXCEPT !.sdown = 0, !.flags = @ \cup {"S_DOWN"}]
           u == [P.ri[i] EXCEPT !.flags = @ \ {"S_DOWN", "SCRIPT_KILL_SENT"}]
<1>1. Works(S, K)
  BY KillLinkWorks, WorksRefl
<1> HIDE DEF K
<1>2. Works(S, P)
  <2>1. Sane(K) /\ i \in DOMAIN K.ri /\ InstOk(i, K.ri[i])
    BY <1>1 DEF Works, Sane, Insts
  <2>2. Works(K, Set(K, i, KillPubsub(K.ri[i])))
    BY <2>1, InstPubsubKilled, WorksSet
  <2> QED
    BY <1>1, <2>2, WorksTrans
<1> HIDE DEF P
<1>3. Sane(P) /\ i \in DOMAIN P.ri /\ InstOk(i, P.ri[i]) /\ Key \subseteq DOMAIN P.ri[i]
  BY <1>2 DEF Works, Sane, Insts, InstOk
<1>4. InstOk(i, d) /\ Silent(P.ri[i], d)
  <2>1. /\ Key \subseteq DOMAIN d /\ d.flags = P.ri[i].flags \cup {"S_DOWN"} /\ d.prio \in Nat
        /\ d.type = P.ri[i].type /\ d.addr = P.ri[i].addr /\ d.runid = P.ri[i].runid /\ d.cc = P.ri[i].cc
        /\ d.out = P.ri[i].out /\ d.pend = P.ri[i].pend /\ d.md = P.ri[i].md
        /\ d.fstate = P.ri[i].fstate /\ d.promoted = P.ri[i].promoted
    BY <1>3 DEF Key, InstOk
  <2> HIDE DEF d
  <2> QED
    BY <1>3, <2>1, InstMinor DEF Has, Marks
<1>5. InstOk(i, u) /\ Silent(P.ri[i], u)
  <2>1. /\ Key \subseteq DOMAIN u /\ u.flags = P.ri[i].flags \ {"S_DOWN", "SCRIPT_KILL_SENT"} /\ u.prio \in Nat
        /\ u.type = P.ri[i].type /\ u.addr = P.ri[i].addr /\ u.runid = P.ri[i].runid /\ u.cc = P.ri[i].cc
        /\ u.out = P.ri[i].out /\ u.pend = P.ri[i].pend /\ u.md = P.ri[i].md
        /\ u.fstate = P.ri[i].fstate /\ u.promoted = P.ri[i].promoted
    BY <1>3 DEF Key, InstOk
  <2> HIDE DEF u
  <2> QED
    BY <1>3, <2>1, InstMinor DEF Has, Marks
<1> HIDE DEF d, u
<1>6. Works(P, Set(P, i, d)) /\ Works(P, Set(P, i, u))
  BY <1>3, <1>4, <1>5, WorksSet
<1>7. Works(S, Set(P, i, d)) /\ Works(S, Set(P, i, u))
  BY <1>2, <1>6, WorksTrans
<1>8. Works(S, sentinelEvent(Set(P, i, d), "+sdown", c)) /\ Works(S, sentinelEvent(Set(P, i, u), "-sdown", c))
  BY <1>7, WorksEvent
<1>9. \/ sentinelCheckSubjectivelyDown(S, i, c) = P
      \/ sentinelCheckSubjectivelyDown(S, i, c) = sentinelEvent(Set(P, i, d), "+sdown", c)
      \/ sentinelCheckSubjectivelyDown(S, i, c) = sentinelEvent(Set(P, i, u), "-sdown", c)
  BY DEF sentinelCheckSubjectivelyDown, P, K, d, u
<1> QED
  BY <1>2, <1>8, <1>9

----------------------------------------------------------------------------
\* The failover the table is in.
SlavesIn(ri) == {i \in DOMAIN ri : ri[i].type = "slave"}
PromotedIn(ri) == {i \in SlavesIn(ri) : Has(ri[i], "PROMOTED")}
BusyIn(ri) == {i \in SlavesIn(ri) : Has(ri[i], "RECONF_SENT") \/ Has(ri[i], "RECONF_INPROG")}
Phase(m, promoted, busy) ==
    /\ m.fstate \in States
    /\ Has(m, "FAILOVER_IN_PROGRESS") <=> m.fstate # "NONE"
    /\ Has(m, "I_AM_THE_LEADER") => Has(m, "FAILOVER_IN_PROGRESS")
    /\ Has(m, "FAILOVER_IN_PROGRESS") /\ ~Has(m, "I_AM_THE_LEADER") => m.fstate \in {"DETECT_END", "UPDATE_CONFIG"}
    /\ m.promoted # Nil <=> m.fstate \in {"SEND_SLAVEOF_NOONE", "WAIT_PROMOTION"} \cup Promoted
    /\ promoted = {m.promoted} \ {Nil}
    /\ m.fstate \notin Promoted => busy = {}
FailoverOk(ri) == Phase(ri[MasterId], PromotedIn(ri), BusyIn(ri))
Runids(ri) ==
    \A i, j \in DOMAIN ri : ri[i].type = "sentinel" /\ ri[j].type = "sentinel" /\ i # j => ri[i].runid # ri[j].runid
Named(ri, ms) ==
    /\ ri[MasterId].addr \in ms
    /\ ri[MasterId].fstate \in Promoted => ri[MasterId].promoted \in ms
Fine(S, ms) == Sane(S) /\ FailoverOk(S.ri) /\ Runids(S.ri) /\ Named(S.ri, ms)

\* What is done to S where its failover stays as it is, and what the timer does where it changes.
Quiet(S, Q) ==
    /\ Sane(Q) /\ Tilt(S, Q) /\ DOMAIN Q.ri = DOMAIN S.ri
    /\ \A i \in DOMAIN S.ri : Keeps(S.ri[i], Q.ri[i]) /\ Marked(S.ri[i], Q.ri[i])
Acts(S, Q) ==
    /\ Sane(Q) /\ Tilt(S, Q) /\ DOMAIN Q.ri = DOMAIN S.ri
    /\ \A i \in DOMAIN S.ri : Keeps(S.ri[i], Q.ri[i]) /\ Answers(S.ri[i], Q.ri[i])

LEMMA WorksQuietly ==
  ASSUME NEW S, NEW Q, Works(S, Q)
  PROVE  Quiet(S, Q) /\ Acts(S, Q)
BY DEF Works, Quiet, Acts, Silent

LEMMA KeepsRunids ==
  ASSUME NEW ri, NEW qi, DOMAIN qi = DOMAIN ri, \A i \in DOMAIN ri : Keeps(ri[i], qi[i]), Runids(ri)
  PROVE  Runids(qi)
BY DEF Keeps, Runids

LEMMA QuietFine ==
  ASSUME NEW S, NEW ms, NEW Q, Fine(S, ms), Quiet(S, Q)
  PROVE  Fine(Q, ms)
<1>1. Sane(Q) /\ DOMAIN Q.ri = DOMAIN S.ri /\ MasterId \in DOMAIN S.ri
  BY DEF Quiet, Fine, Sane, Insts
<1>2. \A i \in DOMAIN S.ri : Keeps(S.ri[i], Q.ri[i]) /\ Marked(S.ri[i], Q.ri[i])
  BY DEF Quiet
<1>3. Runids(Q.ri)
  BY <1>1, <1>2, KeepsRunids DEF Fine
<1>4. SlavesIn(Q.ri) = SlavesIn(S.ri)
  BY <1>1, <1>2 DEF SlavesIn, Keeps
<1>5. PromotedIn(Q.ri) = PromotedIn(S.ri) /\ BusyIn(Q.ri) = BusyIn(S.ri)
  BY <1>2, <1>4 DEF PromotedIn, BusyIn, SlavesIn, Marked, Marks
<1>6. Keeps(S.ri[MasterId], Q.ri[MasterId]) /\ Marked(S.ri[MasterId], Q.ri[MasterId])
  BY <1>1, <1>2
<1>7. FailoverOk(Q.ri)
  BY <1>5, <1>6 DEF Fine, FailoverOk, Phase, Marked, Marks
<1>8. Named(Q.ri, ms)
  BY <1>6 DEF Fine, Named, Marked, Keeps
<1> QED
  BY <1>1, <1>3, <1>7, <1>8 DEF Fine

LEMMA ActsFine ==
  ASSUME NEW S, NEW ms, NEW Q, Fine(S, ms), Acts(S, Q), FailoverOk(Q.ri), Named(Q.ri, ms)
  PROVE  Fine(Q, ms)
<1>1. Runids(Q.ri)
  BY KeepsRunids DEF Fine, Acts
<1> QED
  BY <1>1 DEF Fine, Acts

LEMMA ActsTrans ==
  ASSUME NEW S, NEW Q, NEW R, Acts(S, Q), Acts(Q, R)
  PROVE  Acts(S, R)
<1>1. \A i \in DOMAIN S.ri : Keeps(S.ri[i], R.ri[i])
  BY DEF Acts, Keeps
<1>2. \A i \in DOMAIN S.ri : Answers(S.ri[i], R.ri[i])
  BY DEF Acts, Answers
<1> QED
  BY <1>1, <1>2 DEF Acts, Tilt

LEMMA QuietTrans ==
  ASSUME NEW S, NEW Q, NEW R, Quiet(S, Q), Quiet(Q, R)
  PROVE  Quiet(S, R)
<1>1. \A i \in DOMAIN S.ri : Keeps(S.ri[i], R.ri[i])
  BY DEF Quiet, Keeps
<1>2. \A i \in DOMAIN S.ri : Marked(S.ri[i], R.ri[i])
  BY DEF Quiet, Marked
<1> QED
  BY <1>1, <1>2 DEF Quiet, Tilt

\* An answer that counts is recent, once the sentinels have been asked.
RecentIn(ri) == \A i \in DOMAIN ri : ri[i].type = "sentinel" /\ Has(ri[i], "MASTER_DOWN") => ri[i].md <= T.validity
Asks(S, Q) ==
    /\ Quiet(S, Q) /\ RecentIn(Q.ri)
    /\ \A i \in DOMAIN S.ri : Mute(S.ri[i], Q.ri[i]) /\ (Has(Q.ri[i], "O_DOWN") => Has(S.ri[i], "O_DOWN"))

LEMMA InstRecent ==
  ASSUME NEW i, NEW r, InstOk(i, r)
  PROVE  LET q == RecentAnswer(r) IN
         /\ InstOk(i, q) /\ Keeps(r, q) /\ Marked(r, q) /\ Mute(r, q)
         /\ Has(q, "MASTER_DOWN") => q.md <= T.validity
         /\ Has(q, "O_DOWN") => Has(r, "O_DOWN")
         /\ q.cc = r.cc /\ q.out = r.out /\ q.pend = r.pend /\ (r.cc = Nil <=> q.cc = Nil)
<1> DEFINE q == RecentAnswer(r)
           f == IF r.md > T.validity THEN r.flags \ {"MASTER_DOWN"} ELSE r.flags
<1>1. /\ Key \subseteq DOMAIN q /\ q.type = r.type /\ q.addr = r.addr /\ q.runid = r.runid /\ q.cc = r.cc
      /\ q.out = r.out /\ q.pend = r.pend /\ q.md = r.md /\ q.prio = r.prio /\ q.fstate = r.fstate
      /\ q.promoted = r.promoted /\ q.flags = f
  BY DEF InstOk, Key, RecentAnswer
<1> HIDE DEF q
<1>2. InstOk(i, q) /\ Mute(r, q)
  BY <1>1, InstSame, InstFields DEF Has
<1>3. Keeps(r, q) /\ Marked(r, q)
  BY <1>1 DEF Keeps, Marked, Has, Marks
<1>4. Has(q, "MASTER_DOWN") => q.md <= T.validity
  BY <1>1, InstFields, Constants DEF Has
<1>5. Has(q, "O_DOWN") => Has(r, "O_DOWN")
  BY <1>1 DEF Has
<1> QED
  BY <1>1, <1>2, <1>3, <1>4, <1>5 DEF q

LEMMA AskAsks ==
  ASSUME NEW S, Sane(S)
  PROVE  Asks(S, sentinelAskMasterStateToOtherSentinels(S))
<1> DEFINE Q == sentinelAskMasterStateToOtherSentinels(S)
           idle == ~Has(M(S), "S_DOWN") /\ ~Has(M(S), "FAILOVER_IN_PROGRESS")
           asked(r) == r.cc # Nil /\ <<"ASK">> \in Range(r.cc) \cup Range(r.out)
           Ask(r) == IF idle \/ Has(r, "DISCONNECTED") \/ r.md < T.ask \/ asked(r) THEN RecentAnswer(r)
                     ELSE Send(RecentAnswer(r), <<"ASK">>)
           f(i) == IF S.ri[i].type = "sentinel" THEN Ask(S.ri[i]) ELSE S.ri[i]
<1>1. Q = [S EXCEPT !.ri = [i \in DOMAIN S.ri |-> f(i)]]
  BY DEF sentinelAskMasterStateToOtherSentinels, Each
<1>2. ASSUME NEW i \in DOMAIN S.ri, S.ri[i].type = "sentinel"
      PROVE  /\ InstOk(i, Ask(S.ri[i])) /\ Keeps(S.ri[i], Ask(S.ri[i])) /\ Marked(S.ri[i], Ask(S.ri[i]))
             /\ Mute(S.ri[i], Ask(S.ri[i]))
             /\ Has(Ask(S.ri[i]), "MASTER_DOWN") => Ask(S.ri[i]).md <= T.validity
             /\ Has(Ask(S.ri[i]), "O_DOWN") => Has(S.ri[i], "O_DOWN")
  <2> DEFINE r == S.ri[i]
             q == RecentAnswer(r)
  <2>1. InstOk(i, r)
    BY DEF Sane, Insts
  <2> HIDE DEF r
  <2>2. /\ InstOk(i, q) /\ Keeps(r, q) /\ Marked(r, q) /\ Mute(r, q)
        /\ Has(q, "MASTER_DOWN") => q.md <= T.validity
        /\ Has(q, "O_DOWN") => Has(r, "O_DOWN")
        /\ q.cc = r.cc /\ q.out = r.out /\ q.pend = r.pend /\ (r.cc = Nil <=> q.cc = Nil)
    BY <2>1, InstRecent
  <2> HIDE DEF q
  <2>3. CASE Ask(r) = q
    BY <2>2, <2>3 DEF r
  <2>4. CASE ~Has(r, "DISCONNECTED") /\ ~asked(r) /\ Ask(r) = Send(q, <<"ASK">>)
    <3>1. q.cc # Nil /\ <<"ASK">> \notin Queued(q)
      BY <2>1, <2>2, <2>4, InstFields DEF Queued
    <3>2. <<"ASK">> \in Command /\ <<"ASK">>[1] \notin Roles /\ <<"ASK">> # <<"INFO">> /\ q.type = "sentinel"
      BY <1>2, <2>2, CommandsAre DEF Plain, Roles, Keeps, r
    <3>3. InstOk(i, Send(q, <<"ASK">>)) /\ Silent(q, Send(q, <<"ASK">>))
      BY <2>2, <3>1, <3>2, InstSend
    <3> DEFINE p == Send(q, <<"ASK">>)
    <3> HIDE DEF p
    <3>4. InstOk(i, p) /\ Keeps(q, p) /\ Marked(q, p) /\ Mute(q, p) /\ Answers(q, p)
      BY <3>3 DEF Silent, p
    <3>5. Keeps(r, p) /\ Mute(r, p)
      BY <2>2, <3>4 DEF Keeps, Mute
    <3>6. Marked(r, p)
      BY <2>2, <3>4 DEF Marked
    <3>7. /\ Has(p, "MASTER_DOWN") => p.md <= T.validity
          /\ Has(p, "O_DOWN") => Has(r, "O_DOWN")
      BY <2>2, <3>4 DEF Answers
    <3> QED
      BY <2>4, <3>4, <3>5, <3>6, <3>7 DEF p, r
  <2> QED
    BY <2>3, <2>4 DEF q
<1> HIDE DEF Ask
<1>3. \A i \in DOMAIN S.ri :
          /\ InstOk(i, f(i)) /\ Keeps(S.ri[i], f(i)) /\ Marked(S.ri[i], f(i)) /\ Mute(S.ri[i], f(i))
          /\ f(i).type = "sentinel" /\ Has(f(i), "MASTER_DOWN") => f(i).md <= T.validity
          /\ Has(f(i), "O_DOWN") => Has(S.ri[i], "O_DOWN")
  <2> SUFFICES ASSUME NEW i \in DOMAIN S.ri
               PROVE  /\ InstOk(i, f(i)) /\ Keeps(S.ri[i], f(i)) /\ Marked(S.ri[i], f(i)) /\ Mute(S.ri[i], f(i))
                      /\ f(i).type = "sentinel" /\ Has(f(i), "MASTER_DOWN") => f(i).md <= T.validity
                      /\ Has(f(i), "O_DOWN") => Has(S.ri[i], "O_DOWN")
    OBVIOUS
  <2>1. CASE S.ri[i].type = "sentinel"
    BY <1>2, <2>1
  <2>2. CASE S.ri[i].type # "sentinel"
    BY <2>2 DEF Sane, Insts, Keeps, Marked, Mute
  <2> QED
    BY <2>1, <2>2
<1> HIDE DEF f, Q
<1>4. Parts \subseteq DOMAIN S
  BY DEF Sane, Shape
<1>5. OnlyRi(S, Q) /\ Q.ri = [i \in DOMAIN S.ri |-> f(i)]
  BY <1>1, <1>4 DEF OnlyRi, Tilt, Parts
<1>6. Shape(Q)
  BY <1>5, ShapeKept DEF Sane
<1>7. DOMAIN Q.ri = DOMAIN S.ri /\ \A i \in DOMAIN S.ri : Q.ri[i] = f(i)
  BY <1>5
<1>8. Insts(Q.ri)
  BY <1>3, <1>7 DEF Sane, Insts
<1>9. Quiet(S, Q)
  BY <1>3, <1>5, <1>6, <1>7, <1>8 DEF Quiet, Sane, OnlyRi
<1>10. RecentIn(Q.ri)
  BY <1>3, <1>7 DEF RecentIn
<1> QED
  BY <1>3, <1>7, <1>9, <1>10 DEF Asks, Q

\* The master becomes objectively down on answers that are recent.
FreshIn(ri) == {i \in DOMAIN ri : ri[i].type = "sentinel" /\ Has(ri[i], "MASTER_DOWN") /\ ri[i].md <= T.validity}
Decided(S, Q, c) ==
    Has(M(Q), "O_DOWN") /\ ~Has(M(S), "O_DOWN") => 1 + Cardinality(FreshIn(Q.ri)) >= c.quorum

LEMMA FreshKept ==
  ASSUME NEW S, NEW Q, Acts(S, Q)
  PROVE  FreshIn(Q.ri) = FreshIn(S.ri)
BY DEF Acts, Keeps, Answers, FreshIn

LEMMA ActsDecided ==
  ASSUME NEW S, NEW Q, NEW R, NEW c, Decided(S, Q, c), Sane(Q), Acts(Q, R)
  PROVE  Decided(S, R, c)
<1>1. Has(M(R), "O_DOWN") => Has(M(Q), "O_DOWN")
  BY DEF Acts, Answers, M, Sane, Insts
<1> QED
  BY <1>1, FreshKept DEF Decided

LEMMA QuietSet ==
  ASSUME NEW S, Sane(S), NEW i \in DOMAIN S.ri, NEW r, InstOk(i, r), Keeps(S.ri[i], r)
  PROVE  LET Q == Set(S, i, r) IN
         /\ Sane(Q) /\ Tilt(S, Q) /\ DOMAIN Q.ri = DOMAIN S.ri /\ Q.ri[i] = r
         /\ \A j \in DOMAIN S.ri : Keeps(S.ri[j], Q.ri[j])
         /\ \A j \in DOMAIN S.ri : j # i => Q.ri[j] = S.ri[j]
         /\ Marked(S.ri[i], r) => Quiet(S, Q)
         /\ Answers(S.ri[i], r) => Acts(S, Q)
<1> DEFINE Q == Set(S, i, r)
<1>0. Shape(S)
  BY DEF Sane
<1>1. OnlyRi(S, Q) /\ Shape(Q) /\ DOMAIN Q.ri = DOMAIN S.ri /\ Q.ri = [S.ri EXCEPT ![i] = r]
  BY <1>0, SetIs
<1> HIDE DEF Q
<1>2. Q.ri[i] = r
  BY <1>1
<1>3. \A j \in DOMAIN S.ri : j # i => Q.ri[j] = S.ri[j]
  BY ONLY <1>1
<1>4. Insts(Q.ri)
  BY <1>1, <1>2, <1>3 DEF Sane, Insts
<1>5. \A j \in DOMAIN S.ri : Keeps(S.ri[j], Q.ri[j])
  BY <1>2, <1>3 DEF Keeps
<1>6. Marked(S.ri[i], r) => \A j \in DOMAIN S.ri : Marked(S.ri[j], Q.ri[j])
  BY <1>2, <1>3 DEF Marked
<1>7. Answers(S.ri[i], r) => \A j \in DOMAIN S.ri : Answers(S.ri[j], Q.ri[j])
  BY <1>2, <1>3 DEF Answers
<1>8. Sane(Q) /\ Tilt(S, Q)
  BY <1>1, <1>4 DEF Sane, OnlyRi
<1>9. Marked(S.ri[i], r) => Quiet(S, Q)
  BY <1>1, <1>5, <1>6, <1>8 DEF Quiet
<1>10. Answers(S.ri[i], r) => Acts(S, Q)
  BY <1>1, <1>5, <1>7, <1>8 DEF Acts
<1> QED
  BY <1>1, <1>2, <1>3, <1>5, <1>8, <1>9, <1>10 DEF Q

LEMMA EventActs ==
  ASSUME NEW S, Sane(S), NEW type, NEW c
  PROVE  /\ Acts(S, sentinelEvent(S, type, c)) /\ Quiet(S, sentinelEvent(S, type, c))
         /\ sentinelEvent(S, type, c).ri = S.ri /\ Sane(sentinelEvent(S, type, c))
         /\ Acts(S, sentinelCallClientReconfScript(S, type, c))
         /\ Quiet(S, sentinelCallClientReconfScript(S, type, c))
         /\ sentinelCallClientReconfScript(S, type, c).ri = S.ri
         /\ Sane(sentinelCallClientReconfScript(S, type, c))
<1> DEFINE E == sentinelEvent(S, type, c)
           F == sentinelCallClientReconfScript(S, type, c)
<1>1. OnlyScripts(S, E) /\ Shape(E) /\ OnlyScripts(S, F) /\ Shape(F)
  BY EventIs DEF Sane
<1>2. Works(S, E) /\ Works(S, F)
  BY <1>1, WorksScripts
<1> QED
  BY <1>1, <1>2, WorksQuietly DEF OnlyScripts, Works

LEMMA ObjectivelyDownDecides ==
  ASSUME NEW S, Sane(S), RecentIn(S.ri), NEW c
  PROVE  LET Q == sentinelCheckObjectivelyDown(S, c) IN
         Quiet(S, Q) /\ Decided(S, Q, c)
<1> DEFINE m == M(S)
           down == {i \in Of(S, "sentinel") : Has(S.ri[i], "MASTER_DOWN")}
           odown == Has(m, "S_DOWN") /\ 1 + Cardinality(down) >= c.quorum
           d == [m EXCEPT !.odown = 0, !.flags = @ \cup {"O_DOWN"}]
           u == [m EXCEPT !.flags = @ \ {"O_DOWN"}]
           D == Set(S, MasterId, d)
           U == Set(S, MasterId, u)
           Q == sentinelCheckObjectivelyDown(S, c)
<1>1. MasterId \in DOMAIN S.ri /\ InstOk(MasterId, m) /\ S.ri[MasterId] = m
  BY DEF Sane, Insts, M
<1> HIDE DEF m
<1>2. /\ Key \subseteq DOMAIN d /\ d.flags = m.flags \cup {"O_DOWN"} /\ d.prio = m.prio
      /\ d.type = m.type /\ d.addr = m.addr /\ d.runid = m.runid /\ d.cc = m.cc /\ d.out = m.out
      /\ d.pend = m.pend /\ d.md = m.md /\ d.fstate = m.fstate /\ d.promoted = m.promoted
  BY <1>1 DEF Key, InstOk
<1>3. /\ Key \subseteq DOMAIN u /\ u.flags = m.flags \ {"O_DOWN"} /\ u.prio = m.prio
      /\ u.type = m.type /\ u.addr = m.addr /\ u.runid = m.runid /\ u.cc = m.cc /\ u.out = m.out
      /\ u.pend = m.pend /\ u.md = m.md /\ u.fstate = m.fstate /\ u.promoted = m.promoted
  BY <1>1 DEF Key, InstOk
<1> HIDE DEF d, u
<1>4. InstOk(MasterId, d) /\ Keeps(m, d) /\ Marked(m, d)
  <2>1. InstOk(MasterId, d)
    BY <1>1, <1>2, InstSame, InstFields DEF Has
  <2> QED
    BY <1>2, <2>1 DEF Keeps, Marked, Has, Marks
<1>5. InstOk(MasterId, u) /\ Keeps(m, u) /\ Marked(m, u)
  <2>1. InstOk(MasterId, u)
    BY <1>1, <1>3, InstSame, InstFields DEF Has
  <2> QED
    BY <1>3, <2>1 DEF Keeps, Marked, Has, Marks
<1>6. /\ Quiet(S, D) /\ DOMAIN D.ri = DOMAIN S.ri /\ D.ri[MasterId] = d
      /\ \A j \in DOMAIN S.ri : j # MasterId => D.ri[j] = S.ri[j]
  BY <1>1, <1>4, QuietSet
<1>7. Quiet(S, U) /\ U.ri[MasterId] = u
  BY <1>1, <1>5, QuietSet
<1> HIDE DEF D, U
<1>8. FreshIn(D.ri) = down
  <2>1. m.type # "sentinel" /\ d.type # "sentinel"
    BY <1>1, <1>2 DEF InstOk, Kind
  <2>2. \A j \in DOMAIN S.ri : D.ri[j].type = "sentinel" <=> S.ri[j].type = "sentinel"
    BY <1>1, <1>6, <2>1
  <2>3. \A j \in DOMAIN S.ri : S.ri[j].type = "sentinel" => D.ri[j] = S.ri[j]
    BY <1>1, <1>6, <2>1
  <2> QED
    BY <1>6, <2>2, <2>3 DEF FreshIn, Of, RecentIn
<1>9. odown => Decided(S, D, c)
  BY <1>8 DEF Decided
<1>10. Decided(S, U, c)
  BY <1>3, <1>7 DEF Decided, M, Has
<1>11. Quiet(S, sentinelEvent(D, "+odown", c)) /\ (odown => Decided(S, sentinelEvent(D, "+odown", c), c))
  <2>1. Sane(D) /\ Sane(U)
    BY <1>6, <1>7 DEF Quiet
  <2>2. Quiet(D, sentinelEvent(D, "+odown", c)) /\ sentinelEvent(D, "+odown", c).ri = D.ri
    BY <2>1, EventActs
  <2> QED
    BY <1>6, <1>9, <2>2, QuietTrans DEF Decided, M
<1>12. Quiet(S, sentinelEvent(U, "-odown", c)) /\ Decided(S, sentinelEvent(U, "-odown", c), c)
  <2>1. Sane(U)
    BY <1>7 DEF Quiet
  <2>2. Quiet(U, sentinelEvent(U, "-odown", c)) /\ sentinelEvent(U, "-odown", c).ri = U.ri
    BY <2>1, EventActs
  <2> QED
    BY <1>7, <1>10, <2>2, QuietTrans DEF Decided, M
<1>13. Quiet(S, S) /\ Decided(S, S, c)
  BY WorksRefl, WorksQuietly DEF Decided
<1>14. \/ Q = S
       \/ odown /\ Q = sentinelEvent(D, "+odown", c)
       \/ Q = sentinelEvent(U, "-odown", c)
  <2> HIDE DEF odown
  <2>1. Q = CASE odown /\ ~Has(m, "O_DOWN") -> sentinelEvent(D, "+odown", c)
              [] ~odown /\ Has(m, "O_DOWN") -> sentinelEvent(U, "-odown", c)
              [] OTHER -> S
    BY DEF sentinelCheckObjectivelyDown, m, D, U, d, u, odown
  <2> HIDE DEF Q
  <2> QED
    BY <2>1
<1> QED
  BY <1>11, <1>12, <1>13, <1>14

----------------------------------------------------------------------------
\* The steps of a failover.

\* What the master becomes when only its part in a failover changes.
MasterLike(m, q) ==
    /\ Key \subseteq DOMAIN q /\ q.type = m.type /\ q.addr = m.addr /\ q.runid = m.runid /\ q.cc = m.cc
    /\ q.out = m.out /\ q.pend = m.pend /\ q.md = m.md /\ q.prio = m.prio
    /\ \A f \in {"DISCONNECTED", "MASTER_DOWN", "O_DOWN"} : Has(q, f) <=> Has(m, f)

LEMMA MasterSet ==
  ASSUME NEW S, Sane(S), NEW m, MasterLike(M(S), m)
  PROVE  LET Q == Set(S, MasterId, m) IN
         /\ Acts(S, Q) /\ Sane(Q) /\ M(Q) = m
         /\ PromotedIn(Q.ri) = PromotedIn(S.ri) /\ BusyIn(Q.ri) = BusyIn(S.ri)
         /\ \A i \in DOMAIN S.ri : i # MasterId => Q.ri[i] = S.ri[i]
<1> DEFINE Q == Set(S, MasterId, m)
<1>1. MasterId \in DOMAIN S.ri /\ InstOk(MasterId, S.ri[MasterId]) /\ M(S) = S.ri[MasterId]
  BY DEF Sane, Insts, M
<1>2. InstOk(MasterId, m)
  BY <1>1, InstSame, InstFields DEF MasterLike
<1>3. Keeps(S.ri[MasterId], m) /\ Answers(S.ri[MasterId], m)
  BY <1>1 DEF MasterLike, Keeps, Answers
<1>4. /\ Acts(S, Q) /\ Sane(Q) /\ DOMAIN Q.ri = DOMAIN S.ri /\ Q.ri[MasterId] = m
      /\ \A j \in DOMAIN S.ri : j # MasterId => Q.ri[j] = S.ri[j]
  BY <1>1, <1>2, <1>3, QuietSet
<1> HIDE DEF Q
<1>5. S.ri[MasterId].type # "slave" /\ m.type # "slave"
  BY <1>1, <1>2 DEF InstOk, Kind
<1>6. \A i : i \in SlavesIn(S.ri) => i # MasterId
  BY <1>5 DEF SlavesIn
<1>7. SlavesIn(Q.ri) = SlavesIn(S.ri)
  <2>1. \A i \in DOMAIN S.ri : Q.ri[i].type = "slave" <=> S.ri[i].type = "slave"
    BY <1>1, <1>4, <1>5
  <2> QED
    BY <1>4, <2>1 DEF SlavesIn
<1>8. \A i \in SlavesIn(S.ri) : Q.ri[i] = S.ri[i]
  BY <1>4, <1>6 DEF SlavesIn
<1>9. PromotedIn(Q.ri) = PromotedIn(S.ri) /\ BusyIn(Q.ri) = BusyIn(S.ri)
  BY <1>7, <1>8 DEF PromotedIn, BusyIn
<1> QED
  BY <1>4, <1>9 DEF M, Q

LEMMA MasterKey ==
  ASSUME NEW S, Sane(S)
  PROVE  /\ MasterId \in DOMAIN S.ri /\ InstOk(MasterId, M(S)) /\ M(S).type = "master" /\ M(S).addr \in Addr
         /\ {"type", "addr", "flags", "runid", "cc", "out", "pend", "md", "prio", "fstate", "promoted"} \subseteq DOMAIN M(S)
<1>1. MasterId \in DOMAIN S.ri /\ InstOk(MasterId, M(S))
  BY DEF Sane, Insts, M
<1> QED
  BY <1>1, InstFields DEF InstOk, Kind

LEMMA ProgressIs ==
  ASSUME NEW S, Sane(S), NEW state
  PROVE  LET Q == Progress(S, state) IN
         /\ Acts(S, Q) /\ Sane(Q)
         /\ M(Q).fstate = state /\ M(Q).promoted = M(S).promoted /\ M(Q).flags = M(S).flags /\ M(Q).addr = M(S).addr
         /\ PromotedIn(Q.ri) = PromotedIn(S.ri) /\ BusyIn(Q.ri) = BusyIn(S.ri)
         /\ \A i \in DOMAIN S.ri : i # MasterId => Q.ri[i] = S.ri[i]
<1> DEFINE q == [M(S) EXCEPT !.fstate = state, !.fchange = 0]
<1>1. MasterLike(M(S), q) /\ q.fstate = state /\ q.promoted = M(S).promoted /\ q.flags = M(S).flags
      /\ q.addr = M(S).addr
  BY MasterKey DEF MasterLike, Key, Has
<1> HIDE DEF q
<1>2. Progress(S, state) = Set(S, MasterId, q)
  BY DEF Progress, q
<1> QED
  BY <1>1, <1>2, MasterSet

LEMMA LedIs ==
  ASSUME NEW S, Sane(S), NEW state, NEW start
  PROVE  LET Q == Led(S, state, start) IN
         /\ Acts(S, Q) /\ Sane(Q)
         /\ M(Q).fstate = state /\ M(Q).promoted = M(S).promoted /\ M(Q).addr = M(S).addr
         /\ M(Q).flags = M(S).flags \cup {"FAILOVER_IN_PROGRESS", "I_AM_THE_LEADER"}
         /\ PromotedIn(Q.ri) = PromotedIn(S.ri) /\ BusyIn(Q.ri) = BusyIn(S.ri)
<1> DEFINE q == [M(S) EXCEPT !.fstate = state, !.fchange = 0, !.fstart = start,
                             !.flags = @ \cup {"FAILOVER_IN_PROGRESS", "I_AM_THE_LEADER"}]
<1>1. /\ q.fstate = state /\ q.promoted = M(S).promoted /\ q.addr = M(S).addr
      /\ q.flags = M(S).flags \cup {"FAILOVER_IN_PROGRESS", "I_AM_THE_LEADER"}
      /\ Key \subseteq DOMAIN q /\ q.type = M(S).type /\ q.runid = M(S).runid /\ q.cc = M(S).cc
      /\ q.out = M(S).out /\ q.pend = M(S).pend /\ q.md = M(S).md /\ q.prio = M(S).prio
  BY MasterKey DEF Key
<1> HIDE DEF q
<1>2. MasterLike(M(S), q)
  BY <1>1 DEF MasterLike, Has
<1>3. Led(S, state, start) = Set(S, MasterId, q)
  BY DEF Led, q
<1> QED
  BY <1>1, <1>2, <1>3, MasterSet

\* Something done to each slave.
LEMMA SlavesSet ==
  ASSUME NEW S, Sane(S), NEW f, DOMAIN f = DOMAIN S.ri,
         \A i \in DOMAIN S.ri : S.ri[i].type # "slave" => f[i] = S.ri[i],
         \A i \in SlavesIn(S.ri) : InstOk(i, f[i]) /\ Keeps(S.ri[i], f[i]) /\ Answers(S.ri[i], f[i])
  PROVE  LET Q == [S EXCEPT !.ri = f] IN
         /\ Acts(S, Q) /\ Sane(Q) /\ M(Q) = M(S) /\ SlavesIn(Q.ri) = SlavesIn(S.ri) /\ Q.ri = f
<1> DEFINE Q == [S EXCEPT !.ri = f]
<1>1. Parts \subseteq DOMAIN S
  BY DEF Sane, Shape
<1>2. OnlyRi(S, Q) /\ Q.ri = f
  BY <1>1 DEF OnlyRi, Tilt, Parts
<1> HIDE DEF Q
<1>3. Shape(Q)
  BY <1>2, ShapeKept DEF Sane
<1>4. \A i \in DOMAIN S.ri : InstOk(i, f[i]) /\ Keeps(S.ri[i], f[i]) /\ Answers(S.ri[i], f[i])
  BY DEF Sane, Insts, SlavesIn, Keeps, Answers
<1>5. Insts(Q.ri)
  BY <1>2, <1>4 DEF Sane, Insts
<1>6. Acts(S, Q) /\ Sane(Q)
  BY <1>2, <1>3, <1>4, <1>5 DEF Acts, Sane, OnlyRi
<1>7. M(Q) = M(S)
  <2>1. S.ri[MasterId].type # "slave" /\ MasterId \in DOMAIN S.ri
    BY MasterKey DEF M
  <2> QED
    BY <1>2, <2>1 DEF M
<1>8. SlavesIn(Q.ri) = SlavesIn(S.ri)
  BY <1>2, <1>4 DEF SlavesIn, Keeps
<1> QED
  BY <1>2, <1>6, <1>7, <1>8 DEF Q

\* Something done to one slave.
LEMMA SlaveSet ==
  ASSUME NEW S, Sane(S), NEW i \in SlavesIn(S.ri), NEW q,
         InstOk(i, q), Keeps(S.ri[i], q), Answers(S.ri[i], q)
  PROVE  LET Q == Set(S, i, q) IN
         /\ Acts(S, Q) /\ Sane(Q) /\ M(Q) = M(S) /\ SlavesIn(Q.ri) = SlavesIn(S.ri)
         /\ i # MasterId /\ i \in DOMAIN Q.ri /\ Q.ri[i] = q
         /\ \A j \in DOMAIN S.ri : j # i => Q.ri[j] = S.ri[j]
         /\ PromotedIn(Q.ri) = IF Has(q, "PROMOTED") THEN PromotedIn(S.ri) \cup {i} ELSE PromotedIn(S.ri) \ {i}
         /\ BusyIn(Q.ri) \subseteq BusyIn(S.ri) \cup {i}
         /\ ~Has(q, "RECONF_SENT") /\ ~Has(q, "RECONF_INPROG") => BusyIn(Q.ri) = BusyIn(S.ri) \ {i}
<1> DEFINE Q == Set(S, i, q)
<1>1. i \in DOMAIN S.ri /\ S.ri[i].type = "slave"
  BY DEF SlavesIn
<1>2. /\ Acts(S, Q) /\ Sane(Q) /\ DOMAIN Q.ri = DOMAIN S.ri /\ Q.ri[i] = q
      /\ \A j \in DOMAIN S.ri : j # i => Q.ri[j] = S.ri[j]
  BY <1>1, QuietSet
<1> HIDE DEF Q
<1>3. i # MasterId /\ M(Q) = M(S)
  BY <1>1, <1>2, MasterKey DEF M
<1>4. SlavesIn(Q.ri) = SlavesIn(S.ri)
  BY <1>2 DEF Acts, Keeps, SlavesIn
<1>5. PromotedIn(Q.ri) = IF Has(q, "PROMOTED") THEN PromotedIn(S.ri) \cup {i} ELSE PromotedIn(S.ri) \ {i}
  BY <1>2, <1>4 DEF PromotedIn, SlavesIn
<1>6. BusyIn(Q.ri) \subseteq BusyIn(S.ri) \cup {i}
  BY <1>2, <1>4 DEF BusyIn, SlavesIn
<1>7. ~Has(q, "RECONF_SENT") /\ ~Has(q, "RECONF_INPROG") => BusyIn(Q.ri) = BusyIn(S.ri) \ {i}
  BY <1>2, <1>4 DEF BusyIn, SlavesIn
<1> QED
  BY <1>1, <1>2, <1>3, <1>4, <1>5, <1>6, <1>7 DEF Q

LEMMA SelectedIsSlave ==
  ASSUME NEW S, Sane(S), sentinelSelectSlave(S) # Nil
  PROVE  sentinelSelectSlave(S) \in SlavesIn(S.ri)
<1> DEFINE m == M(S)
           down == Has(m, "S_DOWN")
           known == IF down THEN T.validity ELSE T.validity + T.info
           good == {i \in Of(S, "slave") : LET r == S.ri[i] IN
                        /\ r.flags \cap {"S_DOWN", "O_DOWN", "DISCONNECTED", "DEMOTE"} = {}
                        /\ r.avail <= T.validity /\ r.info <= known
                        /\ r.prio # 0
                        /\ r.mdown <= (IF down THEN m.sdown ELSE 0) + T.many * T.down}
           Before(i, j) == \/ S.ri[i].prio < S.ri[j].prio
                           \/ S.ri[i].prio = S.ri[j].prio /\ Rank[i] <= Rank[j]
           prios == {S.ri[i].prio : i \in good}
           best == {i \in good : S.ri[i].prio = Min(prios)}
           ranks == {Rank[i] : i \in best}
<1>1. sentinelSelectSlave(S) = IF good = {} THEN Nil ELSE CHOOSE i \in good : \A j \in good : Before(i, j)
  BY DEF sentinelSelectSlave
<1>2. good \subseteq SlavesIn(S.ri)
  BY DEF Of, SlavesIn
<1> HIDE DEF good
<1>3. \A i \in good : S.ri[i].prio \in Nat /\ Rank[i] \in Nat
  <2>1. \A i \in SlavesIn(S.ri) : InstOk(i, S.ri[i]) /\ S.ri[i].type = "slave"
    BY DEF Sane, Insts, SlavesIn
  <2>2. \A i \in SlavesIn(S.ri) : i \in Addr /\ S.ri[i].prio \in Nat
    BY <2>1 DEF InstOk, Kind
  <2> QED
    BY <1>2, <2>2, SentinelAssumption
<1>4. good # {}
  BY <1>1
<1>5. prios \subseteq Nat /\ prios # {}
  BY <1>3, <1>4
<1> HIDE DEF prios
<1>6. Min(prios) \in prios /\ \A y \in prios : Min(prios) <= y
  BY <1>5, NatMin
<1>7. ranks \subseteq Nat /\ ranks # {}
  BY <1>3, <1>6 DEF prios
<1> HIDE DEF ranks
<1>8. Min(ranks) \in ranks /\ \A y \in ranks : Min(ranks) <= y
  BY <1>7, NatMin
<1>9. PICK i \in best : Rank[i] = Min(ranks)
  BY <1>8 DEF ranks
<1>10. ASSUME NEW j \in good PROVE Before(i, j)
  <2>1. Min(prios) <= S.ri[j].prio /\ S.ri[i].prio = Min(prios) /\ i \in good
    BY <1>6, <1>9 DEF prios
  <2>2. CASE S.ri[j].prio = Min(prios)
    BY <1>8, <1>9, <2>1, <2>2 DEF ranks
  <2>3. CASE S.ri[j].prio # Min(prios)
    BY <1>3, <1>10, <2>1, <2>3
  <2> QED
    BY <2>2, <2>3
<1>11. \E k \in good : \A j \in good : Before(k, j)
  BY <1>9, <1>10
<1> QED
  BY <1>1, <1>2, <1>4, <1>11

\* The failover is given up.
LEMMA AbortActs ==
  ASSUME NEW S, NEW ms, Fine(S, ms), NEW c
  PROVE  LET Q == sentinelAbortFailover(S, c) IN
         Acts(S, Q) /\ Fine(Q, ms) /\ M(Q).fstate = "NONE"
<1> DEFINE m == M(S)
           f == [i \in DOMAIN S.ri |-> IF S.ri[i].type = "slave" THEN Undone(m, S.ri[i]) ELSE S.ri[i]]
           R == [S EXCEPT !.ri = f]
           q == [m EXCEPT !.flags = @ \ {"FAILOVER_IN_PROGRESS", "I_AM_THE_LEADER", "FORCE_FAILOVER"},
                          !.fstate = "NONE", !.fchange = 0, !.promoted = Nil]
           F == Set(R, MasterId, q)
           p == [F.ri[m.promoted] EXCEPT !.flags = @ \ {"PROMOTED"}]
           P == Set(F, m.promoted, p)
           Q == sentinelAbortFailover(S, c)
<1>1. Sane(S) /\ Phase(m, PromotedIn(S.ri), BusyIn(S.ri)) /\ m.addr \in Addr
  BY MasterKey DEF Fine, FailoverOk, M
<1>2. Q = IF m.promoted = Nil THEN F ELSE sentinelCallClientReconfScript(P, "abort", c)
  BY DEF sentinelAbortFailover, Each
<1> HIDE DEF m
<1>3. ASSUME NEW i \in SlavesIn(S.ri)
      PROVE  LET u == Undone(m, S.ri[i]) IN
             /\ InstOk(i, u) /\ Keeps(S.ri[i], u) /\ Answers(S.ri[i], u)
             /\ Has(u, "PROMOTED") <=> Has(S.ri[i], "PROMOTED")
             /\ ~Has(u, "RECONF_SENT") /\ ~Has(u, "RECONF_INPROG")
  <2> DEFINE r == S.ri[i]
             b == SentBack(m, r)
             u == Undone(m, r)
  <2>1. InstOk(i, r) /\ r.type = "slave"
    BY <1>1 DEF Sane, Insts, SlavesIn
  <2> HIDE DEF r
  <2>2. InstOk(i, b) /\ Keeps(r, b) /\ Answers(r, b) /\ b.flags = r.flags
    <3>1. <<"SLAVEOF", m.addr>> \in Command /\ <<"SLAVEOF", m.addr>> # <<"INFO">>
      BY <1>1, CommandsAre
    <3>2. CASE Touched(m, r)
      <4>1. r.cc # Nil
        BY <2>1, <3>2, InstFields DEF Touched
      <4>2. SendUncounted(r, <<"SLAVEOF", m.addr>>).flags = r.flags
        BY <2>1, InstFields DEF SendUncounted
      <4> QED
        BY <2>1, <3>1, <3>2, <4>1, <4>2, InstTold DEF SentBack
    <3>3. CASE ~Touched(m, r)
      BY <2>1, <3>3 DEF SentBack, Keeps, Answers
    <3> QED
      BY <3>2, <3>3
  <2> HIDE DEF b
  <2>3. /\ Key \subseteq DOMAIN u /\ u.flags = b.flags \ Reconf /\ u.type = b.type /\ u.addr = b.addr
        /\ u.runid = b.runid /\ u.cc = b.cc /\ u.out = b.out /\ u.pend = b.pend /\ u.md = b.md /\ u.prio = b.prio
    BY <2>2 DEF Undone, InstOk, Key, b
  <2> HIDE DEF u
  <2>4. InstOk(i, u)
    BY <2>2, <2>3, InstSame, InstFields DEF Has, Reconf
  <2> QED
    BY <2>2, <2>3, <2>4 DEF Keeps, Answers, Has, Reconf, u, r
<1>4. /\ Acts(S, R) /\ Sane(R) /\ M(R) = m /\ SlavesIn(R.ri) = SlavesIn(S.ri) /\ R.ri = f
      /\ PromotedIn(R.ri) = PromotedIn(S.ri) /\ BusyIn(R.ri) = {}
  <2>1. /\ DOMAIN f = DOMAIN S.ri
        /\ \A i \in DOMAIN S.ri : S.ri[i].type # "slave" => f[i] = S.ri[i]
        /\ \A i \in SlavesIn(S.ri) : f[i] = Undone(m, S.ri[i])
    BY DEF SlavesIn
  <2> HIDE DEF f
  <2>2. \A i \in SlavesIn(S.ri) : InstOk(i, f[i]) /\ Keeps(S.ri[i], f[i]) /\ Answers(S.ri[i], f[i])
    BY <1>3, <2>1
  <2>3. Acts(S, R) /\ Sane(R) /\ M(R) = M(S) /\ SlavesIn(R.ri) = SlavesIn(S.ri) /\ R.ri = f
    BY <1>1, <2>1, <2>2, SlavesSet
  <2>4. PromotedIn(R.ri) = PromotedIn(S.ri) /\ BusyIn(R.ri) = {}
    BY <1>3, <2>1, <2>3 DEF PromotedIn, BusyIn
  <2> QED
    BY <2>3, <2>4 DEF m
<1> HIDE DEF R, f
<1>5. /\ MasterLike(M(R), q) /\ q.fstate = "NONE" /\ q.promoted = Nil /\ q.addr = m.addr
      /\ ~Has(q, "FAILOVER_IN_PROGRESS") /\ ~Has(q, "I_AM_THE_LEADER")
  <2>1. /\ q.fstate = "NONE" /\ q.promoted = Nil /\ q.addr = m.addr
        /\ q.flags = m.flags \ {"FAILOVER_IN_PROGRESS", "I_AM_THE_LEADER", "FORCE_FAILOVER"}
        /\ Key \subseteq DOMAIN q /\ q.type = m.type /\ q.runid = m.runid /\ q.cc = m.cc
        /\ q.out = m.out /\ q.pend = m.pend /\ q.md = m.md /\ q.prio = m.prio
    BY <1>1, MasterKey DEF Key, m
  <2> HIDE DEF q
  <2> QED
    BY <1>4, <2>1 DEF MasterLike, Has
<1> HIDE DEF q
<1>6. /\ Acts(R, F) /\ Sane(F) /\ M(F) = q /\ PromotedIn(F.ri) = PromotedIn(S.ri) /\ BusyIn(F.ri) = {}
      /\ SlavesIn(F.ri) = SlavesIn(S.ri)
  <2>1. Acts(R, F) /\ Sane(F) /\ M(F) = q /\ PromotedIn(F.ri) = PromotedIn(S.ri) /\ BusyIn(F.ri) = {}
    BY <1>4, <1>5, MasterSet
  <2>2. SlavesIn(F.ri) = SlavesIn(R.ri)
    BY <2>1 DEF SlavesIn, Acts, Keeps
  <2> QED
    BY <1>4, <2>1, <2>2
<1> HIDE DEF F
<1>7. Acts(S, F)
  BY <1>4, <1>6, ActsTrans
<1>8. "NONE" \in States /\ "NONE" \notin {"SEND_SLAVEOF_NOONE", "WAIT_PROMOTION"} \cup Promoted
  BY DEF States, Promoted
<1>9. ASSUME NEW G, Sane(G), M(G) = q, PromotedIn(G.ri) = {}, BusyIn(G.ri) = {}
      PROVE  FailoverOk(G.ri) /\ Named(G.ri, ms)
  <2>1. Phase(q, {}, {})
    BY <1>5, <1>8 DEF Phase
  <2>2. G.ri[MasterId] = q
    BY <1>9 DEF M
  <2>3. m.addr \in ms
    BY DEF Fine, Named, m, M
  <2> QED
    BY <1>5, <1>8, <1>9, <2>1, <2>2, <2>3 DEF FailoverOk, Named
<1>10. CASE m.promoted = Nil
  <2>1. PromotedIn(F.ri) = {}
    BY <1>1, <1>6, <1>10 DEF Phase
  <2>2. FailoverOk(F.ri) /\ Named(F.ri, ms)
    BY <1>6, <1>9, <2>1
  <2>3. Fine(F, ms)
    BY <1>7, <2>2, ActsFine
  <2> QED
    BY <1>2, <1>5, <1>6, <1>7, <1>10, <2>3
<1>11. CASE m.promoted # Nil
  <2>1. PromotedIn(F.ri) = {m.promoted} /\ m.promoted \in SlavesIn(F.ri)
    BY <1>1, <1>6, <1>11 DEF Phase, PromotedIn
  <2>2. InstOk(m.promoted, F.ri[m.promoted])
    BY <1>6, <2>1 DEF Sane, Insts, SlavesIn
  <2>3. /\ InstOk(m.promoted, p) /\ Keeps(F.ri[m.promoted], p) /\ Answers(F.ri[m.promoted], p)
        /\ ~Has(p, "PROMOTED") /\ (Has(p, "RECONF_SENT") <=> Has(F.ri[m.promoted], "RECONF_SENT"))
        /\ (Has(p, "RECONF_INPROG") <=> Has(F.ri[m.promoted], "RECONF_INPROG"))
    <3> DEFINE r == F.ri[m.promoted]
    <3>1. /\ Key \subseteq DOMAIN p /\ p.flags = r.flags \ {"PROMOTED"} /\ p.type = r.type /\ p.addr = r.addr
          /\ p.runid = r.runid /\ p.cc = r.cc /\ p.out = r.out /\ p.pend = r.pend /\ p.md = r.md /\ p.prio = r.prio
      BY <2>2 DEF InstOk, Key
    <3> HIDE DEF p, r
    <3>2. InstOk(m.promoted, r)
      BY <2>2 DEF r
    <3>3. InstOk(m.promoted, p)
      BY <3>1, <3>2, InstSame, InstFields DEF Has
    <3> QED
      BY <3>1, <3>3 DEF Keeps, Answers, Has, r
  <2> HIDE DEF p
  <2>4. Acts(F, P) /\ Sane(P) /\ M(P) = q /\ PromotedIn(P.ri) = {} /\ BusyIn(P.ri) = {}
    <3>1. ~Has(F.ri[m.promoted], "RECONF_SENT") /\ ~Has(F.ri[m.promoted], "RECONF_INPROG")
      BY <1>6, <2>1 DEF BusyIn
    <3> DEFINE k == m.promoted
    <3> HIDE DEF k
    <3>2. Sane(F) /\ k \in SlavesIn(F.ri) /\ InstOk(k, p) /\ Keeps(F.ri[k], p) /\ Answers(F.ri[k], p)
      BY <1>6, <2>1, <2>3 DEF k
    <3>3. P = Set(F, k, p)
      BY DEF k
    <3> HIDE DEF P
    <3>4. Acts(F, P) /\ Sane(P) /\ M(P) = M(F)
      BY ONLY <3>2, <3>3, SlaveSet
    <3>5. PromotedIn(P.ri) = IF Has(p, "PROMOTED") THEN PromotedIn(F.ri) \cup {k} ELSE PromotedIn(F.ri) \ {k}
      BY ONLY <3>2, <3>3, SlaveSet
    <3>6. ~Has(p, "RECONF_SENT") /\ ~Has(p, "RECONF_INPROG") => BusyIn(P.ri) = BusyIn(F.ri) \ {k}
      BY ONLY <3>2, <3>3, SlaveSet
    <3> QED
      BY <1>6, <2>1, <2>3, <3>1, <3>4, <3>5, <3>6 DEF k
  <2> HIDE DEF P
  <2>5. Q = sentinelCallClientReconfScript(P, "abort", c)
    BY <1>2, <1>11
  <2> HIDE DEF Q
  <2>6. Acts(P, Q) /\ Q.ri = P.ri /\ Sane(Q)
    BY <2>4, <2>5, EventActs
  <2>7. Acts(S, Q)
    BY <1>7, <2>4, <2>6, ActsTrans
  <2>8. FailoverOk(Q.ri) /\ Named(Q.ri, ms) /\ M(Q) = q
    BY <1>9, <2>4, <2>6 DEF M
  <2> QED
    BY <1>5, <2>7, <2>8, ActsFine DEF Q
<1> QED
  BY <1>10, <1>11

Steps(S, Q, ms) == Acts(S, Q) /\ Fine(Q, ms)

LEMMA StepBy ==
  ASSUME NEW S, NEW ms, Fine(S, ms), NEW Q, Acts(S, Q), Phase(M(Q), PromotedIn(Q.ri), BusyIn(Q.ri)),
         M(Q).fstate \in Promoted => M(Q).promoted \in ms
  PROVE  Steps(S, Q, ms)
<1>1. Q.ri[MasterId].addr = S.ri[MasterId].addr
  BY MasterKey DEF Acts, Keeps, Fine
<1>2. FailoverOk(Q.ri) /\ Named(Q.ri, ms)
  BY <1>1 DEF FailoverOk, Named, M, Fine
<1> QED
  BY <1>2, ActsFine DEF Steps

LEMMA StepsTrans ==
  ASSUME NEW S, NEW Q, NEW R, NEW ms, Steps(S, Q, ms), Steps(Q, R, ms)
  PROVE  Steps(S, R, ms)
BY ActsTrans DEF Steps

LEMMA StepsRefl ==
  ASSUME NEW S, NEW ms, Fine(S, ms)
  PROVE  Steps(S, S, ms)
BY WorksRefl, WorksQuietly DEF Steps, Fine

LEMMA StepsQuiet ==
  ASSUME NEW S, NEW ms, Fine(S, ms), NEW Q, Quiet(S, Q), Acts(S, Q)
  PROVE  Steps(S, Q, ms)
BY QuietFine DEF Steps

LEMMA StepsEvent ==
  ASSUME NEW S, NEW Q, NEW ms, Steps(S, Q, ms), NEW type, NEW c
  PROVE  /\ Steps(S, sentinelEvent(Q, type, c), ms) /\ sentinelEvent(Q, type, c).ri = Q.ri
         /\ Steps(S, sentinelCallClientReconfScript(Q, type, c), ms) /\ sentinelCallClientReconfScript(Q, type, c).ri = Q.ri
<1> DEFINE E == sentinelEvent(Q, type, c)
           F == sentinelCallClientReconfScript(Q, type, c)
<1>1. Fine(Q, ms) /\ Sane(Q)
  BY DEF Steps, Fine
<1>2. Acts(Q, E) /\ Quiet(Q, E) /\ E.ri = Q.ri /\ Acts(Q, F) /\ Quiet(Q, F) /\ F.ri = Q.ri
  BY <1>1, EventActs
<1> HIDE DEF E, F
<1>3. Steps(Q, E, ms) /\ Steps(Q, F, ms)
  BY <1>1, <1>2, StepsQuiet
<1>4. Steps(S, E, ms) /\ Steps(S, F, ms)
  BY <1>3, StepsTrans
<1> QED
  BY <1>2, <1>4 DEF E, F

LEMMA PhaseOf ==
  ASSUME NEW S, NEW ms, Fine(S, ms)
  PROVE  /\ Sane(S) /\ Phase(M(S), PromotedIn(S.ri), BusyIn(S.ri))
         /\ M(S).addr \in ms /\ (M(S).fstate \in Promoted => M(S).promoted \in ms)
         /\ M(S).promoted # Nil => M(S).promoted \in SlavesIn(S.ri) /\ M(S).promoted \in PromotedIn(S.ri)
<1>1. Sane(S) /\ Phase(M(S), PromotedIn(S.ri), BusyIn(S.ri))
  BY DEF Fine, FailoverOk, M
<1>2. M(S).promoted # Nil => M(S).promoted \in PromotedIn(S.ri)
  BY <1>1 DEF Phase
<1> QED
  BY <1>1, <1>2 DEF Fine, Named, M, PromotedIn

LEMMA AbortSteps ==
  ASSUME NEW S, NEW ms, Fine(S, ms), NEW c, NEW type
  PROVE  LET Q == sentinelAbortFailover(sentinelEvent(S, type, c), c) IN
         Steps(S, Q, ms) /\ M(Q).fstate = "NONE"
<1> DEFINE E == sentinelEvent(S, type, c)
<1>1. Steps(S, E, ms)
  BY StepsRefl, StepsEvent
<1> HIDE DEF E
<1>2. Steps(E, sentinelAbortFailover(E, c), ms) /\ M(sentinelAbortFailover(E, c)).fstate = "NONE"
  BY <1>1, AbortActs DEF Steps
<1>3. Steps(S, sentinelAbortFailover(E, c), ms)
  BY <1>1, <1>2, StepsTrans
<1> QED
  BY <1>2, <1>3 DEF E

LEMMA WaitStartSteps ==
  ASSUME NEW S, NEW ms, Fine(S, ms), M(S).fstate = "WAIT_START", NEW c
  PROVE  Steps(S, sentinelFailoverWaitStart(S, c), ms)
<1> DEFINE Q == Progress(S, "SELECT_SLAVE")
<1>1. Steps(S, Q, ms)
  <2>1. Sane(S) /\ Phase(M(S), PromotedIn(S.ri), BusyIn(S.ri))
    BY PhaseOf
  <2>2. /\ Acts(S, Q)
        /\ M(Q).fstate = "SELECT_SLAVE" /\ M(Q).promoted = M(S).promoted /\ M(Q).flags = M(S).flags
        /\ PromotedIn(Q.ri) = PromotedIn(S.ri) /\ BusyIn(Q.ri) = BusyIn(S.ri)
    BY <2>1, ProgressIs
  <2> HIDE DEF Q
  <2>3. Phase(M(Q), PromotedIn(Q.ri), BusyIn(Q.ri)) /\ M(Q).fstate \notin Promoted
    BY <2>1, <2>2 DEF Phase, Has, States, Promoted
  <2> QED
    BY <2>2, <2>3, StepBy
<1> HIDE DEF Q
<1>2. Steps(S, sentinelEvent(Q, "+failover-state-select-slave", c), ms)
  BY <1>1, StepsEvent
<1>3. Steps(S, sentinelAbortFailover(sentinelEvent(S, "-failover-abort-master-is-back", c), c), ms)
  BY AbortSteps
<1> QED
  BY <1>2, <1>3, StepsRefl DEF sentinelFailoverWaitStart, Q

\* A slave is made the promoted one, where none was.
LEMMA ElectedIs ==
  ASSUME NEW S, Sane(S), NEW p \in SlavesIn(S.ri), NEW state
  PROVE  LET Q == Elected(S, p, state) IN
         /\ Acts(S, Q) /\ Sane(Q)
         /\ M(Q).fstate = state /\ M(Q).promoted = p /\ M(Q).flags = M(S).flags /\ M(Q).addr = M(S).addr
         /\ PromotedIn(Q.ri) = PromotedIn(S.ri) \cup {p} /\ BusyIn(Q.ri) = BusyIn(S.ri)
         /\ p # MasterId /\ p \in DOMAIN Q.ri /\ p \in SlavesIn(Q.ri)
<1> DEFINE r == S.ri[p]
           q == [r EXCEPT !.flags = @ \cup {"PROMOTED"}]
           P == Set(S, p, q)
           m == [M(P) EXCEPT !.promoted = p]
           R == Set(P, MasterId, m)
           Q == Progress(R, state)
<1>1. InstOk(p, r)
  BY DEF Sane, Insts, SlavesIn
<1>2. /\ InstOk(p, q) /\ Keeps(r, q) /\ Answers(r, q) /\ Has(q, "PROMOTED")
      /\ Has(q, "RECONF_SENT") <=> Has(r, "RECONF_SENT")
      /\ Has(q, "RECONF_INPROG") <=> Has(r, "RECONF_INPROG")
  <2>1. /\ Key \subseteq DOMAIN q /\ q.flags = r.flags \cup {"PROMOTED"} /\ q.type = r.type /\ q.addr = r.addr
        /\ q.runid = r.runid /\ q.cc = r.cc /\ q.out = r.out /\ q.pend = r.pend /\ q.md = r.md /\ q.prio = r.prio
    BY <1>1 DEF InstOk, Key
  <2> HIDE DEF q, r
  <2>2. InstOk(p, q)
    BY <1>1, <2>1, InstSame, InstFields DEF Has
  <2> QED
    BY <2>1, <2>2 DEF Keeps, Answers, Has
<1> HIDE DEF q
<1>3. /\ Acts(S, P) /\ Sane(P) /\ M(P) = M(S) /\ SlavesIn(P.ri) = SlavesIn(S.ri) /\ p # MasterId
      /\ PromotedIn(P.ri) = PromotedIn(S.ri) \cup {p} /\ BusyIn(P.ri) = BusyIn(S.ri)
  <2>1. /\ Acts(S, P) /\ Sane(P) /\ M(P) = M(S) /\ SlavesIn(P.ri) = SlavesIn(S.ri)
        /\ p # MasterId /\ p \in DOMAIN P.ri /\ P.ri[p] = q
        /\ \A j \in DOMAIN S.ri : j # p => P.ri[j] = S.ri[j]
    BY <1>2, SlaveSet
  <2>2. PromotedIn(P.ri) = PromotedIn(S.ri) \cup {p}
    BY <1>2, SlaveSet
  <2> HIDE DEF P
  <2>3. BusyIn(P.ri) = BusyIn(S.ri)
    <3>1. \A j \in SlavesIn(S.ri) : (Has(P.ri[j], "RECONF_SENT") \/ Has(P.ri[j], "RECONF_INPROG"))
                                     <=> (Has(S.ri[j], "RECONF_SENT") \/ Has(S.ri[j], "RECONF_INPROG"))
      BY <1>2, <2>1 DEF SlavesIn
    <3> QED
      BY <2>1, <3>1 DEF BusyIn
  <2> QED
    BY <2>1, <2>2, <2>3
<1> HIDE DEF P
<1>4. MasterLike(M(P), m) /\ m.promoted = p /\ m.flags = M(S).flags /\ m.addr = M(S).addr
  BY <1>3, MasterKey DEF MasterLike, Key, Has
<1> HIDE DEF m
<1>5. /\ Acts(P, R) /\ Sane(R) /\ M(R) = m /\ PromotedIn(R.ri) = PromotedIn(P.ri) /\ BusyIn(R.ri) = BusyIn(P.ri)
  BY <1>3, <1>4, MasterSet
<1> HIDE DEF R
<1>6. /\ Acts(R, Q) /\ Sane(Q) /\ M(Q).fstate = state /\ M(Q).promoted = p /\ M(Q).flags = M(S).flags
      /\ M(Q).addr = M(S).addr
      /\ PromotedIn(Q.ri) = PromotedIn(R.ri) /\ BusyIn(Q.ri) = BusyIn(R.ri)
  BY <1>4, <1>5, ProgressIs
<1> HIDE DEF Q
<1>7. Acts(S, Q)
  BY <1>3, <1>5, <1>6, ActsTrans
<1>8. p \in DOMAIN Q.ri /\ p \in SlavesIn(Q.ri)
  BY <1>7 DEF Acts, Keeps, SlavesIn
<1>9. Q = Elected(S, p, state)
  BY DEF Elected, Q, R, m, P, q
<1> QED
  BY <1>3, <1>5, <1>6, <1>7, <1>8, <1>9

LEMMA SelectSlaveSteps ==
  ASSUME NEW S, NEW ms, Fine(S, ms), M(S).fstate = "SELECT_SLAVE", NEW c
  PROVE  Steps(S, sentinelFailoverSelectSlave(S, c), ms)
<1> DEFINE p == sentinelSelectSlave(S)
           state == "SEND_SLAVEOF_NOONE"
           Q == Elected(S, p, state)
<1>0. Sane(S) /\ Phase(M(S), PromotedIn(S.ri), BusyIn(S.ri))
  BY PhaseOf
<1>1. CASE p = Nil
  BY <1>1, AbortSteps DEF sentinelFailoverSelectSlave
<1>2. CASE p # Nil
  <2>1. p \in SlavesIn(S.ri)
    BY <1>0, <1>2, SelectedIsSlave
  <2> HIDE DEF p, state
  <2>2. /\ Acts(S, Q)
        /\ M(Q).fstate = state /\ M(Q).promoted = p /\ M(Q).flags = M(S).flags
        /\ PromotedIn(Q.ri) = PromotedIn(S.ri) \cup {p} /\ BusyIn(Q.ri) = BusyIn(S.ri)
    BY <1>0, <2>1, ElectedIs
  <2> HIDE DEF Q
  <2>3. Phase(M(Q), PromotedIn(Q.ri), BusyIn(Q.ri)) /\ M(Q).fstate \notin Promoted
    <3>1. PromotedIn(S.ri) = {} /\ BusyIn(S.ri) = {}
      BY <1>0 DEF Phase, Promoted
    <3> QED
      BY <1>0, <1>2, <2>2, <3>1 DEF Phase, Has, States, Promoted, state
  <2>4. Steps(S, Q, ms)
    BY <2>2, <2>3, StepBy
  <2>5. Steps(S, sentinelEvent(Q, "+selected-slave", c), ms)
    BY <2>4, StepsEvent
  <2> QED
    BY <1>2, <2>5 DEF sentinelFailoverSelectSlave, p, Q, state
<1> QED
  BY <1>1, <1>2

\* A role command that is counted.
LEMMA InstCounted ==
  ASSUME NEW i, NEW r, InstOk(i, r), r.type = "slave", r.cc # Nil, NEW c \in Command
  PROVE  InstOk(i, Send(r, c)) /\ Keeps(r, Send(r, c)) /\ Marked(r, Send(r, c)) /\ Answers(r, Send(r, c))
<1> DEFINE q == Send(r, c)
<1>1. Append(r.out, c) \in Seq(Command)
  BY RangeAppend DEF InstOk, LinkOk
<1>2. /\ Key \subseteq DOMAIN q /\ q.type = r.type /\ q.addr = r.addr /\ q.flags = r.flags /\ q.runid = r.runid
      /\ q.cc = r.cc /\ q.out = Append(r.out, c) /\ q.pend = r.pend + 1 /\ q.md = r.md /\ q.prio = r.prio
      /\ q.fstate = r.fstate /\ q.promoted = r.promoted
  BY DEF InstOk, Key, Send, Counted
<1> HIDE DEF q
<1>3. LinkOk(q)
  BY <1>1, <1>2 DEF InstOk, LinkOk
<1>4. PendOk(q)
  BY <1>2, Constants DEF InstOk, PendOk
<1> QED
  BY <1>2, <1>3, <1>4 DEF InstOk, Keeps, Marked, Answers, Has, q

LEMMA SlaveSteps ==
  ASSUME NEW S, NEW ms, Fine(S, ms), NEW i \in SlavesIn(S.ri), NEW q,
         InstOk(i, q), Keeps(S.ri[i], q), Marked(S.ri[i], q), Answers(S.ri[i], q)
  PROVE  Steps(S, Set(S, i, q), ms) /\ M(Set(S, i, q)) = M(S)
<1>1. i \in DOMAIN S.ri /\ Sane(S)
  BY DEF SlavesIn, Fine
<1>2. Quiet(S, Set(S, i, q)) /\ Acts(S, Set(S, i, q))
  BY <1>1, QuietSet
<1>3. M(Set(S, i, q)) = M(S)
  BY <1>1, SlaveSet
<1> QED
  BY <1>2, <1>3, StepsQuiet

LEMMA SendSlaveOfNoOneSteps ==
  ASSUME NEW S, NEW ms, Fine(S, ms), M(S).fstate = "SEND_SLAVEOF_NOONE"
  PROVE  Steps(S, sentinelFailoverSendSlaveOfNoOne(S), ms)
<1> DEFINE p == M(S).promoted
           q == Send(S.ri[p], <<"NOONE">>)
           R == Set(S, p, q)
           Q == Progress(R, "WAIT_PROMOTION")
<1>1. Sane(S) /\ Phase(M(S), PromotedIn(S.ri), BusyIn(S.ri)) /\ p # Nil /\ p \in SlavesIn(S.ri)
  BY PhaseOf DEF Phase
<1>2. CASE Has(S.ri[p], "DISCONNECTED")
  BY <1>2, StepsRefl DEF sentinelFailoverSendSlaveOfNoOne
<1>3. CASE ~Has(S.ri[p], "DISCONNECTED")
  <2> HIDE DEF p
  <2>1. InstOk(p, S.ri[p]) /\ S.ri[p].type = "slave"
    BY <1>1 DEF Sane, Insts, SlavesIn
  <2>2. S.ri[p].cc # Nil /\ <<"NOONE">> \in Command
    BY <1>3, <2>1, InstFields, CommandsAre DEF Plain
  <2>3. InstOk(p, q) /\ Keeps(S.ri[p], q) /\ Marked(S.ri[p], q) /\ Answers(S.ri[p], q)
    BY <2>1, <2>2, InstCounted
  <2> HIDE DEF q
  <2>4. Steps(S, R, ms) /\ M(R) = M(S)
    BY <1>1, <2>3, SlaveSteps
  <2> HIDE DEF R
  <2>5. Fine(R, ms) /\ Sane(R) /\ Phase(M(R), PromotedIn(R.ri), BusyIn(R.ri))
    BY <2>4, PhaseOf DEF Steps
  <2>6. /\ Acts(R, Q)
        /\ M(Q).fstate = "WAIT_PROMOTION" /\ M(Q).promoted = M(R).promoted /\ M(Q).flags = M(R).flags
        /\ PromotedIn(Q.ri) = PromotedIn(R.ri) /\ BusyIn(Q.ri) = BusyIn(R.ri)
    BY <2>5, ProgressIs
  <2> HIDE DEF Q
  <2>7. Phase(M(Q), PromotedIn(Q.ri), BusyIn(Q.ri)) /\ M(Q).fstate \notin Promoted
    BY <2>4, <2>5, <2>6 DEF Phase, Has, States, Promoted
  <2>8. Steps(R, Q, ms)
    BY <2>5, <2>6, <2>7, StepBy
  <2>9. Steps(S, Q, ms)
    BY <2>4, <2>8, StepsTrans
  <2> QED
    BY <1>3, <2>9 DEF sentinelFailoverSendSlaveOfNoOne, Q, R, q, p
<1> QED
  BY <1>2, <1>3

LEMMA WaitPromotionSteps ==
  ASSUME NEW S, NEW ms, Fine(S, ms), M(S).fstate = "WAIT_PROMOTION", NEW c
  PROVE  Steps(S, sentinelFailoverWaitPromotion(S, c), ms)
<1> DEFINE p == M(S).promoted
           r == S.ri[p]
           q == [r EXCEPT !.flags = @ \ {"PROMOTED"}]
           P == Set(S, p, q)
           m == [M(P) EXCEPT !.promoted = Nil]
           R == Set(P, MasterId, m)
           Q == Progress(R, "SELECT_SLAVE")
<1>1. Sane(S) /\ Phase(M(S), PromotedIn(S.ri), BusyIn(S.ri)) /\ p # Nil /\ p \in SlavesIn(S.ri)
  BY PhaseOf DEF Phase
<1>2. PromotedIn(S.ri) = {p} /\ BusyIn(S.ri) = {}
  BY <1>1 DEF Phase, Promoted
<1> HIDE DEF p
<1>3. InstOk(p, r)
  BY <1>1 DEF Sane, Insts, SlavesIn
<1>4. ~Has(r, "RECONF_SENT") /\ ~Has(r, "RECONF_INPROG")
  BY <1>1, <1>2 DEF BusyIn
<1> HIDE DEF r
<1>5. /\ InstOk(p, q) /\ Keeps(r, q) /\ Answers(r, q) /\ ~Has(q, "PROMOTED")
      /\ ~Has(q, "RECONF_SENT") /\ ~Has(q, "RECONF_INPROG")
  <2>1. /\ Key \subseteq DOMAIN q /\ q.flags = r.flags \ {"PROMOTED"} /\ q.type = r.type /\ q.addr = r.addr
        /\ q.runid = r.runid /\ q.cc = r.cc /\ q.out = r.out /\ q.pend = r.pend /\ q.md = r.md /\ q.prio = r.prio
    BY <1>3 DEF InstOk, Key
  <2> HIDE DEF q
  <2>2. InstOk(p, q)
    BY <1>3, <2>1, InstSame, InstFields DEF Has
  <2> QED
    BY <1>4, <2>1, <2>2 DEF Keeps, Answers, Has
<1> HIDE DEF q
<1>6. Acts(S, P) /\ Sane(P) /\ M(P) = M(S)
  BY <1>1, <1>5, SlaveSet DEF r
<1>7. PromotedIn(P.ri) = {} /\ BusyIn(P.ri) = {}
  <2>1. PromotedIn(P.ri) = IF Has(q, "PROMOTED") THEN PromotedIn(S.ri) \cup {p} ELSE PromotedIn(S.ri) \ {p}
    BY <1>1, <1>5, SlaveSet DEF r
  <2>2. ~Has(q, "RECONF_SENT") /\ ~Has(q, "RECONF_INPROG") => BusyIn(P.ri) = BusyIn(S.ri) \ {p}
    BY <1>1, <1>5, SlaveSet DEF r
  <2> QED
    BY <1>2, <1>5, <2>1, <2>2
<1> HIDE DEF P
<1>8. MasterLike(M(P), m) /\ m.promoted = Nil /\ m.flags = M(S).flags
  BY <1>6, MasterKey DEF MasterLike, Key, Has
<1> HIDE DEF m
<1>9. Acts(P, R) /\ Sane(R) /\ M(R) = m /\ PromotedIn(R.ri) = {} /\ BusyIn(R.ri) = {}
  BY <1>6, <1>7, <1>8, MasterSet
<1> HIDE DEF R
<1>10. /\ Acts(R, Q)
       /\ M(Q).fstate = "SELECT_SLAVE" /\ M(Q).promoted = M(R).promoted /\ M(Q).flags = M(R).flags
       /\ PromotedIn(Q.ri) = PromotedIn(R.ri) /\ BusyIn(Q.ri) = BusyIn(R.ri)
  BY <1>9, ProgressIs
<1> HIDE DEF Q
<1>11. Phase(M(Q), PromotedIn(Q.ri), BusyIn(Q.ri)) /\ M(Q).fstate \notin Promoted
  BY <1>1, <1>8, <1>9, <1>10 DEF Phase, Has, States, Promoted
<1>12. Acts(S, Q)
  BY <1>6, <1>9, <1>10, ActsTrans
<1>13. Steps(S, Q, ms)
  BY <1>11, <1>12, StepBy
<1>14. Steps(S, sentinelEvent(Q, "-promotion-timeout", c), ms)
  BY <1>13, StepsEvent
<1>15. Steps(S, sentinelEvent(sentinelEvent(Q, "-promotion-timeout", c), "+failover-state-select-slave", c), ms)
  BY <1>14, StepsEvent
<1>16. \/ sentinelFailoverWaitPromotion(S, c) = S
       \/ sentinelFailoverWaitPromotion(S, c) =
            sentinelEvent(sentinelEvent(Q, "-promotion-timeout", c), "+failover-state-select-slave", c)
  BY DEF sentinelFailoverWaitPromotion, Q, R, m, P, q, r, p
<1> QED
  BY <1>15, <1>16, StepsRefl

\* A slave is told to follow a server.
LEMMA InstFollows ==
  ASSUME NEW i, NEW r, InstOk(i, r), r.type = "slave", ~Has(r, "DISCONNECTED"), NEW a \in Addr
  PROVE  LET q == Told(r, a) IN
         /\ InstOk(i, q) /\ Keeps(r, q) /\ Answers(r, q)
         /\ q.flags = r.flags \cup {"RECONF_SENT"} /\ q.pend = r.pend
<1> DEFINE b == SendUncounted(r, <<"SLAVEOF", a>>)
           q == Told(r, a)
<1>1. r.cc # Nil /\ <<"SLAVEOF", a>> \in Command
  BY InstFields, CommandsAre
<1>2. InstOk(i, b) /\ Keeps(r, b) /\ Answers(r, b)
  BY <1>1, InstTold
<1>3. b.flags = r.flags /\ b.pend = r.pend
  BY InstFields DEF SendUncounted
<1> HIDE DEF b
<1>4. /\ Key \subseteq DOMAIN q /\ q.flags = b.flags \cup {"RECONF_SENT"} /\ q.type = b.type /\ q.addr = b.addr
      /\ q.runid = b.runid /\ q.cc = b.cc /\ q.out = b.out /\ q.pend = b.pend /\ q.md = b.md /\ q.prio = b.prio
  BY <1>2 DEF Told, InstOk, Key, b
<1> HIDE DEF q
<1>5. InstOk(i, q)
  BY <1>2, <1>4, InstSame, InstFields DEF Has
<1> QED
  BY <1>2, <1>3, <1>4, <1>5 DEF Keeps, Answers, Has, q

\* A failover that has a promoted server ends.
LEMMA EndedSteps ==
  ASSUME NEW S, NEW ms, Fine(S, ms), M(S).fstate \in Promoted, NEW timeout, NEW c
  PROVE  LET Q == FailoverEnded(S, timeout, c) IN
         Steps(S, Q, ms) /\ M(Q).fstate = "UPDATE_CONFIG" /\ M(Q).promoted = M(S).promoted
<1> DEFINE E == IF timeout THEN sentinelEvent(S, "+failover-end-for-timeout", c) ELSE S
           F == sentinelEvent(E, "+failover-end", c)
           P == Progress(F, "UPDATE_CONFIG")
           Q == sentinelCallClientReconfScript(P, "end", c)
<1>1. Steps(S, E, ms) /\ E.ri = S.ri
  BY StepsRefl, StepsEvent
<1> HIDE DEF E
<1>2. Steps(S, F, ms) /\ F.ri = S.ri
  BY <1>1, StepsEvent
<1> HIDE DEF F
<1>3. Fine(F, ms) /\ M(F) = M(S) /\ Sane(F) /\ Phase(M(F), PromotedIn(F.ri), BusyIn(F.ri)) /\ M(F).promoted \in ms
  BY <1>2, PhaseOf DEF Steps, M
<1>4. /\ Acts(F, P) /\ Sane(P)
      /\ M(P).fstate = "UPDATE_CONFIG" /\ M(P).promoted = M(F).promoted /\ M(P).flags = M(F).flags
      /\ PromotedIn(P.ri) = PromotedIn(F.ri) /\ BusyIn(P.ri) = BusyIn(F.ri)
  BY <1>3, ProgressIs
<1> HIDE DEF P
<1>5. Phase(M(P), PromotedIn(P.ri), BusyIn(P.ri))
  BY <1>3, <1>4 DEF Phase, Has, States, Promoted
<1>6. Steps(F, P, ms)
  BY <1>3, <1>4, <1>5, StepBy
<1>7. Steps(S, P, ms)
  BY <1>2, <1>6, StepsTrans
<1> HIDE DEF Q
<1>8. Steps(S, Q, ms) /\ Q.ri = P.ri
  BY <1>7, StepsEvent DEF Q
<1>9. FailoverEnded(S, timeout, c) = Q
  BY DEF FailoverEnded, Q, P, F, E
<1> QED
  BY <1>3, <1>4, <1>8, <1>9 DEF M

LEMMA DetectEndSteps ==
  ASSUME NEW S, NEW ms, Fine(S, ms), M(S).fstate \in Promoted, NEW c
  PROVE  Steps(S, sentinelFailoverDetectEnd(S, c), ms)
<1> DEFINE m == M(S)
           timeout == m.fchange > T.failover
           E == FailoverEnded(S, timeout, c)
           Tell(r) == IF r.flags \cap {"RECONF_DONE", "RECONF_SENT", "DISCONNECTED"} = {} THEN Told(r, m.promoted) ELSE r
           f == [i \in DOMAIN E.ri |-> IF E.ri[i].type = "slave" THEN Tell(E.ri[i]) ELSE E.ri[i]]
           Q == [E EXCEPT !.ri = f]
<1>1. Sane(S) /\ Phase(M(S), PromotedIn(S.ri), BusyIn(S.ri)) /\ m.promoted # Nil /\ m.promoted \in SlavesIn(S.ri)
  BY PhaseOf DEF Phase
<1>2. m.promoted \in Addr
  BY <1>1, Constants DEF Sane, Insts, SlavesIn, InstOk, Kind
<1>3. \/ sentinelFailoverDetectEnd(S, c) = S
      \/ sentinelFailoverDetectEnd(S, c) = E
      \/ sentinelFailoverDetectEnd(S, c) = Q
  BY DEF sentinelFailoverDetectEnd, Each
<1> HIDE DEF m, timeout
<1>4. Steps(S, E, ms) /\ M(E).fstate = "UPDATE_CONFIG" /\ M(E).promoted = m.promoted
  BY EndedSteps DEF m
<1> HIDE DEF E
<1>5. Fine(E, ms) /\ Sane(E) /\ Phase(M(E), PromotedIn(E.ri), BusyIn(E.ri)) /\ M(E).promoted \in ms
  BY <1>4, PhaseOf DEF Steps, Promoted
<1>6. ASSUME NEW i \in SlavesIn(E.ri)
      PROVE  /\ InstOk(i, Tell(E.ri[i])) /\ Keeps(E.ri[i], Tell(E.ri[i])) /\ Answers(E.ri[i], Tell(E.ri[i]))
             /\ Has(Tell(E.ri[i]), "PROMOTED") <=> Has(E.ri[i], "PROMOTED")
  <2> DEFINE r == E.ri[i]
  <2>1. InstOk(i, r) /\ r.type = "slave"
    BY <1>5 DEF Sane, Insts, SlavesIn
  <2> HIDE DEF r
  <2>2. CASE Tell(r) = r
    BY <2>1, <2>2 DEF Keeps, Answers, r
  <2>3. CASE Tell(r) = Told(r, m.promoted) /\ ~Has(r, "DISCONNECTED")
    <3> DEFINE q == Told(r, m.promoted)
    <3>1. InstOk(i, q) /\ Keeps(r, q) /\ Answers(r, q) /\ q.flags = r.flags \cup {"RECONF_SENT"}
      BY <1>2, <2>1, <2>3, InstFollows
    <3> HIDE DEF q
    <3>2. Tell(r) = q
      BY <2>3 DEF q
    <3> HIDE DEF Tell
    <3> QED
      BY <3>1, <3>2 DEF Has, r
  <2>4. Tell(r) = r \/ (Tell(r) = Told(r, m.promoted) /\ ~Has(r, "DISCONNECTED"))
    BY DEF Has
  <2> QED
    BY <2>2, <2>3, <2>4
<1> HIDE DEF Tell
<1>7. /\ DOMAIN f = DOMAIN E.ri
      /\ \A i \in DOMAIN E.ri : E.ri[i].type # "slave" => f[i] = E.ri[i]
      /\ \A i \in SlavesIn(E.ri) : f[i] = Tell(E.ri[i])
  BY DEF SlavesIn
<1> HIDE DEF f
<1>8. \A i \in SlavesIn(E.ri) : InstOk(i, f[i]) /\ Keeps(E.ri[i], f[i]) /\ Answers(E.ri[i], f[i])
  BY <1>6, <1>7
<1>9. Acts(E, Q) /\ M(Q) = M(E) /\ SlavesIn(Q.ri) = SlavesIn(E.ri) /\ Q.ri = f
  BY <1>5, <1>7, <1>8, SlavesSet
<1> HIDE DEF Q
<1>10. PromotedIn(Q.ri) = PromotedIn(E.ri)
  BY <1>6, <1>7, <1>9 DEF PromotedIn
<1>11. Phase(M(Q), PromotedIn(Q.ri), BusyIn(Q.ri))
  BY <1>4, <1>5, <1>9, <1>10 DEF Phase, Promoted
<1>12. Steps(E, Q, ms)
  BY <1>5, <1>9, <1>11, StepBy
<1>13. Steps(S, Q, ms)
  BY <1>4, <1>12, StepsTrans
<1> QED
  BY <1>3, <1>4, <1>13, StepsRefl

\* A list of a finite set.
LEMMA ListOfSet ==
  ASSUME NEW X, IsFiniteSet(X)
  PROVE  /\ SetToSeq(X) \in Seq(X) /\ Len(SetToSeq(X)) \in Nat
         /\ \A n \in 1..Len(SetToSeq(X)) : SetToSeq(X)[n] \in X
<1>1. PICK n \in Nat : ExistsBijection(1..n, X)
  BY FS_NatBijection
<1>2. Cardinality(X) = n
  BY <1>1, FS_CountingElements
<1>3. \E f \in [1..Cardinality(X) -> X] : IsInjective(f)
  BY <1>1, <1>2 DEF ExistsBijection, Bijection, Injection
<1>4. SetToSeq(X) \in [1..n -> X]
  BY <1>2, <1>3 DEF SetToSeq
<1>5. Len(SetToSeq(X)) = n
  BY <1>4
<1> QED
  BY <1>4, <1>5

\* While a promoted server has to be followed, a slave is told so or retried.
LEMMA FollowSteps ==
  ASSUME NEW S, NEW ms, Fine(S, ms), M(S).fstate \in Promoted, NEW i \in SlavesIn(S.ri), NEW q,
         InstOk(i, q), Keeps(S.ri[i], q), Answers(S.ri[i], q), Has(q, "PROMOTED") <=> Has(S.ri[i], "PROMOTED")
  PROVE  Steps(S, Set(S, i, q), ms) /\ M(Set(S, i, q)) = M(S)
<1> DEFINE Q == Set(S, i, q)
<1>1. Sane(S) /\ Phase(M(S), PromotedIn(S.ri), BusyIn(S.ri)) /\ M(S).promoted \in ms
  BY PhaseOf
<1>2. Acts(S, Q) /\ M(Q) = M(S)
  BY <1>1, SlaveSet
<1>3. PromotedIn(Q.ri) = IF Has(q, "PROMOTED") THEN PromotedIn(S.ri) \cup {i} ELSE PromotedIn(S.ri) \ {i}
  BY <1>1, SlaveSet
<1> HIDE DEF Q
<1>4. PromotedIn(Q.ri) = PromotedIn(S.ri)
  BY <1>3 DEF PromotedIn
<1>5. Phase(M(Q), PromotedIn(Q.ri), BusyIn(Q.ri))
  BY <1>1, <1>2, <1>4 DEF Phase
<1> QED
  BY <1>1, <1>2, <1>5, StepBy DEF Q

LEMMA ReconfiguringIs ==
  ASSUME NEW i, NEW r, InstOk(i, r), r.type = "slave", NEW a \in Addr
  PROVE  LET q == Reconfiguring(r, a) IN
         InstOk(i, q) /\ Keeps(r, q) /\ Answers(r, q) /\ (Has(q, "PROMOTED") <=> Has(r, "PROMOTED"))
<1> DEFINE b == Retried(r)
           t == Told(b, a)
           q == [t EXCEPT !.pend = Counted(r), !.sent = 0]
<1>1. /\ InstOk(i, b) /\ Keeps(r, b) /\ Answers(r, b) /\ (Has(b, "PROMOTED") <=> Has(r, "PROMOTED"))
      /\ b.pend = r.pend
  <2>1. /\ Key \subseteq DOMAIN b /\ (b.flags = r.flags \/ b.flags = r.flags \ {"RECONF_SENT"})
        /\ b.type = r.type /\ b.addr = r.addr
        /\ b.runid = r.runid /\ b.cc = r.cc /\ b.out = r.out /\ b.pend = r.pend /\ b.md = r.md /\ b.prio = r.prio
    BY DEF Retried, InstOk, Key
  <2> HIDE DEF b
  <2>2. InstOk(i, b)
    BY <2>1, InstSame, InstFields DEF Has
  <2> QED
    BY <2>1, <2>2 DEF Keeps, Answers, Has
<1>2. CASE ~Ready(r)
  BY <1>1, <1>2 DEF Reconfiguring
<1>3. CASE Ready(r)
  <2>1. ~Has(b, "DISCONNECTED") /\ b.type = "slave"
    BY <1>1, <1>3 DEF Ready, Has, Keeps
  <2>2. Reconfiguring(r, a) = q
    BY <1>3 DEF Reconfiguring
  <2> HIDE DEF b
  <2>3. InstOk(i, t) /\ Keeps(b, t) /\ Answers(b, t) /\ t.flags = b.flags \cup {"RECONF_SENT"} /\ t.pend = b.pend
    BY <1>1, <2>1, InstFollows
  <2> HIDE DEF t
  <2>4. /\ Key \subseteq DOMAIN q /\ q.flags = t.flags /\ q.type = t.type /\ q.addr = t.addr
        /\ q.runid = t.runid /\ q.cc = t.cc /\ q.out = t.out /\ q.pend = t.pend + 1 /\ q.md = t.md /\ q.prio = t.prio
    BY <1>1, <2>3 DEF InstOk, Key, Counted
  <2> HIDE DEF q
  <2>5. InstOk(i, q)
    <3>1. LinkOk(q)
      BY <2>1, <2>3, <2>4 DEF InstOk, LinkOk, Keeps, Has
    <3>2. PendOk(q)
      BY <2>1, <2>3, <2>4, Constants DEF InstOk, PendOk, Keeps
    <3> QED
      BY <2>1, <2>3, <2>4, <3>1, <3>2 DEF InstOk, Keeps
  <2> QED
    BY <1>1, <2>2, <2>3, <2>4, <2>5 DEF Keeps, Answers, Has
<1> QED
  BY <1>2, <1>3

LEMMA ReconfNextSlaveSteps ==
  ASSUME NEW S, NEW ms, Fine(S, ms), M(S).fstate \in Promoted, NEW c
  PROVE  Steps(S, sentinelFailoverReconfNextSlave(S, c), ms)
<1> DEFINE busy == {i \in Of(S, "slave") : Has(S.ri[i], "RECONF_SENT") \/ Has(S.ri[i], "RECONF_INPROG")}
           slaves == SetToSeq(Of(S, "slave"))
           zero == [S |-> S, n |-> Cardinality(busy)]
           step(A, n) ==
             LET r == A.S.ri[slaves[n]]
             IN  IF A.n >= c.parallel \/ Has(r, "PROMOTED") \/ Has(r, "RECONF_DONE") THEN A
                 ELSE [S |-> Set(A.S, slaves[n], Reconfiguring(r, M(S).promoted)),
                       n |-> IF Ready(r) THEN A.n + 1 ELSE A.n]
           run[n \in 0..Len(slaves)] == IF n = 0 THEN zero ELSE step(run[n - 1], n)
           N == Len(slaves)
<1>1. sentinelFailoverReconfNextSlave(S, c) = sentinelFailoverDetectEnd(run[N].S, c)
  BY DEF sentinelFailoverReconfNextSlave
<1>2. /\ Sane(S) /\ Phase(M(S), PromotedIn(S.ri), BusyIn(S.ri))
      /\ M(S).promoted # Nil /\ M(S).promoted \in SlavesIn(S.ri)
  BY PhaseOf DEF Phase
<1>3. M(S).promoted \in Addr
  BY <1>2, Constants DEF Sane, Insts, SlavesIn, InstOk, Kind
<1>4. N \in Nat /\ \A n \in 1..N : slaves[n] \in SlavesIn(S.ri)
  <2>1. Of(S, "slave") = SlavesIn(S.ri)
    BY DEF Of, SlavesIn
  <2>2. IsFiniteSet(Of(S, "slave"))
    BY <1>2, FS_Subset DEF Of, Sane, Insts
  <2> QED
    BY <2>1, <2>2, ListOfSet
<1>5. ASSUME NEW A, NEW n \in 1..N, Steps(S, A.S, ms), M(A.S) = M(S)
      PROVE  Steps(S, step(A, n).S, ms) /\ M(step(A, n).S) = M(S)
  <2> DEFINE i == slaves[n]
             r == A.S.ri[i]
             q == Reconfiguring(r, M(S).promoted)
  <2>1. i \in SlavesIn(S.ri)
    BY <1>4
  <2> HIDE DEF i
  <2>2. Fine(A.S, ms) /\ Sane(A.S) /\ i \in SlavesIn(A.S.ri)
    BY <1>5, <2>1 DEF Steps, Fine, Acts, Keeps, SlavesIn
  <2>3. InstOk(i, r) /\ r.type = "slave"
    BY <2>2 DEF Sane, Insts, SlavesIn
  <2>4. InstOk(i, q) /\ Keeps(r, q) /\ Answers(r, q) /\ (Has(q, "PROMOTED") <=> Has(r, "PROMOTED"))
    BY <1>3, <2>3, ReconfiguringIs
  <2> HIDE DEF q
  <2>5. Steps(A.S, Set(A.S, i, q), ms) /\ M(Set(A.S, i, q)) = M(A.S)
    BY <1>5, <2>2, <2>4, FollowSteps
  <2>6. step(A, n).S = A.S \/ step(A, n).S = Set(A.S, i, q)
    BY DEF q, i
  <2> HIDE DEF step
  <2> QED
    BY <1>5, <2>5, <2>6, StepsTrans
<1> HIDE DEF step, zero
<1>6. run = [n \in 0..N |-> IF n = 0 THEN zero ELSE step(run[n - 1], n)]
  <2> HIDE DEF N
  <2> DEFINE P == {m \in Nat : \E f : f = [n \in 0..m |-> IF n = 0 THEN zero ELSE step(f[n - 1], n)]}
  <2>1. 0 \in P
    <3> DEFINE f == [n \in 0..0 |-> zero]
    <3>1. f = [n \in 0..0 |-> IF n = 0 THEN zero ELSE step(f[n - 1], n)]
      OBVIOUS
    <3> HIDE DEF f
    <3> QED
      BY <3>1
  <2>2. ASSUME NEW m \in Nat, m \in P PROVE m + 1 \in P
    <3>1. PICK f : f = [n \in 0..m |-> IF n = 0 THEN zero ELSE step(f[n - 1], n)]
      BY <2>2
    <3> DEFINE g == [n \in 0..m + 1 |-> IF n = m + 1 THEN step(f[m], n) ELSE f[n]]
    <3>2. \A n \in 0..m + 1 : g[n] = IF n = 0 THEN zero ELSE step(g[n - 1], n)
      <4> SUFFICES ASSUME NEW n \in 0..m + 1 PROVE g[n] = IF n = 0 THEN zero ELSE step(g[n - 1], n)
        OBVIOUS
      <4>1. CASE n = m + 1
        BY <4>1
      <4>2. CASE n # m + 1
        BY <3>1, <4>2
      <4> QED
        BY <4>1, <4>2
    <3>3. g = [n \in 0..m + 1 |-> IF n = 0 THEN zero ELSE step(g[n - 1], n)]
      BY <3>2
    <3> HIDE DEF g
    <3> QED
      BY <3>3
  <2>3. N \in P
    BY <1>4, <2>1, <2>2, NatSetInduction
  <2> QED
    BY <2>3 DEF N
<1> HIDE DEF run
<1>7. Steps(S, run[N].S, ms) /\ M(run[N].S) = M(S)
  <2> HIDE DEF N
  <2> DEFINE P == {n \in Nat : n <= N => Steps(S, run[n].S, ms) /\ M(run[n].S) = M(S)}
  <2>1. 0 \in P
    <3>1. run[0] = zero
      BY <1>4, <1>6
    <3> QED
      BY <3>1, StepsRefl DEF zero
  <2>2. ASSUME NEW n \in Nat, n \in P PROVE n + 1 \in P
    <3>1. n + 1 <= N => n + 1 \in 1..N /\ n <= N
      BY <1>4
    <3>2. n + 1 <= N => run[n + 1] = step(run[n], n + 1)
      BY <1>4, <1>6
    <3> QED
      BY <1>5, <2>2, <3>1, <3>2
  <2>3. N \in P
    BY <1>4, <2>1, <2>2, NatSetInduction
  <2> QED
    BY <1>4, <2>3
<1> DEFINE R == run[N].S
<1> HIDE DEF R
<1>8. Steps(R, sentinelFailoverDetectEnd(R, c), ms)
  BY <1>7, DetectEndSteps DEF R, Steps
<1>9. Steps(S, sentinelFailoverDetectEnd(R, c), ms)
  BY <1>7, <1>8, StepsTrans DEF R
<1> QED
  BY <1>1, <1>9 DEF R

\* All slaves are flagged as told to follow the promoted server, or are not any more.
LEMMA FlaggedSteps ==
  ASSUME NEW S, NEW ms, Fine(S, ms), M(S).fstate \in Promoted
  PROVE  /\ Steps(S, Flagged(S, {"RECONF_SENT"}), ms) /\ M(Flagged(S, {"RECONF_SENT"})) = M(S)
         /\ Steps(S, Unflagged(S, {"RECONF_SENT"}), ms) /\ M(Unflagged(S, {"RECONF_SENT"})) = M(S)
<1> DEFINE u(r) == [r EXCEPT !.flags = r.flags \cup {"RECONF_SENT"}]
           d(r) == [r EXCEPT !.flags = r.flags \ {"RECONF_SENT"}]
           U == [i \in DOMAIN S.ri |-> IF S.ri[i].type = "slave" THEN u(S.ri[i]) ELSE S.ri[i]]
           D == [i \in DOMAIN S.ri |-> IF S.ri[i].type = "slave" THEN d(S.ri[i]) ELSE S.ri[i]]
<1>0. Sane(S) /\ Phase(M(S), PromotedIn(S.ri), BusyIn(S.ri)) /\ M(S).promoted \in ms
  BY PhaseOf
<1>1. Flagged(S, {"RECONF_SENT"}) = [S EXCEPT !.ri = U] /\ Unflagged(S, {"RECONF_SENT"}) = [S EXCEPT !.ri = D]
  BY DEF Flagged, Unflagged, Each
<1>2. ASSUME NEW i, NEW r, InstOk(i, r), NEW q, q = u(r) \/ q = d(r)
      PROVE  InstOk(i, q) /\ Keeps(r, q) /\ Answers(r, q) /\ (Has(q, "PROMOTED") <=> Has(r, "PROMOTED"))
  <2>1. /\ Key \subseteq DOMAIN q /\ (q.flags = r.flags \cup {"RECONF_SENT"} \/ q.flags = r.flags \ {"RECONF_SENT"})
        /\ q.type = r.type /\ q.addr = r.addr
        /\ q.runid = r.runid /\ q.cc = r.cc /\ q.out = r.out /\ q.pend = r.pend /\ q.md = r.md /\ q.prio = r.prio
    BY <1>2 DEF InstOk, Key
  <2> HIDE DEF u, d
  <2>2. InstOk(i, q)
    BY <1>2, <2>1, InstSame, InstFields DEF Has
  <2> QED
    BY <2>1, <2>2 DEF Keeps, Answers, Has
<1> HIDE DEF u, d
<1>3. ASSUME NEW f, f = U \/ f = D
      PROVE  LET Q == [S EXCEPT !.ri = f] IN Steps(S, Q, ms) /\ M(Q) = M(S)
  <2> DEFINE Q == [S EXCEPT !.ri = f]
  <2>1. /\ DOMAIN f = DOMAIN S.ri
        /\ \A i \in DOMAIN S.ri : S.ri[i].type # "slave" => f[i] = S.ri[i]
        /\ \A i \in SlavesIn(S.ri) : f[i] = u(S.ri[i]) \/ f[i] = d(S.ri[i])
    BY <1>3 DEF SlavesIn
  <2> HIDE DEF U, D
  <2>2. \A i \in SlavesIn(S.ri) : /\ InstOk(i, f[i]) /\ Keeps(S.ri[i], f[i]) /\ Answers(S.ri[i], f[i])
                                  /\ Has(f[i], "PROMOTED") <=> Has(S.ri[i], "PROMOTED")
    <3>1. \A i \in SlavesIn(S.ri) : InstOk(i, S.ri[i])
      BY <1>0 DEF Sane, Insts, SlavesIn
    <3> QED
      BY <1>2, <2>1, <3>1
  <2>3. Acts(S, Q) /\ M(Q) = M(S) /\ SlavesIn(Q.ri) = SlavesIn(S.ri) /\ Q.ri = f
    BY <1>0, <2>1, <2>2, SlavesSet
  <2> HIDE DEF Q
  <2>4. PromotedIn(Q.ri) = PromotedIn(S.ri)
    BY <2>2, <2>3 DEF PromotedIn
  <2>5. Phase(M(Q), PromotedIn(Q.ri), BusyIn(Q.ri))
    BY <1>0, <2>3, <2>4 DEF Phase
  <2> QED
    BY <1>0, <2>3, <2>5, StepBy DEF Q
<1> HIDE DEF U, D
<1> QED
  BY <1>1, <1>3

LEMMA StartFailoverSteps ==
  ASSUME NEW S, NEW ms, Fine(S, ms), ~Has(M(S), "FAILOVER_IN_PROGRESS"), NEW delay, NEW c
  PROVE  LET Q == sentinelStartFailover(S, delay, c) IN Steps(S, Q, ms) /\ M(Q).fstate = "WAIT_START"
<1> DEFINE L == Led(S, "WAIT_START", delay)
           E == sentinelEvent(L, "+failover-triggered", c)
           Q == sentinelEvent(E, "+failover-state-wait-start", c)
<1>1. Sane(S) /\ Phase(M(S), PromotedIn(S.ri), BusyIn(S.ri))
  BY PhaseOf
<1>2. /\ Acts(S, L)
      /\ M(L).fstate = "WAIT_START" /\ M(L).promoted = M(S).promoted
      /\ M(L).flags = M(S).flags \cup {"FAILOVER_IN_PROGRESS", "I_AM_THE_LEADER"}
      /\ PromotedIn(L.ri) = PromotedIn(S.ri) /\ BusyIn(L.ri) = BusyIn(S.ri)
  BY <1>1, LedIs
<1> HIDE DEF L
<1>3. Phase(M(L), PromotedIn(L.ri), BusyIn(L.ri)) /\ M(L).fstate \notin Promoted
  BY <1>1, <1>2 DEF Phase, Has, States, Promoted
<1>4. Steps(S, L, ms)
  BY <1>2, <1>3, StepBy
<1> HIDE DEF E
<1>5. Steps(S, E, ms) /\ E.ri = L.ri
  BY <1>4, StepsEvent DEF E
<1> HIDE DEF Q
<1>6. Steps(S, Q, ms) /\ Q.ri = E.ri
  BY <1>5, StepsEvent DEF Q
<1>7. sentinelStartFailover(S, delay, c) = Q
  BY DEF sentinelStartFailover, Q, E, L
<1> QED
  BY <1>2, <1>5, <1>6, <1>7 DEF M

LEMMA TakeOverSteps ==
  ASSUME NEW S, NEW ms, Fine(S, ms), Has(M(S), "FAILOVER_IN_PROGRESS"), ~Has(M(S), "I_AM_THE_LEADER"), NEW c
  PROVE  Steps(S, Unflagged(TakeOver(S, c), {"RECONF_SENT"}), ms)
<1> DEFINE start == M(S).fstart
           E == sentinelEvent(S, "+failover-takedown", c)
           L == Led(E, "RECONF_SLAVES", start)
           Q == sentinelEvent(L, "+failover-triggered", c)
<1> HIDE DEF start
<1>1. Phase(M(S), PromotedIn(S.ri), BusyIn(S.ri)) /\ Steps(S, E, ms) /\ E.ri = S.ri
  BY PhaseOf, StepsRefl, StepsEvent
<1> HIDE DEF E
<1>2. /\ Fine(E, ms) /\ Sane(E) /\ M(E) = M(S) /\ Phase(M(E), PromotedIn(E.ri), BusyIn(E.ri))
      /\ M(E).fstate \in Promoted => M(E).promoted \in ms
  BY <1>1, PhaseOf DEF Steps, M
<1>3. M(E).fstate \in Promoted
  BY <1>2 DEF Phase, Promoted
<1>4. /\ Acts(E, L)
      /\ M(L).fstate = "RECONF_SLAVES" /\ M(L).promoted = M(E).promoted
      /\ M(L).flags = M(E).flags \cup {"FAILOVER_IN_PROGRESS", "I_AM_THE_LEADER"}
      /\ PromotedIn(L.ri) = PromotedIn(E.ri) /\ BusyIn(L.ri) = BusyIn(E.ri)
  BY <1>2, LedIs
<1> HIDE DEF L
<1>5. Phase(M(L), PromotedIn(L.ri), BusyIn(L.ri))
  BY <1>2, <1>3, <1>4 DEF Phase, Has, States, Promoted
<1>6. Steps(E, L, ms)
  BY <1>2, <1>3, <1>4, <1>5, StepBy
<1>7. Steps(S, L, ms)
  BY <1>1, <1>6, StepsTrans
<1> HIDE DEF Q
<1>8. Steps(S, Q, ms) /\ Q.ri = L.ri
  BY <1>7, StepsEvent DEF Q
<1>9. Steps(Q, Unflagged(Q, {"RECONF_SENT"}), ms)
  BY <1>4, <1>8, FlaggedSteps DEF Steps, M, Promoted
<1>10. TakeOver(S, c) = Q
  BY DEF TakeOver, Q, L, E, start
<1> QED
  BY <1>8, <1>9, <1>10, StepsTrans

LEMMA StartIfNeededSteps ==
  ASSUME NEW S, NEW ms, Fine(S, ms), NEW delay, NEW c
  PROVE  Steps(S, sentinelStartFailoverIfNeeded(S, delay, c), ms)
<1> DEFINE Q == sentinelStartFailoverIfNeeded(S, delay, c)
<1>1. \/ Q = S
      \/ /\ Has(M(S), "FAILOVER_IN_PROGRESS") /\ ~Has(M(S), "I_AM_THE_LEADER")
         /\ Q = Unflagged(TakeOver(S, c), {"RECONF_SENT"})
      \/ ~Has(M(S), "FAILOVER_IN_PROGRESS") /\ Q = sentinelStartFailover(S, delay, c)
  BY DEF sentinelStartFailoverIfNeeded
<1> HIDE DEF Q
<1> QED
  BY <1>1, StepsRefl, TakeOverSteps, StartFailoverSteps DEF Q

LEMMA StateMachineSteps ==
  ASSUME NEW S, NEW ms, Fine(S, ms), NEW c
  PROVE  Steps(S, sentinelFailoverStateMachine(S, c), ms)
<1> DEFINE Q == sentinelFailoverStateMachine(S, c)
           state == M(S).fstate
           next == CASE state = "WAIT_START" -> sentinelFailoverWaitStart(S, c)
                     [] state = "SELECT_SLAVE" -> sentinelFailoverSelectSlave(S, c)
                     [] state = "SEND_SLAVEOF_NOONE" -> sentinelFailoverSendSlaveOfNoOne(S)
                     [] state = "WAIT_PROMOTION" -> sentinelFailoverWaitPromotion(S, c)
                     [] state = "RECONF_SLAVES" -> sentinelFailoverReconfNextSlave(S, c)
                     [] state = "DETECT_END" -> sentinelFailoverDetectEnd(S, c)
                     [] OTHER -> S
<1>1. Q = S \/ Q = next
  BY DEF sentinelFailoverStateMachine
<1> HIDE DEF Q
<1>2. Steps(S, next, ms)
  <2>1. CASE state = "WAIT_START"
    <3>1. next = sentinelFailoverWaitStart(S, c)
      BY <2>1
    <3> QED
      BY <2>1, <3>1, WaitStartSteps
  <2>2. CASE state = "SELECT_SLAVE"
    <3>1. next = sentinelFailoverSelectSlave(S, c)
      BY <2>2
    <3> QED
      BY <2>2, <3>1, SelectSlaveSteps
  <2>3. CASE state = "SEND_SLAVEOF_NOONE"
    <3>1. next = sentinelFailoverSendSlaveOfNoOne(S)
      BY <2>3
    <3> QED
      BY <2>3, <3>1, SendSlaveOfNoOneSteps
  <2>4. CASE state = "WAIT_PROMOTION"
    <3>1. next = sentinelFailoverWaitPromotion(S, c)
      BY <2>4
    <3> QED
      BY <2>4, <3>1, WaitPromotionSteps
  <2>5. CASE state = "RECONF_SLAVES"
    <3>1. next = sentinelFailoverReconfNextSlave(S, c)
      BY <2>5
    <3> QED
      BY <2>5, <3>1, ReconfNextSlaveSteps DEF Promoted
  <2>6. CASE state = "DETECT_END"
    <3>1. next = sentinelFailoverDetectEnd(S, c)
      BY <2>6
    <3> QED
      BY <2>6, <3>1, DetectEndSteps DEF Promoted
  <2>7. CASE state \notin {"WAIT_START", "SELECT_SLAVE", "SEND_SLAVEOF_NOONE", "WAIT_PROMOTION", "RECONF_SLAVES", "DETECT_END"}
    <3>1. next = S
      BY <2>7
    <3> QED
      BY <3>1, StepsRefl
  <2> QED
    BY <2>1, <2>2, <2>3, <2>4, <2>5, <2>6, <2>7
<1> HIDE DEF next
<1> QED
  BY <1>1, <1>2, StepsRefl DEF Q

LEMMA AbortIfNeededSteps ==
  ASSUME NEW S, NEW ms, Fine(S, ms), NEW c
  PROVE  Steps(S, sentinelAbortFailoverIfNeeded(S, c), ms)
<1>1. \/ sentinelAbortFailoverIfNeeded(S, c) = S
      \/ sentinelAbortFailoverIfNeeded(S, c) =
           sentinelAbortFailover(sentinelEvent(S, "-failover-abort-x-sdown", c), c)
  BY DEF sentinelAbortFailoverIfNeeded
<1> QED
  BY <1>1, StepsRefl, AbortSteps

\* The timer has nothing but that to do to the master when it asked the sentinels.
LEMMA FailedOverDecides ==
  ASSUME NEW S, NEW ms, Fine(S, ms), RecentIn(S.ri), NEW delay, NEW c
  PROVE  LET Q == sentinelAbortFailoverIfNeeded(FailedOver(S, delay, c), c) IN
         Fine(Q, ms) /\ Tilt(S, Q) /\ DOMAIN Q.ri = DOMAIN S.ri /\ Decided(S, Q, c)
<1> DEFINE A == sentinelCheckObjectivelyDown(S, c)
           B == sentinelStartFailoverIfNeeded(A, delay, c)
           C == sentinelFailoverStateMachine(B, c)
           Q == sentinelAbortFailoverIfNeeded(C, c)
<1>1. Quiet(S, A) /\ Decided(S, A, c)
  BY ObjectivelyDownDecides DEF Fine
<1> HIDE DEF A
<1>2. Fine(A, ms)
  BY <1>1, QuietFine
<1>3. Steps(A, B, ms)
  BY <1>2, StartIfNeededSteps
<1> HIDE DEF B
<1>4. Steps(B, C, ms)
  BY <1>3, StateMachineSteps DEF Steps
<1> HIDE DEF C
<1>5. Steps(C, Q, ms)
  BY <1>4, AbortIfNeededSteps DEF Steps
<1> HIDE DEF Q
<1>6. Steps(A, Q, ms)
  BY <1>3, <1>4, <1>5, StepsTrans
<1>7. Decided(S, Q, c)
  BY <1>1, <1>2, <1>6, ActsDecided DEF Steps, Fine
<1>8. Tilt(S, Q) /\ DOMAIN Q.ri = DOMAIN S.ri
  BY <1>1, <1>6 DEF Quiet, Steps, Acts, Tilt
<1>9. Q = sentinelAbortFailoverIfNeeded(FailedOver(S, delay, c), c)
  BY DEF Q, C, B, A, FailedOver
<1> QED
  BY <1>6, <1>7, <1>8, <1>9 DEF Steps

----------------------------------------------------------------------------
\* One round of the timer, about the instance i.
\* While the mode is TILT no role command is sent; otherwise what is decided rests on recent answers.
Rounds(S, Q, ms) ==
    /\ Fine(Q, ms) /\ DOMAIN Q.ri = DOMAIN S.ri /\ Q.tiltAge = S.tiltAge
    /\ S.tiltAge < T.tilt => \A j \in DOMAIN S.ri : Mute(S.ri[j], Q.ri[j])
Follows(S, Q) == \A j \in DOMAIN S.ri : Keeps(S.ri[j], Q.ri[j]) /\ Answers(S.ri[j], Q.ri[j])

LEMMA FollowsDecided ==
  ASSUME NEW S, NEW Q, NEW R, NEW c, Decided(S, Q, c), MasterId \in DOMAIN Q.ri, DOMAIN R.ri = DOMAIN Q.ri, Follows(Q, R)
  PROVE  Decided(S, R, c)
<1>1. Has(M(R), "O_DOWN") => Has(M(Q), "O_DOWN")
  BY DEF Follows, Answers, M
<1>2. FreshIn(R.ri) = FreshIn(Q.ri)
  BY DEF Follows, Keeps, Answers, FreshIn
<1> QED
  BY <1>1, <1>2 DEF Decided

LEMMA RoundsTrans ==
  ASSUME NEW S, NEW Q, NEW R, NEW ms, Rounds(S, Q, ms), Rounds(Q, R, ms)
  PROVE  Rounds(S, R, ms)
BY DEF Rounds, Mute

LEMMA WorksRounds ==
  ASSUME NEW S, NEW Q, NEW ms, Fine(S, ms), Works(S, Q)
  PROVE  Rounds(S, Q, ms) /\ Follows(S, Q)
<1>1. Fine(Q, ms)
  BY WorksQuietly, QuietFine
<1>2. \A j \in DOMAIN S.ri : Mute(S.ri[j], Q.ri[j]) /\ Keeps(S.ri[j], Q.ri[j]) /\ Answers(S.ri[j], Q.ri[j])
  BY DEF Works, Silent
<1> QED
  BY <1>1, <1>2 DEF Works, Tilt, Rounds, Follows

LEMMA MonitoredIs ==
  ASSUME NEW S, NEW ms, Fine(S, ms), NEW i \in DOMAIN S.ri
  PROVE  LET Q == Monitored(S, i) IN
         /\ Rounds(S, Q, ms) /\ Tilt(S, Q)
         /\ i # MasterId => Follows(S, Q)
         /\ i = MasterId => RecentIn(Q.ri) /\ (Has(M(Q), "O_DOWN") => Has(M(S), "O_DOWN"))
<1> DEFINE R == sentinelReconnectInstance(S, i)
           P == sentinelPingInstance(R, i)
           A == sentinelAskMasterStateToOtherSentinels(P)
<1>1. Sane(S) /\ Works(S, R)
  BY ReconnectWorks DEF Fine
<1> HIDE DEF R
<1>2. Works(R, P)
  BY <1>1, PingWorks DEF Works
<1> HIDE DEF P
<1>3. Works(S, P) /\ Tilt(S, P)
  BY <1>1, <1>2, WorksTrans DEF Works
<1>4. Rounds(S, P, ms) /\ Follows(S, P)
  BY <1>3, WorksRounds
<1>5. CASE i # MasterId
  BY <1>3, <1>4, <1>5 DEF Monitored, P, R
<1>6. CASE i = MasterId
  <2>1. Asks(P, A)
    BY <1>3, AskAsks DEF Works
  <2> HIDE DEF A
  <2>2. Fine(A, ms)
    BY <1>4, <2>1, QuietFine DEF Rounds, Asks
  <2>3. Rounds(P, A, ms) /\ Tilt(P, A)
    BY <2>1, <2>2 DEF Rounds, Asks, Quiet, Tilt
  <2>4. Rounds(S, A, ms) /\ Tilt(S, A)
    BY <1>3, <1>4, <2>3, RoundsTrans DEF Tilt
  <2>5. RecentIn(A.ri) /\ (Has(M(A), "O_DOWN") => Has(M(S), "O_DOWN"))
    BY <1>1, <1>3, <1>4, <2>1, MasterKey DEF Asks, Follows, Answers, M, Works
  <2> QED
    BY <1>6, <2>4, <2>5 DEF Monitored, A, P, R
<1> QED
  BY <1>5, <1>6

LEMMA ActedIs ==
  ASSUME NEW S, NEW ms, Fine(S, ms), NEW i \in DOMAIN S.ri, NEW delay, NEW c, i = MasterId => RecentIn(S.ri)
  PROVE  LET Q == Acted(S, i, delay, c) IN
         /\ Rounds(S, Q, ms)
         /\ i # MasterId => Follows(S, Q)
         /\ i = MasterId => Decided(S, Q, c)
<1> DEFINE U == [S EXCEPT !.tilt = FALSE]
           D == sentinelCheckSubjectivelyDown(U, i, c)
           F == sentinelAbortFailoverIfNeeded(FailedOver(D, delay, c), c)
           Q == Acted(S, i, delay, c)
<1>1. Sane(S) /\ Parts \subseteq DOMAIN S
  BY DEF Fine, Sane, Shape
<1>2. CASE Tilted(S)
  <2>1. Works(S, S) /\ Rounds(S, S, ms) /\ Follows(S, S)
    BY <1>1, WorksRefl, WorksRounds
  <2> QED
    BY <1>2, <2>1 DEF Acted, Decided
<1>3. CASE ~Tilted(S)
  <2>1. ~(S.tiltAge < T.tilt)
    BY <1>1, <1>3 DEF Sane, Shape, Tilted
  <2>2. /\ Parts \subseteq DOMAIN U /\ U.ri = S.ri /\ U.tilt = FALSE /\ U.tiltAge = S.tiltAge /\ U.late = S.late
        /\ U.scripts = S.scripts /\ U.running = S.running /\ U.wild = S.wild
    BY <1>1 DEF Parts
  <2>3. Q = IF i = MasterId THEN F ELSE D
    BY <1>3 DEF Acted
  <2> HIDE DEF U, Q
  <2>4. Fine(U, ms)
    BY <2>1, <2>2 DEF Fine, Sane, Shape, ScriptsOk
  <2>5. Works(U, D)
    BY <2>2, <2>4, SubjectivelyDownWorks DEF Fine
  <2> HIDE DEF D
  <2>6. Rounds(U, D, ms) /\ Follows(U, D)
    BY <2>4, <2>5, WorksRounds
  <2>7. CASE i # MasterId
    BY <2>2, <2>3, <2>6, <2>7 DEF Rounds, Follows, Q
  <2>8. CASE i = MasterId
    <3>1. RecentIn(D.ri)
      BY <2>2, <2>6, <2>8 DEF RecentIn, Rounds, Follows, Keeps, Answers
    <3>2. Fine(F, ms) /\ Tilt(D, F) /\ DOMAIN F.ri = DOMAIN D.ri /\ Decided(D, F, c)
      BY <2>6, <3>1, FailedOverDecides DEF Rounds
    <3> HIDE DEF F
    <3>3. Rounds(S, F, ms)
      BY <2>1, <2>2, <2>6, <3>2 DEF Rounds, Tilt
    <3>4. Decided(S, F, c)
      <4>1. Has(M(D), "O_DOWN") => Has(M(S), "O_DOWN")
        BY <1>1, <2>2, <2>6, MasterKey DEF Follows, Answers, M
      <4> QED
        BY <3>2, <4>1 DEF Decided
    <3> QED
      BY <2>3, <2>8, <3>3, <3>4 DEF Q
  <2> QED
    BY <2>7, <2>8
<1> QED
  BY <1>2, <1>3

LEMMA HandledOne ==
  ASSUME NEW S, NEW ms, Fine(S, ms), NEW i \in DOMAIN S.ri, NEW delay, NEW c
  PROVE  LET Q == sentinelHandleRedisInstance(S, i, delay, c) IN
         /\ Rounds(S, Q, ms)
         /\ i # MasterId => Follows(S, Q)
         /\ i = MasterId => Decided(S, Q, c)
<1> DEFINE P == Monitored(S, i)
           Q == Acted(P, i, delay, c)
<1>1. /\ Rounds(S, P, ms)
      /\ i # MasterId => Follows(S, P)
      /\ i = MasterId => RecentIn(P.ri) /\ (Has(M(P), "O_DOWN") => Has(M(S), "O_DOWN"))
  BY MonitoredIs
<1> HIDE DEF P
<1>2. Fine(P, ms) /\ i \in DOMAIN P.ri
  BY <1>1 DEF Rounds
<1>3. /\ Rounds(P, Q, ms)
      /\ i # MasterId => Follows(P, Q)
      /\ i = MasterId => Decided(P, Q, c)
  BY <1>1, <1>2, ActedIs
<1> HIDE DEF Q
<1>4. Rounds(S, Q, ms)
  BY <1>1, <1>3, RoundsTrans
<1>5. i # MasterId => Follows(S, Q)
  BY <1>1, <1>3 DEF Follows, Rounds, Keeps, Answers
<1>6. i = MasterId => Decided(S, Q, c)
  BY <1>1, <1>3 DEF Decided
<1> QED
  BY <1>4, <1>5, <1>6 DEF sentinelHandleRedisInstance, Q, P

\* All rounds of the timer: the master's comes first.
LEMMA HandledIs ==
  ASSUME NEW S, NEW ms, Fine(S, ms), NEW delay, NEW c
  PROVE  Rounds(S, Handled(S, delay, c), ms) /\ Decided(S, Handled(S, delay, c), c)
<1> DEFINE X == DOMAIN S.ri \ {MasterId}
           order == <<MasterId>> \o SetToSeq(X)
           step(A, n) == sentinelHandleRedisInstance(A, order[n], delay, c)
           run[n \in 0..Len(order)] == IF n = 0 THEN S ELSE step(run[n - 1], n)
           N == Len(order)
<1>1. Handled(S, delay, c) = run[N]
  BY DEF Handled
<1>2. MasterId \in DOMAIN S.ri /\ IsFiniteSet(X)
  <2>1. MasterId \in DOMAIN S.ri /\ IsFiniteSet(DOMAIN S.ri)
    BY DEF Fine, Sane, Insts
  <2> QED
    BY <2>1, FS_Subset
<1>3. N \in Nat /\ N >= 1 /\ order[1] = MasterId /\ \A n \in 2..N : order[n] \in X
  <2> DEFINE l == SetToSeq(X)
  <2>1. l \in Seq(X) /\ Len(l) \in Nat /\ \A n \in 1..Len(l) : l[n] \in X
    BY <1>2, ListOfSet
  <2> HIDE DEF l, X
  <2>2. l \in Seq(X \cup {MasterId})
    BY <2>1, SeqMonotonic
  <2>3. <<MasterId>> \in Seq(X \cup {MasterId}) /\ Len(<<MasterId>>) = 1
    OBVIOUS
  <2>4. Len(<<MasterId>> \o l) = 1 + Len(l) /\ (<<MasterId>> \o l)[1] = MasterId
    BY <2>1, <2>2
  <2>5. \A n \in 2..1 + Len(l) : (<<MasterId>> \o l)[n] = l[n - 1]
    BY <2>1, <2>2
  <2> QED
    BY <2>1, <2>4, <2>5 DEF l
<1> HIDE DEF order
<1>4. ASSUME NEW A, NEW n \in 1..N, Rounds(S, A, ms)
      PROVE  /\ Rounds(S, step(A, n), ms)
             /\ n # 1 /\ Decided(S, A, c) => Decided(S, step(A, n), c)
             /\ n = 1 => Decided(A, step(A, n), c)
  <2> DEFINE i == order[n]
  <2>1. i \in DOMAIN S.ri /\ (i = MasterId <=> n = 1)
    <3>1. n = 1 \/ n \in 2..N
      BY <1>3
    <3>2. CASE n = 1
      BY <1>2, <1>3, <3>2
    <3>3. CASE n \in 2..N
      BY <1>3, <3>3
    <3> QED
      BY <3>1, <3>2, <3>3
  <2> HIDE DEF i
  <2>2. Fine(A, ms) /\ i \in DOMAIN A.ri /\ MasterId \in DOMAIN A.ri
    BY <1>2, <1>4, <2>1 DEF Rounds
  <2>3. /\ Rounds(A, step(A, n), ms)
        /\ i # MasterId => Follows(A, step(A, n))
        /\ i = MasterId => Decided(A, step(A, n), c)
    BY <2>2, HandledOne DEF i
  <2> HIDE DEF step
  <2>4. Rounds(S, step(A, n), ms)
    BY <1>4, <2>3, RoundsTrans
  <2>5. n # 1 /\ Decided(S, A, c) => Decided(S, step(A, n), c)
    BY <2>1, <2>2, <2>3, FollowsDecided DEF Rounds
  <2> QED
    BY <2>1, <2>3, <2>4, <2>5
<1> HIDE DEF step, X
<1>5. run = [n \in 0..N |-> IF n = 0 THEN S ELSE step(run[n - 1], n)]
  <2> HIDE DEF N
  <2> DEFINE P == {m \in Nat : \E f : f = [n \in 0..m |-> IF n = 0 THEN S ELSE step(f[n - 1], n)]}
  <2>1. 0 \in P
    <3> DEFINE f == [n \in 0..0 |-> S]
    <3>1. f = [n \in 0..0 |-> IF n = 0 THEN S ELSE step(f[n - 1], n)]
      OBVIOUS
    <3> HIDE DEF f
    <3> QED
      BY <3>1
  <2>2. ASSUME NEW m \in Nat, m \in P PROVE m + 1 \in P
    <3>1. PICK f : f = [n \in 0..m |-> IF n = 0 THEN S ELSE step(f[n - 1], n)]
      BY <2>2
    <3> DEFINE g == [n \in 0..m + 1 |-> IF n = m + 1 THEN step(f[m], n) ELSE f[n]]
    <3>2. \A n \in 0..m + 1 : g[n] = IF n = 0 THEN S ELSE step(g[n - 1], n)
      <4> SUFFICES ASSUME NEW n \in 0..m + 1 PROVE g[n] = IF n = 0 THEN S ELSE step(g[n - 1], n)
        OBVIOUS
      <4>1. CASE n = m + 1
        BY <4>1
      <4>2. CASE n # m + 1
        BY <3>1, <4>2
      <4> QED
        BY <4>1, <4>2
    <3>3. g = [n \in 0..m + 1 |-> IF n = 0 THEN S ELSE step(g[n - 1], n)]
      BY <3>2
    <3> HIDE DEF g
    <3> QED
      BY <3>3
  <2>3. N \in P
    BY <1>3, <2>1, <2>2, NatSetInduction
  <2> QED
    BY <2>3 DEF N
<1> HIDE DEF run
<1>6. Rounds(S, run[N], ms) /\ Decided(S, run[N], c)
  <2> HIDE DEF N
  <2> DEFINE P == {n \in Nat : n <= N => Rounds(S, run[n], ms) /\ (n # 0 => Decided(S, run[n], c))}
  <2>1. 0 \in P
    <3>1. run[0] = S
      BY <1>3, <1>5
    <3>2. Works(S, S)
      BY WorksRefl DEF Fine
    <3> QED
      BY <3>1, <3>2, WorksRounds
  <2>2. ASSUME NEW n \in Nat, n \in P PROVE n + 1 \in P
    <3>1. CASE n + 1 <= N
      <4>1. n + 1 \in 1..N /\ n <= N /\ run[n + 1] = step(run[n], n + 1)
        BY <1>3, <1>5, <3>1
      <4>2. n = 0 => run[n] = S
        BY <1>3, <1>5
      <4>3. Rounds(S, run[n], ms) /\ (n # 0 => Decided(S, run[n], c))
        BY <2>2, <4>1
      <4>4. Rounds(S, step(run[n], n + 1), ms)
        BY <1>4, <4>1, <4>3
      <4>5. Decided(S, step(run[n], n + 1), c)
        BY <1>4, <4>1, <4>2, <4>3
      <4> QED
        BY <4>1, <4>4, <4>5
    <3>2. CASE ~(n + 1 <= N)
      BY <3>2
    <3> QED
      BY <3>1, <3>2
  <2>3. N \in P
    BY <1>3, <2>1, <2>2, NatSetInduction
  <2> QED
    BY <1>3, <2>3
<1> QED
  BY <1>1, <1>6

----------------------------------------------------------------------------
\* Instances come and go.
LEMMA NewInst ==
  ASSUME NEW i, NEW type, type = Kind(i), NEW addr, type = "master" => addr \in Addr, type = "slave" => addr = i, NEW flags
  PROVE  LET r == createSentinelRedisInstance(type, addr, flags) IN
         /\ InstOk(i, r) /\ r.type = type /\ r.addr = addr /\ r.flags = flags \cup {"DISCONNECTED"} /\ r.runid = Nil
         /\ r.cc = Nil /\ r.fstate = "NONE" /\ r.promoted = Nil
<1> DEFINE r == createSentinelRedisInstance(type, addr, flags)
<1>1. /\ Key \subseteq DOMAIN r /\ r.type = type /\ r.addr = addr /\ r.flags = flags \cup {"DISCONNECTED"}
      /\ r.runid = Nil /\ r.cc = Nil /\ r.out = <<>> /\ r.pend = 0 /\ r.md = 0 /\ r.prio = 1
      /\ r.fstate = "NONE" /\ r.promoted = Nil
  BY DEF createSentinelRedisInstance, Key
<1> HIDE DEF r
<1>2. LinkOk(r)
  BY <1>1 DEF LinkOk, Has
<1>3. PendOk(r)
  BY <1>1, Constants DEF PendOk
<1> QED
  BY <1>1, <1>2, <1>3 DEF InstOk, r

LEMMA CreatedIs ==
  ASSUME NEW S, Sane(S), NEW ids, IsFiniteSet(ids), NEW type, type # "master",
         \A i \in ids : Kind(i) = type, NEW flags
  PROVE  LET Q == Created(S, ids, type, flags) IN
         /\ Sane(Q) /\ OnlyRi(S, Q) /\ DOMAIN Q.ri = DOMAIN S.ri \cup ids
         /\ \A i \in DOMAIN S.ri : Q.ri[i] = S.ri[i]
         /\ \A i \in ids \ DOMAIN S.ri : Q.ri[i] = createSentinelRedisInstance(type, i, flags)
<1> DEFINE Q == Created(S, ids, type, flags)
           f == [i \in DOMAIN S.ri \cup ids |->
                     IF i \in DOMAIN S.ri THEN S.ri[i] ELSE createSentinelRedisInstance(type, i, flags)]
<1>1. Parts \subseteq DOMAIN S /\ Shape(S) /\ Insts(S.ri)
  BY DEF Sane, Shape
<1>2. Q = [S EXCEPT !.ri = f]
  BY DEF Created
<1> HIDE DEF Q
<1>3. OnlyRi(S, Q) /\ Q.ri = f
  <2> HIDE DEF f
  <2> QED
    BY <1>1, <1>2 DEF OnlyRi, Parts, Tilt
<1>4. DOMAIN Q.ri = DOMAIN S.ri \cup ids
  BY <1>3
<1>5. \A i \in DOMAIN S.ri : Q.ri[i] = S.ri[i]
  BY <1>3
<1>6. \A i \in ids \ DOMAIN S.ri : Q.ri[i] = createSentinelRedisInstance(type, i, flags)
  BY <1>3
<1>7. \A i \in ids \ DOMAIN S.ri : InstOk(i, Q.ri[i])
  BY <1>6, NewInst
<1>8. IsFiniteSet(DOMAIN Q.ri)
  BY <1>1, <1>4, FS_Union DEF Insts
<1>9. Insts(Q.ri)
  BY <1>1, <1>4, <1>5, <1>7, <1>8 DEF Insts
<1>10. Sane(Q)
  BY <1>1, <1>3, <1>9, ShapeKept DEF Sane
<1> QED
  BY <1>3, <1>4, <1>5, <1>6, <1>10 DEF Q

LEMMA RemovedIs ==
  ASSUME NEW S, Sane(S), NEW ids, ids \subseteq DOMAIN S.ri, MasterId \notin ids
  PROVE  LET Q == Removed(S, ids) IN
         /\ Sane(Q) /\ Tilt(S, Q) /\ DOMAIN Q.ri = DOMAIN S.ri \ ids
         /\ \A i \in DOMAIN S.ri \ ids : Q.ri[i] = S.ri[i]
<1> DEFINE Q == Removed(S, ids)
           f == [i \in DOMAIN S.ri \ ids |-> S.ri[i]]
           w == S.wild \cup UNION {InFlight(S.ri[i]) : i \in ids}
<1>1. Parts \subseteq DOMAIN S /\ Shape(S) /\ Insts(S.ri)
  BY DEF Sane, Shape
<1>2. Q = [S EXCEPT !.ri = f, !.wild = w]
  BY DEF Removed
<1>3. w \subseteq Addr \X Command
  <2>1. \A i \in ids : InFlight(S.ri[i]) \subseteq Addr \X Command
    BY <1>1, InFlightIs DEF Insts
  <2> QED
    BY <1>1, <2>1 DEF Shape
<1>4. /\ Parts \subseteq DOMAIN Q /\ Q.ri = f /\ Q.wild = w /\ Q.tilt = S.tilt /\ Q.tiltAge = S.tiltAge
      /\ Q.scripts = S.scripts /\ Q.running = S.running
  <2> HIDE DEF f, w, Q
  <2> QED
    BY <1>1, <1>2 DEF Parts
<1> HIDE DEF Q, w
<1>5. DOMAIN Q.ri = DOMAIN S.ri \ ids /\ \A i \in DOMAIN S.ri \ ids : Q.ri[i] = S.ri[i]
  BY <1>4
<1>6. IsFiniteSet(DOMAIN Q.ri)
  BY <1>1, <1>5, FS_Subset DEF Insts
<1>7. Insts(Q.ri)
  BY <1>1, <1>5, <1>6 DEF Insts
<1>8. Shape(Q)
  BY <1>1, <1>3, <1>4 DEF Shape, ScriptsOk
<1> QED
  BY <1>4, <1>5, <1>7, <1>8 DEF Sane, Tilt, Q

\* A master alone, without links or a failover.
Alone(S, addr) ==
    /\ Sane(S) /\ DOMAIN S.ri = {MasterId} /\ M(S).addr = addr /\ M(S).cc = Nil
    /\ M(S).fstate = "NONE" /\ M(S).promoted = Nil
    /\ M(S).flags \cap {"FAILOVER_IN_PROGRESS", "I_AM_THE_LEADER", "O_DOWN"} = {}

LEMMA AloneFine ==
  ASSUME NEW S, NEW addr, Alone(S, addr), NEW ms, addr \in ms
  PROVE  Fine(S, ms)
<1>1. M(S) = S.ri[MasterId] /\ M(S).type # "slave" /\ M(S).type # "sentinel"
  BY MasterKey DEF Alone, M
<1>2. SlavesIn(S.ri) = {} /\ Runids(S.ri)
  BY <1>1 DEF Alone, SlavesIn, Runids
<1>3. PromotedIn(S.ri) = {} /\ BusyIn(S.ri) = {}
  BY <1>2 DEF PromotedIn, BusyIn
<1>4. FailoverOk(S.ri)
  BY <1>1, <1>3 DEF Alone, FailoverOk, Phase, Has, States, Promoted
<1>5. Named(S.ri, ms)
  BY <1>1 DEF Alone, Named, Promoted
<1> QED
  BY <1>2, <1>4, <1>5 DEF Fine, Alone

LEMMA ResetIs ==
  ASSUME NEW S, Sane(S)
  PROVE  Alone(sentinelResetMaster(S), M(S).addr) /\ Tilt(S, sentinelResetMaster(S))
<1> DEFINE others == DOMAIN S.ri \ {MasterId}
           R == Removed(S, others)
           m == IF M(S).cc = Nil THEN M(R) ELSE Closed(M(R))
           p == IF M(S).pc THEN KillPubsub(m) ELSE m
           q == [p EXCEPT !.flags = @ \cap {"CAN_FAILOVER", "DISCONNECTED"}, !.leader = Nil,
                          !.fstate = "NONE", !.fchange = Never, !.fstart = 0, !.promoted = Nil,
                          !.runid = Nil, !.host = Nil, !.avail = 0, !.pong = 0]
           B == Set(R, MasterId, q)
           Q == [B EXCEPT !.wild = @ \cup InFlight(M(S))]
<1>1. MasterId \in DOMAIN S.ri /\ InstOk(MasterId, M(S)) /\ M(S) = S.ri[MasterId]
  BY MasterKey DEF M
<1>2. sentinelResetMaster(S) = Q
  BY DEF sentinelResetMaster
<1>3. Sane(R) /\ Tilt(S, R) /\ DOMAIN R.ri = {MasterId} /\ M(R) = M(S)
  <2>1. Sane(R) /\ Tilt(S, R) /\ DOMAIN R.ri = DOMAIN S.ri \ others /\ \A i \in DOMAIN S.ri \ others : R.ri[i] = S.ri[i]
    BY RemovedIs
  <2> HIDE DEF R
  <2> QED
    BY <1>1, <2>1 DEF M
<1> HIDE DEF R, others
<1>4. InstOk(MasterId, m) /\ m.cc = Nil /\ m.addr = M(S).addr /\ m.out = <<>> /\ Has(m, "DISCONNECTED") /\ m.type = M(S).type
  <2>1. M(S).cc = Nil => M(S).out = <<>> /\ Has(M(S), "DISCONNECTED")
    BY <1>1 DEF InstOk, LinkOk
  <2>2. /\ InstOk(MasterId, Closed(M(S))) /\ Silent(M(S), Closed(M(S))) /\ Has(Closed(M(S)), "DISCONNECTED")
        /\ Closed(M(S)).cc = Nil /\ Closed(M(S)).out = <<>>
    <3>1. Closed(M(S)).cc = Nil /\ Closed(M(S)).out = <<>>
      BY <1>1, InstFields DEF Closed
    <3> QED
      BY <1>1, <3>1, InstClosed
  <2> QED
    BY <1>1, <1>3, <2>1, <2>2 DEF Silent, Keeps
<1> HIDE DEF m
<1>5. InstOk(MasterId, p) /\ p.cc = Nil /\ p.addr = M(S).addr /\ p.out = <<>> /\ Has(p, "DISCONNECTED") /\ p.type = M(S).type
  <2>1. /\ InstOk(MasterId, KillPubsub(m)) /\ Silent(m, KillPubsub(m))
        /\ KillPubsub(m).cc = m.cc /\ KillPubsub(m).out = m.out /\ Has(KillPubsub(m), "DISCONNECTED")
    <3>1. KillPubsub(m).cc = m.cc /\ KillPubsub(m).out = m.out /\ Has(KillPubsub(m), "DISCONNECTED")
      BY <1>4, InstFields DEF KillPubsub, Has
    <3> QED
      BY <1>4, <3>1, InstPubsubKilled
  <2> QED
    BY <1>4, <2>1 DEF Silent, Keeps
<1> HIDE DEF p
<1>6. /\ InstOk(MasterId, q) /\ q.addr = M(S).addr /\ q.cc = Nil /\ q.fstate = "NONE" /\ q.promoted = Nil
      /\ q.flags \subseteq {"CAN_FAILOVER", "DISCONNECTED"} /\ q.type = p.type
  <2>1. /\ Key \subseteq DOMAIN q /\ q.flags = p.flags \cap {"CAN_FAILOVER", "DISCONNECTED"} /\ q.type = p.type
        /\ q.addr = p.addr /\ q.runid = Nil /\ q.cc = p.cc /\ q.out = p.out /\ q.pend = p.pend
        /\ q.md = p.md /\ q.prio = p.prio /\ q.fstate = "NONE" /\ q.promoted = Nil
    BY <1>5, InstFields DEF Key
  <2> HIDE DEF q
  <2>2. InstOk(MasterId, q)
    BY <1>5, <2>1, InstSame, InstFields DEF Has
  <2> QED
    BY <1>5, <2>1, <2>2
<1> HIDE DEF q
<1>7. Shape(B) /\ OnlyRi(R, B) /\ DOMAIN B.ri = {MasterId} /\ B.ri[MasterId] = q
  BY <1>3, SetIs DEF Sane
<1>8. Insts(B.ri)
  BY <1>6, <1>7, FS_Singleton DEF Insts
<1> HIDE DEF B
<1>9. InFlight(M(S)) \subseteq Addr \X Command
  BY <1>1, InFlightIs
<1>10. /\ Parts \subseteq DOMAIN Q /\ Q.ri = B.ri /\ Q.wild = B.wild \cup InFlight(M(S)) /\ Q.tilt = B.tilt
       /\ Q.tiltAge = B.tiltAge /\ Q.scripts = B.scripts /\ Q.running = B.running
  <2>1. Parts \subseteq DOMAIN B
    BY <1>7 DEF Shape
  <2> QED
    BY <2>1 DEF Parts
<1> HIDE DEF Q
<1>11. Sane(Q)
  BY <1>7, <1>8, <1>9, <1>10 DEF Sane, Shape, ScriptsOk
<1>12. M(Q) = q
  BY <1>7, <1>10 DEF M
<1>13. Tilt(S, Q)
  BY <1>3, <1>7, <1>10 DEF Tilt, OnlyRi
<1> QED
  BY <1>2, <1>6, <1>7, <1>10, <1>11, <1>12, <1>13 DEF Alone

LEMMA ChangeAddressIs ==
  ASSUME NEW S, Sane(S), NEW addr \in Addr
  PROVE  LET Q == sentinelResetMasterAndChangeAddress(S, addr) IN Alone(Q, addr) /\ Tilt(S, Q)
<1> DEFINE R == sentinelResetMaster(S)
           q == [M(R) EXCEPT !.addr = addr, !.sdown = Never, !.odown = Never]
           Q == Set(R, MasterId, q)
<1>1. Alone(R, M(S).addr) /\ Tilt(S, R)
  BY ResetIs
<1> HIDE DEF R
<1>2. Sane(R) /\ InstOk(MasterId, M(R)) /\ M(R).type = "master"
  BY <1>1, MasterKey DEF Alone
<1>3. /\ Key \subseteq DOMAIN q /\ q.flags = M(R).flags /\ q.type = M(R).type
      /\ q.addr = addr /\ q.runid = M(R).runid /\ q.cc = M(R).cc /\ q.out = M(R).out /\ q.pend = M(R).pend
      /\ q.md = M(R).md /\ q.prio = M(R).prio /\ q.fstate = M(R).fstate /\ q.promoted = M(R).promoted
  BY <1>2, InstFields DEF Key
<1> HIDE DEF q
<1>4. InstOk(MasterId, q)
  <2>1. Queued(q) = Queued(M(R))
    BY <1>3 DEF Queued
  <2>2. LinkOk(q) /\ PendOk(q)
    BY <1>2, <1>3, <2>1 DEF InstOk, LinkOk, PendOk, Has
  <2> QED
    BY <1>2, <1>3, <2>2 DEF InstOk
<1>5. Shape(Q) /\ OnlyRi(R, Q) /\ DOMAIN Q.ri = DOMAIN R.ri /\ Q.ri[MasterId] = q
  <2>1. Shape(R) /\ MasterId \in DOMAIN R.ri
    BY <1>1, <1>2 DEF Sane, Alone
  <2> QED
    BY <2>1, SetIs
<1> HIDE DEF Q
<1>6. Insts(Q.ri)
  BY <1>1, <1>4, <1>5, FS_Singleton DEF Insts, Alone
<1>7. Alone(Q, addr) /\ Tilt(S, Q)
  BY <1>1, <1>3, <1>5, <1>6 DEF Alone, Sane, M, Tilt, OnlyRi
<1> QED
  BY <1>7 DEF sentinelResetMasterAndChangeAddress, Q, q, R

----------------------------------------------------------------------------
\* The scripts.
LEMMA ReplaceInList ==
  ASSUME NEW s, IsList(s), NEW n \in 1..Len(s), NEW e
  PROVE  IsList([s EXCEPT ![n] = e]) /\ Len([s EXCEPT ![n] = e]) = Len(s)
<1>1. PICK X : s \in Seq(X)
  BY DEF IsList
<1> DEFINE Y == X \cup {e}
<1>2. s \in Seq(Y) /\ e \in Y
  BY <1>1, SeqMonotonic
<1> HIDE DEF Y
<1>3. [s EXCEPT ![n] = e] \in Seq(Y) /\ Len([s EXCEPT ![n] = e]) = Len(s)
  BY <1>2
<1> QED
  BY <1>3 DEF IsList

LEMMA FirstJobIs ==
  ASSUME NEW q, IsList(q), NEW N, N \subseteq 1..Len(q), NEW i, i = IF N = {} THEN 0 ELSE Min(N)
  PROVE  i # 0 => i \in 1..Len(q)
<1>1. Len(q) \in Nat
  BY DEF IsList
<1>2. N \subseteq Nat
  BY <1>1
<1> QED
  BY <1>2, NatMin

\* What the scripts' part of the timer leaves.
Runs(S, Q) == OnlyScripts(S, Q) /\ ScriptsOk(Q)

LEMMA RunsRefl ==
  ASSUME NEW S, Shape(S)
  PROVE  Runs(S, S)
BY DEF Runs, OnlyScripts, Shape, Tilt

LEMMA RunsStarted ==
  ASSUME NEW S, NEW R, Runs(S, R), NEW n \in 1..Len(R.scripts), R.running < ScriptMaxRunning, NEW forked
  PROVE  Runs(S, Started(R, n, forked)) /\ Len(Started(R, n, forked).scripts) = Len(R.scripts)
<1> DEFINE Q == Started(R, n, forked)
           new == [R.scripts EXCEPT ![n] = Forked(R.scripts[n], forked)]
           more == IF forked THEN R.running + 1 ELSE R.running
<1>1. Parts \subseteq DOMAIN R /\ ScriptsOk(R)
  BY DEF Runs, OnlyScripts
<1>2. Q = [R EXCEPT !.running = more, !.scripts = new]
  BY <1>1 DEF Started, Parts
<1> HIDE DEF Q
<1>3. IsList(new) /\ Len(new) = Len(R.scripts)
  BY <1>1, ReplaceInList DEF ScriptsOk
<1>4. more \in Int /\ more <= ScriptMaxRunning
  BY <1>1, Constants DEF ScriptsOk
<1> HIDE DEF new, more
<1>5. /\ Parts \subseteq DOMAIN Q /\ Q.tilt = R.tilt /\ Q.tiltAge = R.tiltAge /\ Q.late = R.late /\ Q.ri = R.ri
      /\ Q.wild = R.wild /\ Q.scripts = new /\ Q.running = more
  BY <1>1, <1>2 DEF Parts
<1>6. ScriptsOk(Q)
  BY <1>1, <1>3, <1>4, <1>5 DEF ScriptsOk
<1> QED
  BY <1>3, <1>5, <1>6 DEF Runs, OnlyScripts, Tilt, Q

LEMMA RunsCollected ==
  ASSUME NEW S, NEW R, Runs(S, R), NEW i \in 1..Len(R.scripts)
  PROVE  Runs(S, Collected(R, i))
<1> DEFINE Q == Collected(R, i)
           j == R.scripts[i]
           again == [j EXCEPT !.st = "scheduled", !.age = 0, !.wait = sentinelScriptRetryDelay(j.retry)]
           kept == [R.scripts EXCEPT ![i] = again]
           gone == RemoveAt(R.scripts, i)
<1>1. Parts \subseteq DOMAIN R /\ ScriptsOk(R)
  BY DEF Runs, OnlyScripts
<1>2. \/ Q = [R EXCEPT !.scripts = kept]
      \/ Q = [R EXCEPT !.scripts = gone, !.running = R.running - 1]
  BY <1>1 DEF Collected, Parts
<1> HIDE DEF Q
<1>3. IsList(kept) /\ Len(kept) = Len(R.scripts)
  BY <1>1, ReplaceInList DEF ScriptsOk
<1>4. IsList(gone) /\ Len(gone) = Len(R.scripts) - 1
  BY <1>1, RemoveAtList DEF ScriptsOk, IsList
<1> HIDE DEF kept, gone
<1>5. /\ Parts \subseteq DOMAIN Q /\ Q.tilt = R.tilt /\ Q.tiltAge = R.tiltAge /\ Q.late = R.late /\ Q.ri = R.ri
      /\ Q.wild = R.wild
      /\ \/ Q.scripts = kept /\ Q.running = R.running
         \/ Q.scripts = gone /\ Q.running = R.running - 1
  BY <1>1, <1>2 DEF Parts
<1>6. Len(R.scripts) \in Nat
  BY <1>1 DEF ScriptsOk, IsList
<1>7. ScriptsOk(Q)
  BY <1>1, <1>3, <1>4, <1>5, <1>6, Constants DEF ScriptsOk
<1> QED
  BY <1>5, <1>7 DEF Runs, OnlyScripts, Tilt, Q

LEMMA RunPendingRuns ==
  ASSUME NEW S, Shape(S), NEW forked
  PROVE  Runs(S, sentinelRunPendingScripts(S, forked))
<1> DEFINE step(R, n) ==
             IF R.running >= ScriptMaxRunning \/ IsRunning(R.scripts[n]) \/ R.scripts[n].wait > 0 THEN R
             ELSE Started(R, n, forked)
           run[n \in 0..Len(S.scripts)] == IF n = 0 THEN S ELSE step(run[n - 1], n)
           N == Len(S.scripts)
<1>1. sentinelRunPendingScripts(S, forked) = run[N]
  BY DEF sentinelRunPendingScripts
<1>2. N \in Nat
  BY DEF Shape, ScriptsOk, IsList
<1>3. ASSUME NEW R, NEW n \in 1..N, Runs(S, R), Len(R.scripts) = N
      PROVE  Runs(S, step(R, n)) /\ Len(step(R, n).scripts) = N
  <2>1. R.running \in Int
    BY <1>3 DEF Runs, ScriptsOk
  <2>2. step(R, n) = R \/ (R.running < ScriptMaxRunning /\ step(R, n) = Started(R, n, forked))
    BY <2>1, Constants
  <2> HIDE DEF step
  <2> QED
    BY <1>3, <2>2, RunsStarted
<1> HIDE DEF step
<1>4. run = [n \in 0..N |-> IF n = 0 THEN S ELSE step(run[n - 1], n)]
  <2> HIDE DEF N
  <2> DEFINE P == {m \in Nat : \E f : f = [n \in 0..m |-> IF n = 0 THEN S ELSE step(f[n - 1], n)]}
  <2>1. 0 \in P
    <3> DEFINE f == [n \in 0..0 |-> S]
    <3>1. f = [n \in 0..0 |-> IF n = 0 THEN S ELSE step(f[n - 1], n)]
      OBVIOUS
    <3> HIDE DEF f
    <3> QED
      BY <3>1
  <2>2. ASSUME NEW m \in Nat, m \in P PROVE m + 1 \in P
    <3>1. PICK f : f = [n \in 0..m |-> IF n = 0 THEN S ELSE step(f[n - 1], n)]
      BY <2>2
    <3> DEFINE g == [n \in 0..m + 1 |-> IF n = m + 1 THEN step(f[m], n) ELSE f[n]]
    <3>2. \A n \in 0..m + 1 : g[n] = IF n = 0 THEN S ELSE step(g[n - 1], n)
      <4> SUFFICES ASSUME NEW n \in 0..m + 1 PROVE g[n] = IF n = 0 THEN S ELSE step(g[n - 1], n)
        OBVIOUS
      <4>1. CASE n = m + 1
        BY <4>1
      <4>2. CASE n # m + 1
        BY <3>1, <4>2
      <4> QED
        BY <4>1, <4>2
    <3>3. g = [n \in 0..m + 1 |-> IF n = 0 THEN S ELSE step(g[n - 1], n)]
      BY <3>2
    <3> HIDE DEF g
    <3> QED
      BY <3>3
  <2>3. N \in P
    BY <1>2, <2>1, <2>2, NatSetInduction
  <2> QED
    BY <2>3 DEF N
<1> HIDE DEF run
<1>5. Runs(S, run[N])
  <2> HIDE DEF N
  <2> DEFINE P == {n \in Nat : n <= N => Runs(S, run[n]) /\ Len(run[n].scripts) = N}
  <2>1. 0 \in P
    <3>1. run[0] = S
      BY <1>2, <1>4
    <3> QED
      BY <3>1, RunsRefl DEF N
  <2>2. ASSUME NEW n \in Nat, n \in P PROVE n + 1 \in P
    <3>1. n + 1 <= N => n + 1 \in 1..N /\ n <= N
      BY <1>2
    <3>2. n + 1 <= N => run[n + 1] = step(run[n], n + 1)
      BY <1>2, <1>4
    <3> QED
      BY <1>3, <2>2, <3>1, <3>2
  <2>3. N \in P
    BY <1>2, <2>1, <2>2, NatSetInduction
  <2> QED
    BY <1>2, <2>3
<1> QED
  BY <1>1, <1>5

LEMMA CollectRuns ==
  ASSUME NEW S, Shape(S)
  PROVE  Runs(S, sentinelCollectTerminatedScripts(S))
<1> DEFINE first(q) == FirstJob(q, LAMBDA j : j.st \in Results)
           step(R, n) == LET i == first(R.scripts) IN IF i = 0 THEN R ELSE Collected(R, i)
           run[n \in 0..Len(S.scripts)] == IF n = 0 THEN S ELSE step(run[n - 1], n)
           N == Len(S.scripts)
<1>1. sentinelCollectTerminatedScripts(S) = run[N]
  BY DEF sentinelCollectTerminatedScripts
<1>2. N \in Nat
  BY DEF Shape, ScriptsOk, IsList
<1>3. ASSUME NEW R, NEW n \in 1..N, Runs(S, R)
      PROVE  Runs(S, step(R, n))
  <2> DEFINE q == R.scripts
             I == {k \in 1..Len(q) : q[k].st \in Results}
             i == first(q)
  <2>1. IsList(q)
    BY <1>3 DEF Runs, ScriptsOk
  <2> HIDE DEF q
  <2>2. i = IF I = {} THEN 0 ELSE Min(I)
    BY DEF FirstJob, SelectInSeq
  <2>3. i # 0 => i \in 1..Len(q)
    BY <2>1, <2>2, FirstJobIs
  <2>4. step(R, n) = IF i = 0 THEN R ELSE Collected(R, i)
    BY DEF q
  <2> HIDE DEF step, i
  <2> QED
    BY <1>3, <2>3, <2>4, RunsCollected DEF q
<1> HIDE DEF step
<1>4. run = [n \in 0..N |-> IF n = 0 THEN S ELSE step(run[n - 1], n)]
  <2> HIDE DEF N
  <2> DEFINE P == {m \in Nat : \E f : f = [n \in 0..m |-> IF n = 0 THEN S ELSE step(f[n - 1], n)]}
  <2>1. 0 \in P
    <3> DEFINE f == [n \in 0..0 |-> S]
    <3>1. f = [n \in 0..0 |-> IF n = 0 THEN S ELSE step(f[n - 1], n)]
      OBVIOUS
    <3> HIDE DEF f
    <3> QED
      BY <3>1
  <2>2. ASSUME NEW m \in Nat, m \in P PROVE m + 1 \in P
    <3>1. PICK f : f = [n \in 0..m |-> IF n = 0 THEN S ELSE step(f[n - 1], n)]
      BY <2>2
    <3> DEFINE g == [n \in 0..m + 1 |-> IF n = m + 1 THEN step(f[m], n) ELSE f[n]]
    <3>2. \A n \in 0..m + 1 : g[n] = IF n = 0 THEN S ELSE step(g[n - 1], n)
      <4> SUFFICES ASSUME NEW n \in 0..m + 1 PROVE g[n] = IF n = 0 THEN S ELSE step(g[n - 1], n)
        OBVIOUS
      <4>1. CASE n = m + 1
        BY <4>1
      <4>2. CASE n # m + 1
        BY <3>1, <4>2
      <4> QED
        BY <4>1, <4>2
    <3>3. g = [n \in 0..m + 1 |-> IF n = 0 THEN S ELSE step(g[n - 1], n)]
      BY <3>2
    <3> HIDE DEF g
    <3> QED
      BY <3>3
  <2>3. N \in P
    BY <1>2, <2>1, <2>2, NatSetInduction
  <2> QED
    BY <2>3 DEF N
<1> HIDE DEF run
<1>5. Runs(S, run[N])
  <2> HIDE DEF N
  <2> DEFINE P == {n \in Nat : n <= N => Runs(S, run[n])}
  <2>1. 0 \in P
    <3>1. run[0] = S
      BY <1>2, <1>4
    <3> QED
      BY <3>1, RunsRefl
  <2>2. ASSUME NEW n \in Nat, n \in P PROVE n + 1 \in P
    <3>1. n + 1 <= N => n + 1 \in 1..N /\ n <= N
      BY <1>2
    <3>2. n + 1 <= N => run[n + 1] = step(run[n], n + 1)
      BY <1>2, <1>4
    <3> QED
      BY <1>3, <2>2, <3>1, <3>2
  <2>3. N \in P
    BY <1>2, <2>1, <2>2, NatSetInduction
  <2> QED
    BY <1>2, <2>3
<1> QED
  BY <1>1, <1>5

\* A list whose jobs are replaced one by one.
LEMMA MapList ==
  ASSUME NEW q, IsList(q), NEW f, f = [n \in DOMAIN q |-> f[n]]
  PROVE  IsList(f) /\ Len(f) = Len(q)
<1>1. Len(q) \in Nat /\ DOMAIN q = 1..Len(q)
  BY DEF IsList
<1> DEFINE X == {f[n] : n \in 1..Len(q)}
<1>2. f \in [1..Len(q) -> X]
  BY <1>1
<1> HIDE DEF X
<1>3. f \in Seq(X) /\ Len(f) = Len(q)
  BY <1>1, <1>2
<1> QED
  BY <1>3 DEF IsList

LEMMA KillRuns ==
  ASSUME NEW S, Shape(S)
  PROVE  Runs(S, sentinelKillTimedoutScripts(S))
<1> DEFINE Q == sentinelKillTimedoutScripts(S)
           q == S.scripts
           f == [i \in DOMAIN q |-> IF q[i].st = "running" /\ q[i].age > ScriptMaxRuntime
                                    THEN [q[i] EXCEPT !.st = "again"] ELSE q[i]]
<1>1. Parts \subseteq DOMAIN S /\ ScriptsOk(S)
  BY DEF Shape
<1>2. Q = [S EXCEPT !.scripts = f]
  BY DEF sentinelKillTimedoutScripts
<1> HIDE DEF Q
<1>3. f = [n \in DOMAIN q |-> f[n]]
  OBVIOUS
<1> HIDE DEF f
<1>4. IsList(f) /\ Len(f) = Len(q)
  BY <1>1, <1>3, MapList DEF ScriptsOk
<1>5. /\ Parts \subseteq DOMAIN Q /\ Q.tilt = S.tilt /\ Q.tiltAge = S.tiltAge /\ Q.late = S.late /\ Q.ri = S.ri
      /\ Q.wild = S.wild /\ Q.scripts = f /\ Q.running = S.running
  BY <1>1, <1>2 DEF Parts
<1>6. ScriptsOk(Q)
  BY <1>1, <1>4, <1>5 DEF ScriptsOk
<1> QED
  BY <1>5, <1>6 DEF Runs, OnlyScripts, Tilt, Q

----------------------------------------------------------------------------
\* The timer.
\* What a step may do to a sentinel of the configuration c, as its action properties say.
Moves(S, Q, c) ==
    /\ Decided(S, Q, c)
    /\ Q.tiltAge < T.tilt => \A i \in DOMAIN S.ri : RolesSent(Q, i) \subseteq RolesSent(S, i)

LEMMA RolesSentIs ==
  ASSUME NEW S, Sane(S), NEW i
  PROVE  RolesSent(S, i) = IF i \in DOMAIN S.ri THEN RolesOf(S.ri[i]) ELSE {}
<1>1. CASE i \in DOMAIN S.ri /\ S.ri[i].cc # Nil
  <2> DEFINE r == S.ri[i]
  <2>1. r.cc \in Seq(Command) /\ r.out \in Seq(Command)
    BY <1>1 DEF Sane, Insts, InstOk, LinkOk
  <2>2. Range(r.cc \o r.out) = Range(r.cc) \cup Range(r.out)
    BY <2>1, RangeConcatenation
  <2> QED
    BY <1>1, <2>2 DEF RolesSent, RolesOf, Queued
<1>2. CASE ~(i \in DOMAIN S.ri /\ S.ri[i].cc # Nil)
  BY <1>2 DEF RolesSent, RolesOf
<1> QED
  BY <1>1, <1>2

LEMMA MuteMoves ==
  ASSUME NEW S, Sane(S), NEW Q, Sane(Q), NEW c, Decided(S, Q, c),
         Q.tiltAge < T.tilt => \A i \in DOMAIN S.ri : i \in DOMAIN Q.ri => Mute(S.ri[i], Q.ri[i])
  PROVE  Moves(S, Q, c)
BY RolesSentIs DEF Moves, Mute

LEMMA FollowsMoves ==
  ASSUME NEW S, Sane(S), NEW Q, Sane(Q), NEW c, DOMAIN Q.ri = DOMAIN S.ri, Follows(S, Q),
         \A i \in DOMAIN S.ri : Mute(S.ri[i], Q.ri[i])
  PROVE  Moves(S, Q, c)
<1>1. Decided(S, S, c) /\ MasterId \in DOMAIN S.ri
  BY MasterKey DEF Decided
<1>2. Decided(S, Q, c)
  BY <1>1, FollowsDecided
<1> QED
  BY <1>2, MuteMoves

LEMMA WorksMoves ==
  ASSUME NEW S, NEW ms, Fine(S, ms), NEW Q, Works(S, Q), NEW c
  PROVE  Fine(Q, ms) /\ Moves(S, Q, c) /\ M(Q).fstate = M(S).fstate /\ Tilt(S, Q)
<1>1. Rounds(S, Q, ms) /\ Follows(S, Q)
  BY WorksRounds
<1>2. Sane(S) /\ Sane(Q) /\ DOMAIN Q.ri = DOMAIN S.ri /\ \A i \in DOMAIN S.ri : Mute(S.ri[i], Q.ri[i])
  BY DEF Works, Silent, Fine
<1>3. Moves(S, Q, c)
  BY <1>1, <1>2, FollowsMoves
<1>4. M(Q).fstate = M(S).fstate
  BY <1>2, MasterKey DEF Works, Silent, Marked, M
<1> QED
  BY <1>1, <1>3, <1>4 DEF Rounds, Works

\* The master's new address is that of the promoted server; the old master is a slave of it now.
LEMMA SwitchedIs ==
  ASSUME NEW S, NEW ms, Fine(S, ms), NEW c
  PROVE  LET Q == Switched(S, c) IN
         /\ Fine(Q, ms) /\ Tilt(S, Q) /\ M(Q).fstate # "UPDATE_CONFIG"
         /\ \/ Q = S
            \/ ~Has(M(Q), "O_DOWN") /\ \A i \in DOMAIN Q.ri : Q.ri[i].cc = Nil
<1> DEFINE m == M(S)
           E == sentinelEvent(S, "+switch-master", c)
           R == sentinelResetMasterAndChangeAddress(E, m.promoted)
           Q == Created(R, {m.addr}, "slave", {"DEMOTE"})
<1>1. CASE m.fstate # "UPDATE_CONFIG"
  <2>1. Switched(S, c) = S
    BY <1>1 DEF Switched
  <2> QED
    BY <1>1, <2>1 DEF Tilt
<1>2. CASE m.fstate = "UPDATE_CONFIG"
  <2>1. /\ Sane(S) /\ m.promoted # Nil /\ m.promoted \in SlavesIn(S.ri) /\ m.promoted \in ms
        /\ m.addr \in Addr
    <3>1. /\ Sane(S) /\ Phase(m, PromotedIn(S.ri), BusyIn(S.ri))
          /\ m.fstate \in Promoted => m.promoted \in ms
          /\ m.promoted # Nil => m.promoted \in SlavesIn(S.ri)
      BY PhaseOf
    <3>2. m.fstate \in Promoted /\ m.promoted # Nil
      BY <1>2, <3>1 DEF Phase, Promoted
    <3> QED
      BY <3>1, <3>2, MasterKey
  <2>2. m.promoted \in Addr
    BY <2>1, Constants DEF Sane, Insts, SlavesIn, InstOk, Kind
  <2>3. Switched(S, c) = Q
    BY <1>2, <2>1 DEF Switched, sentinelFailoverSwitchToPromotedSlave
  <2> HIDE DEF m
  <2>4. Sane(E) /\ Tilt(S, E)
    BY <2>1, EventActs DEF Quiet
  <2> HIDE DEF E
  <2>5. Alone(R, m.promoted) /\ Tilt(E, R)
    BY <2>2, <2>4, ChangeAddressIs
  <2> HIDE DEF R
  <2>6. Fine(R, ms) /\ Sane(R)
    BY <2>1, <2>5, AloneFine DEF Fine
  <2>7. IsFiniteSet({m.addr}) /\ \A i \in {m.addr} : Kind(i) = "slave"
    BY <2>1, FS_Singleton, Constants DEF Kind
  <2> DEFINE ids == {m.addr}
  <2>8. m.addr # MasterId /\ m.addr \notin DOMAIN R.ri
    BY <2>1, <2>5, Constants DEF Alone
  <2>9. /\ Sane(Q) /\ OnlyRi(R, Q) /\ DOMAIN Q.ri = DOMAIN R.ri \cup ids
        /\ \A i \in DOMAIN R.ri : Q.ri[i] = R.ri[i]
        /\ \A i \in ids \ DOMAIN R.ri : Q.ri[i] = createSentinelRedisInstance("slave", i, {"DEMOTE"})
    <3> HIDE DEF ids
    <3> DEFINE Z == Created(R, ids, "slave", {"DEMOTE"})
    <3>1. /\ Sane(Z) /\ OnlyRi(R, Z) /\ DOMAIN Z.ri = DOMAIN R.ri \cup ids
          /\ \A i \in DOMAIN R.ri : Z.ri[i] = R.ri[i]
          /\ \A i \in ids \ DOMAIN R.ri : Z.ri[i] = createSentinelRedisInstance("slave", i, {"DEMOTE"})
      BY <2>6, <2>7, CreatedIs DEF ids
    <3> QED
      BY <3>1 DEF ids
  <2> HIDE DEF Q
  <2>10. LET r == createSentinelRedisInstance("slave", m.addr, {"DEMOTE"}) IN
         r.type = "slave" /\ r.flags = {"DEMOTE"} \cup {"DISCONNECTED"} /\ r.cc = Nil
    BY <2>7, NewInst
  <2>11. /\ Q.ri[m.addr].type = "slave" /\ Q.ri[m.addr].flags = {"DEMOTE", "DISCONNECTED"} /\ Q.ri[m.addr].cc = Nil
         /\ DOMAIN Q.ri = {MasterId, m.addr} /\ M(Q) = M(R) /\ Q.ri[MasterId] = M(R)
    <3> HIDE DEF createSentinelRedisInstance
    <3>1. Q.ri[m.addr] = createSentinelRedisInstance("slave", m.addr, {"DEMOTE"})
      BY <2>8, <2>9
    <3> QED
      BY <2>5, <2>9, <2>10, <3>1 DEF Alone, M
  <2>12. M(R).type = "master" /\ M(R) = R.ri[MasterId] /\ M(R).cc = Nil /\ M(R).fstate = "NONE" /\ ~Has(M(R), "O_DOWN")
    BY <2>5, <2>6, MasterKey DEF Alone, M, Has
  <2>13. PromotedIn(Q.ri) = {} /\ BusyIn(Q.ri) = {}
    BY <2>11, <2>12 DEF PromotedIn, BusyIn, SlavesIn, Has
  <2>14. PromotedIn(R.ri) = {} /\ BusyIn(R.ri) = {}
    BY <2>5, <2>12 DEF PromotedIn, BusyIn, SlavesIn, Alone
  <2>15. Runids(Q.ri)
    BY <2>11, <2>12 DEF Runids
  <2>16. Fine(Q, ms)
    BY <2>6, <2>9, <2>11, <2>12, <2>13, <2>14, <2>15 DEF Fine, FailoverOk, Named
  <2>17. \A i \in DOMAIN Q.ri : Q.ri[i].cc = Nil
    BY <2>11, <2>12
  <2> QED
    BY <2>3, <2>4, <2>5, <2>9, <2>11, <2>12, <2>16, <2>17 DEF Tilt, OnlyRi
<1> QED
  BY <1>1, <1>2

LEMMA RunsFine ==
  ASSUME NEW S, NEW ms, Fine(S, ms), NEW Q, Runs(S, Q)
  PROVE  Fine(Q, ms) /\ Tilt(S, Q) /\ Q.ri = S.ri
<1>1. Shape(Q)
  BY ShapeScripts DEF Runs, Fine, Sane
<1> QED
  BY <1>1 DEF Runs, OnlyScripts, Fine, Sane

LEMMA TimerIs ==
  ASSUME NEW S, NEW ms, Fine(S, ms), NEW delay, NEW forked, NEW c
  PROVE  LET Q == sentinelTimer(S, delay, forked, c) IN
         Fine(Q, ms) /\ M(Q).fstate # "UPDATE_CONFIG" /\ Moves(S, Q, c)
<1> DEFINE W == Written(S)
           C == sentinelCheckTiltCondition(W)
           H == Handled(C, delay, c)
           X == Switched(H, c)
           P == sentinelRunPendingScripts(X, forked)
           Y == sentinelCollectTerminatedScripts(P)
           Q == sentinelKillTimedoutScripts(Y)
<1>1. Sane(S) /\ Works(S, W)
  BY WrittenWorks DEF Fine
<1> HIDE DEF W
<1>2. Rounds(S, W, ms) /\ Follows(S, W) /\ \A i \in DOMAIN S.ri : Mute(S.ri[i], W.ri[i])
  BY <1>1, WorksRounds DEF Works, Silent
<1>3. Fine(C, ms) /\ C.ri = W.ri
  <2>1. Fine(W, ms) /\ Parts \subseteq DOMAIN W
    BY <1>2 DEF Rounds, Fine, Sane, Shape
  <2>2. CASE ~W.late
    BY <2>1, <2>2 DEF sentinelCheckTiltCondition
  <2>3. CASE W.late
    <3>1. /\ Parts \subseteq DOMAIN C /\ C.ri = W.ri /\ C.tilt = TRUE /\ C.tiltAge = 0 /\ C.scripts = W.scripts
          /\ C.running = W.running /\ C.wild = W.wild
      BY <2>1, <2>3 DEF sentinelCheckTiltCondition, Parts
    <3> QED
      BY <2>1, <3>1 DEF Fine, Sane, Shape, ScriptsOk
  <2> QED
    BY <2>2, <2>3
<1> HIDE DEF C
<1>4. Rounds(C, H, ms) /\ Decided(C, H, c)
  BY <1>3, HandledIs
<1> HIDE DEF H
<1>5. Fine(H, ms)
  BY <1>4 DEF Rounds
<1>6. /\ Fine(X, ms) /\ Tilt(H, X) /\ M(X).fstate # "UPDATE_CONFIG"
      /\ \/ X = H
         \/ ~Has(M(X), "O_DOWN") /\ \A i \in DOMAIN X.ri : X.ri[i].cc = Nil
  BY <1>5, SwitchedIs
<1> HIDE DEF X
<1>7. Runs(X, P)
  BY <1>6, RunPendingRuns DEF Fine, Sane
<1> HIDE DEF P
<1>8. Fine(P, ms) /\ Tilt(X, P) /\ P.ri = X.ri
  BY <1>6, <1>7, RunsFine
<1>9. Runs(P, Y)
  BY <1>8, CollectRuns DEF Fine, Sane
<1> HIDE DEF Y
<1>10. Fine(Y, ms) /\ Tilt(P, Y) /\ Y.ri = P.ri
  BY <1>8, <1>9, RunsFine
<1>11. Runs(Y, Q)
  BY <1>10, KillRuns DEF Fine, Sane
<1> HIDE DEF Q
<1>12. Fine(Q, ms) /\ Tilt(Y, Q) /\ Q.ri = Y.ri
  BY <1>10, <1>11, RunsFine
<1>13. Fine(Q, ms) /\ Q.ri = X.ri /\ Q.tiltAge = C.tiltAge
  BY <1>4, <1>6, <1>8, <1>10, <1>12 DEF Tilt, Rounds
<1>14. Decided(S, H, c)
  <2>1. Has(M(C), "O_DOWN") => Has(M(S), "O_DOWN")
    BY <1>1, <1>2, <1>3, MasterKey DEF M, Follows, Answers
  <2> QED
    BY <1>4, <2>1 DEF Decided
<1>15. Decided(S, Q, c)
  BY <1>6, <1>13, <1>14 DEF Decided, M
<1>16. Q.tiltAge < T.tilt => \A i \in DOMAIN S.ri : i \in DOMAIN Q.ri => Mute(S.ri[i], Q.ri[i])
  <2>1. CASE X = H
    BY <1>2, <1>3, <1>4, <1>13, <2>1 DEF Rounds, Mute
  <2>2. CASE \A i \in DOMAIN X.ri : X.ri[i].cc = Nil
    BY <1>13, <2>2 DEF Mute, RolesOf
  <2> QED
    BY <1>6, <2>1, <2>2
<1>17. Moves(S, Q, c)
  BY <1>1, <1>12, <1>15, <1>16, MuteMoves DEF Fine
<1>18. Q = sentinelTimer(S, delay, forked, c)
  BY DEF Q, Y, P, X, H, C, W, sentinelTimer, sentinelHandleDictOfRedisInstances
<1> QED
  BY <1>6, <1>12, <1>13, <1>17, <1>18 DEF M

----------------------------------------------------------------------------
\* The replies.
\* What a callback does to a sentinel that has no address to switch.
Goes(S, Q, ms) ==
    /\ Fine(Q, ms) /\ Tilt(S, Q) /\ M(Q).fstate # "UPDATE_CONFIG"
    /\ Has(M(Q), "O_DOWN") => Has(M(S), "O_DOWN")
    /\ S.tiltAge < T.tilt => \A i : RolesSent(Q, i) \subseteq RolesSent(S, i)

LEMMA GoesTrans ==
  ASSUME NEW S, NEW Q, NEW R, NEW ms, NEW mt, Goes(S, Q, ms), Goes(Q, R, mt)
  PROVE  Goes(S, R, mt)
BY DEF Goes, Tilt

LEMMA GoesMoves ==
  ASSUME NEW S, NEW Q, NEW ms, Goes(S, Q, ms), NEW c
  PROVE  Moves(S, Q, c)
BY DEF Goes, Moves, Decided, Tilt

LEMMA MuteGoes ==
  ASSUME NEW S, NEW Q, NEW ms, Sane(S), Fine(Q, ms), Tilt(S, Q), M(Q).fstate # "UPDATE_CONFIG",
         Has(M(Q), "O_DOWN") => Has(M(S), "O_DOWN"),
         S.tiltAge < T.tilt => \A i \in DOMAIN Q.ri : IF i \in DOMAIN S.ri THEN Mute(S.ri[i], Q.ri[i]) ELSE RolesOf(Q.ri[i]) = {}
  PROVE  Goes(S, Q, ms)
<1>1. Sane(Q)
  BY DEF Fine
<1> QED
  BY <1>1, RolesSentIs DEF Goes, Mute

LEMMA WorksGoes ==
  ASSUME NEW S, NEW ms, Fine(S, ms), M(S).fstate # "UPDATE_CONFIG", NEW Q, Works(S, Q)
  PROVE  Goes(S, Q, ms)
<1>1. Sane(S) /\ Sane(Q) /\ MasterId \in DOMAIN S.ri
  BY MasterKey DEF Fine, Works
<1>2. Fine(Q, ms) /\ M(Q).fstate = M(S).fstate /\ Tilt(S, Q)
  BY WorksMoves
<1>3. Has(M(Q), "O_DOWN") => Has(M(S), "O_DOWN")
  BY <1>1 DEF Works, Silent, Answers, M
<1>4. \A i \in DOMAIN Q.ri : i \in DOMAIN S.ri /\ Mute(S.ri[i], Q.ri[i])
  BY DEF Works, Silent
<1> QED
  BY <1>1, <1>2, <1>3, <1>4, MuteGoes

\* Outside the TILT mode.
LEMMA StepsGoes ==
  ASSUME NEW S, NEW ms, Sane(S), ~S.tilt, NEW Q, Steps(S, Q, ms), M(Q).fstate # "UPDATE_CONFIG"
  PROVE  Goes(S, Q, ms)
<1>1. ~(S.tiltAge < T.tilt)
  BY DEF Sane, Shape
<1>2. Has(M(Q), "O_DOWN") => Has(M(S), "O_DOWN")
  BY MasterKey DEF Steps, Acts, Answers, M
<1> QED
  BY <1>1, <1>2 DEF Goes, Steps, Acts

LEMMA GoesRefl ==
  ASSUME NEW S, NEW ms, Fine(S, ms), M(S).fstate # "UPDATE_CONFIG"
  PROVE  Goes(S, S, ms)
BY DEF Goes, Tilt

LEMMA EventGoes ==
  ASSUME NEW S, NEW ms, Fine(S, ms), M(S).fstate # "UPDATE_CONFIG", NEW type, NEW c
  PROVE  Goes(S, sentinelEvent(S, type, c), ms) /\ sentinelEvent(S, type, c).ri = S.ri
<1>1. Sane(S) /\ Shape(S)
  BY DEF Fine, Sane
<1>2. Works(S, sentinelEvent(S, type, c))
  BY <1>1, EventIs, WorksScripts
<1> QED
  BY <1>1, <1>2, WorksGoes, EventActs

\* What INFO says of the server at the address a.
InfoOk(info, a, ms) ==
    /\ info.role \in {"master", "slave"} /\ info.prio \in Nat /\ info.slaves \subseteq Addr
    /\ info.role = "master" => a \in ms
    /\ info.role = "slave" => info.of \in Addr /\ info.of \in ms

LEMMA RefreshedWorks ==
  ASSUME NEW S, Sane(S), NEW i \in DOMAIN S.ri, S.ri[i].type # "sentinel", NEW info, info.prio \in Nat
  PROVE  Works(S, Set(S, i, Refreshed(S.ri[i], info)))
<1> DEFINE r == S.ri[i]
           q == Refreshed(r, info)
<1>1. InstOk(i, r)
  BY DEF Sane, Insts
<1>2. /\ Key \subseteq DOMAIN q /\ q.type = r.type /\ q.addr = r.addr /\ q.flags = r.flags /\ q.cc = r.cc
      /\ q.out = r.out /\ q.pend = r.pend /\ q.md = r.md /\ q.prio \in Nat /\ q.fstate = r.fstate /\ q.promoted = r.promoted
  BY <1>1, InstFields DEF Refreshed, Key
<1> HIDE DEF q
<1>3. InstOk(i, q) /\ Mute(r, q)
  BY <1>1, <1>2, InstSame, InstFields DEF Has
<1>4. Silent(r, q)
  BY <1>2, <1>3 DEF Silent, Keeps, Marked, Answers, Has
<1> QED
  BY <1>3, <1>4, WorksSet DEF q

LEMMA CreatedGoes ==
  ASSUME NEW S, NEW ms, Fine(S, ms), M(S).fstate # "UPDATE_CONFIG", NEW ids, ids \subseteq Addr
  PROVE  Goes(S, Created(S, ids, "slave", {}), ms)
<1> DEFINE none == {}
           Q == Created(S, ids, "slave", none)
<1> HIDE DEF none
<1>1. IsFiniteSet(ids)
  BY FS_Subset, Constants
<1>12. \A i \in ids : Kind(i) = "slave"
  BY Constants DEF Kind
<1>21. Sane(S)
  BY DEF Fine
<1>2. Sane(S) /\ MasterId \in DOMAIN S.ri
  BY MasterKey DEF Fine
<1>3. /\ Sane(Q) /\ OnlyRi(S, Q) /\ DOMAIN Q.ri = DOMAIN S.ri \cup ids
      /\ \A i \in DOMAIN S.ri : Q.ri[i] = S.ri[i]
      /\ \A i \in ids \ DOMAIN S.ri : Q.ri[i] = createSentinelRedisInstance("slave", i, none)
  BY ONLY <1>1, <1>12, <1>21, CreatedIs
<1> HIDE DEF Q
<1>4. ASSUME NEW i \in ids \ DOMAIN S.ri
      PROVE  /\ Q.ri[i].type = "slave" /\ Q.ri[i].flags = {"DISCONNECTED"} /\ Q.ri[i].cc = Nil
  <2> DEFINE r == createSentinelRedisInstance("slave", i, none)
  <2>1. r.type = "slave" /\ r.flags = none \cup {"DISCONNECTED"} /\ r.cc = Nil
    BY <1>12, NewInst
  <2> HIDE DEF r
  <2>2. Q.ri[i] = r
    BY <1>3 DEF r
  <2> QED
    BY <2>1, <2>2 DEF none
<1>5. PromotedIn(Q.ri) = PromotedIn(S.ri) /\ BusyIn(Q.ri) = BusyIn(S.ri)
  BY <1>3, <1>4 DEF PromotedIn, BusyIn, SlavesIn, Has
<1>6. Runids(Q.ri)
  <2>1. \A i \in DOMAIN Q.ri : Q.ri[i].type = "sentinel" => i \in DOMAIN S.ri
    BY <1>3, <1>4
  <2> QED
    BY <1>3, <2>1 DEF Runids, Fine
<1>7. M(Q) = M(S) /\ Q.ri[MasterId] = S.ri[MasterId]
  BY <1>2, <1>3 DEF M
<1>8. Fine(Q, ms)
  BY <1>3, <1>5, <1>6, <1>7 DEF Fine, FailoverOk, Named
<1>9. \A i \in DOMAIN Q.ri : IF i \in DOMAIN S.ri THEN Mute(S.ri[i], Q.ri[i]) ELSE RolesOf(Q.ri[i]) = {}
  BY <1>3, <1>4 DEF Mute, RolesOf
<1>10. Goes(S, Q, ms)
  BY <1>2, <1>3, <1>7, <1>8, <1>9, MuteGoes DEF OnlyRi
<1> QED
  BY <1>10 DEF Q, none

LEMMA RedirectGoes ==
  ASSUME NEW S, Sane(S), NEW a \in Addr, NEW ms, a \in ms
  PROVE  Goes(S, sentinelResetMasterAndChangeAddress(S, a), ms)
<1> DEFINE Q == sentinelResetMasterAndChangeAddress(S, a)
<1>1. Alone(Q, a) /\ Tilt(S, Q)
  BY ChangeAddressIs
<1> HIDE DEF Q
<1>2. Fine(Q, ms)
  BY <1>1, AloneFine
<1>3. \A i \in DOMAIN Q.ri : RolesOf(Q.ri[i]) = {}
  BY <1>1 DEF Alone, RolesOf, M
<1>4. \A i \in DOMAIN Q.ri : IF i \in DOMAIN S.ri THEN Mute(S.ri[i], Q.ri[i]) ELSE RolesOf(Q.ri[i]) = {}
  BY <1>3 DEF Mute
<1>5. M(Q).fstate # "UPDATE_CONFIG" /\ ~Has(M(Q), "O_DOWN")
  BY <1>1 DEF Alone, Has
<1> QED
  BY <1>1, <1>2, <1>4, <1>5, MuteGoes DEF Q

\* An instance keeps its part in the failover, whatever flags of it change besides.
LEMMA FlagsSlave ==
  ASSUME NEW S, NEW ms, Fine(S, ms), NEW i \in SlavesIn(S.ri), NEW q, Key \subseteq DOMAIN q,
         q.type = S.ri[i].type, q.addr = S.ri[i].addr, q.runid = S.ri[i].runid, q.cc = S.ri[i].cc, q.out = S.ri[i].out,
         q.pend = S.ri[i].pend, q.md = S.ri[i].md, q.prio = S.ri[i].prio, q.fstate = S.ri[i].fstate,
         q.promoted = S.ri[i].promoted,
         \A f \in {"DISCONNECTED", "MASTER_DOWN", "O_DOWN", "PROMOTED"} : Has(q, f) <=> Has(S.ri[i], f),
         Has(q, "RECONF_SENT") \/ Has(q, "RECONF_INPROG") => Has(S.ri[i], "RECONF_SENT") \/ Has(S.ri[i], "RECONF_INPROG")
  PROVE  /\ Steps(S, Set(S, i, q), ms) /\ M(Set(S, i, q)) = M(S)
         /\ \A j \in DOMAIN S.ri : Mute(S.ri[j], Set(S, i, q).ri[j])
         /\ PromotedIn(Set(S, i, q).ri) = PromotedIn(S.ri)
<1> DEFINE r == S.ri[i]
           Q == Set(S, i, q)
<1>0. i \in DOMAIN S.ri /\ Sane(S) /\ InstOk(i, r)
  BY DEF SlavesIn, Fine, Sane, Insts
<1>1. InstOk(i, q) /\ Mute(r, q)
  BY <1>0, InstSame, InstFields
<1>2. Keeps(r, q) /\ Answers(r, q)
  BY DEF Keeps, Answers
<1>3. /\ Acts(S, Q) /\ M(Q) = M(S) /\ SlavesIn(Q.ri) = SlavesIn(S.ri) /\ Q.ri[i] = q
      /\ \A j \in DOMAIN S.ri : j # i => Q.ri[j] = S.ri[j]
  BY <1>0, <1>1, <1>2, SlaveSet
<1> HIDE DEF Q
<1>4. PromotedIn(Q.ri) = PromotedIn(S.ri) /\ BusyIn(Q.ri) \subseteq BusyIn(S.ri)
  BY <1>3 DEF PromotedIn, BusyIn, SlavesIn
<1>5. Phase(M(S), PromotedIn(S.ri), BusyIn(S.ri)) /\ (M(S).fstate \in Promoted => M(S).promoted \in ms)
  BY PhaseOf
<1>6. Phase(M(Q), PromotedIn(Q.ri), BusyIn(Q.ri))
  BY <1>3, <1>4, <1>5 DEF Phase
<1>7. Steps(S, Q, ms)
  BY <1>3, <1>5, <1>6, StepBy
<1>8. \A j \in DOMAIN S.ri : Mute(S.ri[j], Q.ri[j])
  BY <1>1, <1>3 DEF Mute
<1> QED
  BY <1>3, <1>4, <1>7, <1>8 DEF Q

LEMMA DemoteSteps ==
  ASSUME NEW S, NEW ms, Fine(S, ms), NEW i \in SlavesIn(S.ri), S.ri[i].cc # Nil
  PROVE  Steps(S, Demote(S, i), ms) /\ M(Demote(S, i)) = M(S)
<1> DEFINE r == S.ri[i]
           told == SendUncounted(r, <<"SLAVEOF", M(S).addr>>)
           q == [r EXCEPT !.flags = r.flags \ {"DEMOTE"}]
<1>0. Sane(S) /\ InstOk(i, r) /\ M(S).addr \in Addr /\ r.type = "slave"
  BY MasterKey DEF SlavesIn, Fine, Sane, Insts
<1>1. Steps(S, Set(S, i, told), ms) /\ M(Set(S, i, told)) = M(S)
  <2>1. InstOk(i, told) /\ Keeps(r, told) /\ Marked(r, told) /\ Answers(r, told)
    BY <1>0, InstTold, CommandsAre
  <2> HIDE DEF told
  <2> QED
    BY <2>1, SlaveSteps
<1>2. Steps(S, Set(S, i, q), ms) /\ M(Set(S, i, q)) = M(S)
  <2>1. /\ Key \subseteq DOMAIN q /\ q.type = r.type /\ q.addr = r.addr /\ q.flags = r.flags \ {"DEMOTE"} /\ q.cc = r.cc
        /\ q.out = r.out /\ q.pend = r.pend /\ q.md = r.md /\ q.prio = r.prio /\ q.fstate = r.fstate
        /\ q.promoted = r.promoted /\ q.runid = r.runid
    BY <1>0, InstFields DEF Key
  <2>2. \A f : f # "DEMOTE" => (Has(q, f) <=> Has(r, f))
    BY <2>1 DEF Has
  <2> HIDE DEF q
  <2>3. \A f \in {"DISCONNECTED", "MASTER_DOWN", "O_DOWN", "PROMOTED"} : Has(q, f) <=> Has(r, f)
    BY <2>2
  <2>4. Has(q, "RECONF_SENT") \/ Has(q, "RECONF_INPROG") => Has(r, "RECONF_SENT") \/ Has(r, "RECONF_INPROG")
    BY <2>2
  <2> QED
    BY <2>1, <2>3, <2>4, FlagsSlave
<1>3. \/ Demote(S, i) = S
      \/ Demote(S, i) = Set(S, i, told)
      \/ Demote(S, i) = Set(S, i, q)
  BY DEF Demote
<1> HIDE DEF told, q
<1> QED
  BY <1>1, <1>2, <1>3, StepsRefl

LEMMA ObserveSteps ==
  ASSUME NEW S, NEW ms, Fine(S, ms), NEW i \in SlavesIn(S.ri), i \in ms, NEW c,
         ~Has(M(S), "FAILOVER_IN_PROGRESS") \/ M(S).fstate = "WAIT_START"
  PROVE  Steps(S, Observe(S, i, c), ms) /\ M(Observe(S, i, c)).fstate = "DETECT_END"
<1> DEFINE A == IF Has(M(S), "FAILOVER_IN_PROGRESS")
                THEN sentinelAbortFailover(sentinelEvent(S, "-failover-abort-race", c), c) ELSE S
           B == sentinelEvent(A, "+failover-detected", c)
           P == Elected(B, i, "DETECT_END")
           m == [M(P) EXCEPT !.flags = M(P).flags \cup {"FAILOVER_IN_PROGRESS"}]
           F == Set(P, MasterId, m)
           q == [F.ri[i] EXCEPT !.flags = F.ri[i].flags \ {"DEMOTE"}]
           D == Set(F, i, q)
           R == sentinelCallClientReconfScript(D, "start", c)
           Q == Flagged(R, {"RECONF_SENT"})
<1>1. Steps(S, A, ms) /\ M(A).fstate = "NONE"
  <2>1. Phase(M(S), PromotedIn(S.ri), BusyIn(S.ri))
    BY PhaseOf
  <2> QED
    BY <2>1, AbortSteps, StepsRefl DEF Phase
<1> HIDE DEF A
<1>2. Steps(S, B, ms) /\ M(B).fstate = "NONE"
  BY <1>1, StepsEvent DEF M
<1> HIDE DEF B
<1>3. Fine(B, ms) /\ Sane(B) /\ Phase(M(B), PromotedIn(B.ri), BusyIn(B.ri)) /\ i \in SlavesIn(B.ri)
  BY <1>2, PhaseOf DEF Steps, Acts, Keeps, SlavesIn
<1>4. /\ PromotedIn(B.ri) = {} /\ BusyIn(B.ri) = {}
      /\ ~Has(M(B), "FAILOVER_IN_PROGRESS") /\ ~Has(M(B), "I_AM_THE_LEADER")
  BY <1>2, <1>3 DEF Phase, Promoted
<1> DEFINE state == "DETECT_END"
<1> HIDE DEF state
<1>5. /\ Acts(B, P) /\ Sane(P)
      /\ M(P).fstate = "DETECT_END" /\ M(P).promoted = i /\ M(P).flags = M(B).flags /\ M(P).addr = M(B).addr
      /\ PromotedIn(P.ri) = {i} /\ BusyIn(P.ri) = {}
  <2> DEFINE Z == Elected(B, i, state)
  <2>1. /\ Acts(B, Z) /\ Sane(Z)
        /\ M(Z).fstate = state /\ M(Z).promoted = i /\ M(Z).flags = M(B).flags /\ M(Z).addr = M(B).addr
        /\ PromotedIn(Z.ri) = PromotedIn(B.ri) \cup {i} /\ BusyIn(Z.ri) = BusyIn(B.ri)
    BY <1>3, ElectedIs
  <2>2. Z = P
    BY DEF state
  <2> HIDE DEF Z, P
  <2> QED
    BY <1>4, <2>1, <2>2 DEF state
<1> HIDE DEF P
<1>6. /\ MasterLike(M(P), m) /\ m.fstate = "DETECT_END" /\ m.promoted = i
      /\ Has(m, "FAILOVER_IN_PROGRESS") /\ ~Has(m, "I_AM_THE_LEADER")
  <2>1. /\ m.fstate = M(P).fstate /\ m.promoted = M(P).promoted /\ m.addr = M(P).addr
        /\ m.flags = M(P).flags \cup {"FAILOVER_IN_PROGRESS"}
        /\ Key \subseteq DOMAIN m /\ m.type = M(P).type /\ m.runid = M(P).runid /\ m.cc = M(P).cc
        /\ m.out = M(P).out /\ m.pend = M(P).pend /\ m.md = M(P).md /\ m.prio = M(P).prio
    BY <1>5, MasterKey DEF Key
  <2> HIDE DEF m
  <2> QED
    BY <1>4, <1>5, <2>1 DEF MasterLike, Has
<1> HIDE DEF m
<1>7. Acts(P, F) /\ Sane(F) /\ M(F) = m /\ PromotedIn(F.ri) = {i} /\ BusyIn(F.ri) = {}
  BY <1>5, <1>6, MasterSet
<1> HIDE DEF F
<1>8. Acts(S, F)
  BY <1>2, <1>5, <1>7, ActsTrans DEF Steps
<1>9. Phase(M(F), PromotedIn(F.ri), BusyIn(F.ri))
  <2>1. i # Nil
    BY <1>3, Constants DEF SlavesIn, Sane, Insts, InstOk, Kind
  <2> QED
    BY <1>6, <1>7, <2>1 DEF Phase, States, Promoted
<1>10. Steps(S, F, ms)
  BY <1>6, <1>7, <1>8, <1>9, StepBy
<1>11. Fine(F, ms) /\ i \in SlavesIn(F.ri) /\ InstOk(i, F.ri[i])
  BY <1>7, <1>10 DEF Steps, PromotedIn, Sane, Insts, SlavesIn
<1>12. Steps(F, D, ms) /\ M(D) = M(F)
  <2> DEFINE r == F.ri[i]
  <2>1. /\ Key \subseteq DOMAIN q /\ q.type = r.type /\ q.addr = r.addr /\ q.flags = r.flags \ {"DEMOTE"} /\ q.cc = r.cc
        /\ q.out = r.out /\ q.pend = r.pend /\ q.md = r.md /\ q.prio = r.prio /\ q.fstate = r.fstate
        /\ q.promoted = r.promoted /\ q.runid = r.runid
    BY <1>11, InstFields DEF Key
  <2>2. \A f : f # "DEMOTE" => (Has(q, f) <=> Has(r, f))
    BY <2>1 DEF Has
  <2> HIDE DEF q
  <2>3. \A f \in {"DISCONNECTED", "MASTER_DOWN", "O_DOWN", "PROMOTED"} : Has(q, f) <=> Has(r, f)
    BY <2>2
  <2>4. Has(q, "RECONF_SENT") \/ Has(q, "RECONF_INPROG") => Has(r, "RECONF_SENT") \/ Has(r, "RECONF_INPROG")
    BY <2>2
  <2> QED
    BY <1>11, <2>1, <2>3, <2>4, FlagsSlave
<1> HIDE DEF q, D
<1>13. Steps(S, D, ms) /\ M(D) = M(F)
  BY <1>10, <1>12, StepsTrans
<1> HIDE DEF R
<1>14. Steps(S, R, ms) /\ M(R) = M(F)
  BY <1>13, StepsEvent DEF R, M
<1>15. Steps(R, Q, ms) /\ M(Q) = M(R)
  BY <1>6, <1>7, <1>14, FlaggedSteps DEF Steps, Promoted
<1>16. Steps(S, Q, ms)
  BY <1>14, <1>15, StepsTrans
<1>17. Q = Observe(S, i, c)
  BY DEF Observe, Q, R, D, q, F, m, P, B, A
<1> QED
  BY <1>6, <1>7, <1>14, <1>15, <1>16, <1>17

\* A slave is forgotten, outside a failover.
LEMMA RemovedGoes ==
  ASSUME NEW S, NEW ms, Fine(S, ms), ~Has(M(S), "FAILOVER_IN_PROGRESS"), NEW i \in SlavesIn(S.ri)
  PROVE  Goes(S, Removed(S, {i}), ms)
<1> DEFINE ids == {i}
           Q == Removed(S, ids)
<1>1. Sane(S) /\ ids \subseteq DOMAIN S.ri /\ MasterId \notin ids /\ MasterId \in DOMAIN S.ri
  BY MasterKey DEF Fine, SlavesIn, M
<1> HIDE DEF ids
<1>2. /\ Sane(Q) /\ Tilt(S, Q) /\ DOMAIN Q.ri = DOMAIN S.ri \ ids
      /\ \A j \in DOMAIN S.ri \ ids : Q.ri[j] = S.ri[j]
  BY <1>1, RemovedIs
<1> HIDE DEF Q
<1>3. M(Q) = M(S) /\ Q.ri[MasterId] = S.ri[MasterId]
  BY <1>1, <1>2 DEF M
<1>4. Phase(M(S), PromotedIn(S.ri), BusyIn(S.ri)) /\ M(S).fstate = "NONE" /\ M(S).addr \in ms
  BY PhaseOf DEF Phase
<1>5. PromotedIn(S.ri) = {} /\ BusyIn(S.ri) = {} /\ M(S).promoted = Nil
  BY <1>4 DEF Phase, Promoted
<1>6. PromotedIn(Q.ri) = {} /\ BusyIn(Q.ri) = {}
  BY <1>2, <1>5 DEF PromotedIn, BusyIn, SlavesIn
<1>7. Runids(Q.ri)
  <2>1. Runids(S.ri)
    BY DEF Fine
  <2> QED
    BY <1>2, <2>1 DEF Runids
<1>8. Fine(Q, ms)
  <2>1. FailoverOk(Q.ri)
    BY <1>3, <1>4, <1>5, <1>6 DEF FailoverOk, M
  <2>2. Named(Q.ri, ms)
    BY <1>3, <1>4 DEF Named, M, Promoted
  <2> QED
    BY <1>2, <1>7, <2>1, <2>2 DEF Fine
<1>9. \A j \in DOMAIN Q.ri : IF j \in DOMAIN S.ri THEN Mute(S.ri[j], Q.ri[j]) ELSE RolesOf(Q.ri[j]) = {}
  BY <1>2 DEF Mute
<1>10. Goes(S, Q, ms)
  BY <1>1, <1>2, <1>3, <1>4, <1>8, <1>9, MuteGoes
<1> QED
  BY <1>10 DEF Q, ids

LEMMA PromotionSteps ==
  ASSUME NEW S, NEW ms, Fine(S, ms), M(S).fstate = "WAIT_PROMOTION", M(S).promoted \in ms, NEW c
  PROVE  LET Q == sentinelCallClientReconfScript(
                      sentinelEvent(sentinelEvent(Progress(S, "RECONF_SLAVES"), "+promoted-slave", c),
                                    "+failover-state-reconf-slaves", c), "start", c)
         IN  Steps(S, Q, ms) /\ M(Q).fstate = "RECONF_SLAVES"
<1> DEFINE state == "RECONF_SLAVES"
           P == Progress(S, state)
           A == sentinelEvent(P, "+promoted-slave", c)
           B == sentinelEvent(A, "+failover-state-reconf-slaves", c)
           Q == sentinelCallClientReconfScript(B, "start", c)
<1>1. Sane(S) /\ Phase(M(S), PromotedIn(S.ri), BusyIn(S.ri))
  BY PhaseOf
<1> HIDE DEF state
<1>2. /\ Acts(S, P) /\ Sane(P)
      /\ M(P).fstate = state /\ M(P).promoted = M(S).promoted /\ M(P).flags = M(S).flags /\ M(P).addr = M(S).addr
      /\ PromotedIn(P.ri) = PromotedIn(S.ri) /\ BusyIn(P.ri) = BusyIn(S.ri)
  BY <1>1, ProgressIs
<1> HIDE DEF P
<1>3. Phase(M(P), PromotedIn(P.ri), BusyIn(P.ri))
  BY <1>1, <1>2 DEF Phase, States, Promoted, Has, state
<1>4. Steps(S, P, ms) /\ M(P).fstate = "RECONF_SLAVES"
  BY <1>2, <1>3, StepBy DEF state
<1>5. Steps(S, A, ms) /\ M(A) = M(P)
  BY <1>4, StepsEvent DEF M
<1> HIDE DEF A
<1>6. Steps(S, B, ms) /\ M(B) = M(P)
  BY <1>5, StepsEvent DEF M
<1> HIDE DEF B
<1>7. Steps(S, Q, ms) /\ M(Q) = M(P)
  BY <1>6, StepsEvent DEF M
<1> HIDE DEF Q
<1> QED
  BY <1>4, <1>7 DEF Q, B, A, P, state

\* The slave says it is a master.
LEMMA RoleSwitchGoes ==
  ASSUME NEW S, NEW ms, Fine(S, ms), M(S).fstate # "UPDATE_CONFIG", NEW i \in SlavesIn(S.ri), S.ri[i].cc # Nil, i \in ms,
         NEW reboot, NEW c
  PROVE  LET W == RoleSwitch(S, i, reboot, c) IN
         Goes(S, W.S, ms) /\ (~W.done => i \in SlavesIn(W.S.ri))
<1> DEFINE W == RoleSwitch(S, i, reboot, c)
           r == S.ri[i]
           m == M(S)
           inprog == Has(m, "FAILOVER_IN_PROGRESS")
           leads == inprog /\ Has(m, "I_AM_THE_LEADER")
           E == sentinelEvent(S, "-slave-restart-as-master", c)
           promotion == sentinelCallClientReconfScript(
                         sentinelEvent(sentinelEvent(Progress(S, "RECONF_SLAVES"), "+promoted-slave", c),
                                       "+failover-state-reconf-slaves", c), "start", c)
<1>1. Sane(S) /\ Phase(m, PromotedIn(S.ri), BusyIn(S.ri))
  BY PhaseOf
<1>2. \A Q : Steps(S, Q, ms) => i \in SlavesIn(Q.ri)
  BY DEF Steps, Acts, Keeps, SlavesIn
<1>3. ~S.tilt => Goes(S, Demote(S, i), ms) /\ i \in SlavesIn(Demote(S, i).ri)
  <2> DEFINE Q == Demote(S, i)
  <2>1. Steps(S, Q, ms) /\ M(Q) = M(S)
    BY DemoteSteps
  <2> HIDE DEF Q
  <2>2. ~S.tilt => Goes(S, Q, ms)
    BY <1>1, <2>1, StepsGoes
  <2>3. i \in SlavesIn(Q.ri)
    BY <1>2, <2>1
  <2> QED
    BY <2>2, <2>3 DEF Q
<1>4. ~inprog => Goes(S, Removed(E, {i}), ms)
  <2>1. Goes(S, E, ms) /\ E.ri = S.ri
    BY EventGoes
  <2> HIDE DEF E
  <2>2. Fine(E, ms) /\ M(E) = M(S) /\ i \in SlavesIn(E.ri)
    BY <2>1 DEF Goes, M
  <2>3. ~inprog => Goes(E, Removed(E, {i}), ms)
    BY <2>2, RemovedGoes
  <2> QED
    BY <2>1, <2>3, GoesTrans
<1>5. ~S.tilt /\ Has(r, "PROMOTED") /\ m.fstate = "WAIT_PROMOTION" =>
        Goes(S, promotion, ms) /\ i \in SlavesIn(promotion.ri)
  <2>1. Has(r, "PROMOTED") => M(S).promoted \in ms
    BY <1>1 DEF Phase, PromotedIn
  <2> DEFINE Q == promotion
  <2>2. Has(r, "PROMOTED") /\ m.fstate = "WAIT_PROMOTION" => Steps(S, Q, ms) /\ M(Q).fstate = "RECONF_SLAVES"
    BY <2>1, PromotionSteps
  <2> HIDE DEF Q
  <2>3. ~S.tilt /\ Has(r, "PROMOTED") /\ m.fstate = "WAIT_PROMOTION" => Goes(S, Q, ms) /\ i \in SlavesIn(Q.ri)
    BY <1>1, <1>2, <2>2, StepsGoes
  <2> QED
    BY <2>3 DEF Q
<1>6. ~S.tilt /\ (~inprog \/ m.fstate = "WAIT_START") => Goes(S, Observe(S, i, c), ms) /\ i \in SlavesIn(Observe(S, i, c).ri)
  <2> DEFINE Q == Observe(S, i, c)
  <2>1. ~inprog \/ m.fstate = "WAIT_START" => Steps(S, Q, ms) /\ M(Q).fstate = "DETECT_END"
    BY ObserveSteps
  <2> HIDE DEF Q
  <2>2. ~S.tilt /\ (~inprog \/ m.fstate = "WAIT_START") => Goes(S, Q, ms) /\ i \in SlavesIn(Q.ri)
    BY <1>1, <1>2, <2>1, StepsGoes
  <2> QED
    BY <2>2 DEF Q
<1>7. Goes(S, S, ms)
  BY GoesRefl
<1>8. \/ ~S.tilt /\ W.S = Demote(S, i) /\ W.done = FALSE
      \/ ~inprog /\ W.S = Removed(E, {i}) /\ W.done = TRUE
      \/ ~S.tilt /\ Has(r, "PROMOTED") /\ m.fstate = "WAIT_PROMOTION" /\ W.S = promotion /\ W.done = FALSE
      \/ ~S.tilt /\ (~inprog \/ m.fstate = "WAIT_START") /\ W.S = Observe(S, i, c) /\ W.done = FALSE
      \/ W.S = S
  <2> DEFINE p == promotion
             e == Removed(E, {i})
  <2>1. W = IF ~S.tilt /\ Has(r, "DEMOTE") THEN [S |-> Demote(S, i), done |-> FALSE]
            ELSE IF ~inprog /\ reboot THEN [S |-> e, done |-> TRUE]
            ELSE IF ~S.tilt /\ Has(r, "PROMOTED")
                 THEN [S |-> IF leads /\ m.fstate = "WAIT_PROMOTION" THEN p ELSE S, done |-> FALSE]
            ELSE IF ~S.tilt /\ (~inprog \/ (leads /\ m.fstate = "WAIT_START")) THEN [S |-> Observe(S, i, c), done |-> FALSE]
            ELSE [S |-> S, done |-> FALSE]
    BY DEF RoleSwitch
  <2> HIDE DEF p, e, W, r, m, inprog
  <2> QED
    BY <2>1 DEF p, e
<1> HIDE DEF W, E, promotion, r, m, inprog
<1>9. Goes(S, W.S, ms) /\ (~W.done => i \in SlavesIn(W.S.ri))
  BY <1>3, <1>4, <1>5, <1>6, <1>7, <1>8
<1> QED
  BY <1>9 DEF W

LEMMA ReconfiguredGoes ==
  ASSUME NEW S, NEW ms, Fine(S, ms), M(S).fstate # "UPDATE_CONFIG", ~S.tilt, NEW i \in SlavesIn(S.ri)
  PROVE  Goes(S, Reconfigured(S, i), ms)
<1> DEFINE r == S.ri[i]
           a == IF Has(r, "RECONF_SENT") /\ r.host = M(S).promoted
                THEN [r EXCEPT !.flags = (r.flags \ {"RECONF_SENT"}) \cup {"RECONF_INPROG"}] ELSE r
           b == IF Has(a, "RECONF_INPROG") /\ a.linkup
                THEN [a EXCEPT !.flags = (a.flags \ {"RECONF_INPROG"}) \cup {"RECONF_DONE"}, !.fchange = 0] ELSE a
           q == [b EXCEPT !.flags = b.flags \ {"DEMOTE"}]
           Like(x, y) == /\ Key \subseteq DOMAIN y /\ y.type = x.type /\ y.addr = x.addr /\ y.cc = x.cc
                         /\ y.out = x.out /\ y.pend = x.pend /\ y.md = x.md /\ y.prio = x.prio /\ y.fstate = x.fstate
                         /\ y.promoted = x.promoted /\ y.runid = x.runid
                         /\ \A f \in {"DISCONNECTED", "MASTER_DOWN", "O_DOWN", "PROMOTED"} : Has(y, f) <=> Has(x, f)
                         /\ Has(y, "RECONF_SENT") \/ Has(y, "RECONF_INPROG") => Has(x, "RECONF_SENT") \/ Has(x, "RECONF_INPROG")
<1>1. InstOk(i, r) /\ Sane(S)
  BY DEF SlavesIn, Fine, Sane, Insts
<1>2. Key \subseteq DOMAIN r
  BY <1>1 DEF InstOk
<1> HIDE DEF r
<1>3. Like(r, a)
  BY <1>2 DEF Has, Key
<1> HIDE DEF a
<1>4. Like(a, b)
  BY <1>3 DEF Has, Key
<1> HIDE DEF b
<1>5. Like(b, q)
  BY <1>4 DEF Has, Key
<1> HIDE DEF q
<1>6. Like(r, q)
  <2>1. Like(r, b)
    BY <1>3, <1>4
  <2> QED
    BY <2>1, <1>5
<1>7. Steps(S, Set(S, i, q), ms) /\ M(Set(S, i, q)) = M(S)
  BY <1>6, FlagsSlave DEF r
<1> DEFINE Q == Set(S, i, q)
<1>8. Reconfigured(S, i) = Q
  <2>1. a.linkup = r.linkup
    BY DEF a
  <2> QED
    BY <2>1 DEF Reconfigured, Set, q, b, a, r
<1> HIDE DEF Q
<1> QED
  BY <1>1, <1>7, <1>8, StepsGoes DEF Q

\* INFO: all of it.
LEMMA RefreshGoes ==
  ASSUME NEW S, NEW ms, Fine(S, ms), M(S).fstate # "UPDATE_CONFIG", NEW i \in DOMAIN S.ri, S.ri[i].type # "sentinel",
         S.ri[i].cc # Nil, NEW info, InfoOk(info, S.ri[i].addr, ms), NEW c
  PROVE  Goes(S, sentinelRefreshInstanceInfo(S, i, info, c), ms)
<1> DEFINE r == S.ri[i]
           R == Set(S, i, Refreshed(r, info))
           A == Created(R, info.slaves, "slave", {})
           reboot == r.runid # info.runid
           X == RoleSwitch(R, i, reboot, c)
           W == IF r.type = "slave" /\ info.role = "master" THEN X
                ELSE [S |-> IF r.type = "master" THEN A ELSE R, done |-> FALSE]
           E == sentinelEvent(R, "+redirect-to-master", c)
           D == sentinelResetMasterAndChangeAddress(E, info.of)
           F == Reconfigured(W.S, i)
           Q == sentinelRefreshInstanceInfo(S, i, info, c)
<1>1. Sane(S) /\ InstOk(i, r) /\ Key \subseteq DOMAIN r
  BY DEF Fine, Sane, Insts, InstOk
<1>2. Goes(S, R, ms)
  <2> HIDE DEF R
  <2>1. Works(S, R)
    BY <1>1, RefreshedWorks DEF R, InfoOk
  <2> QED
    BY <2>1, WorksGoes
<1>3. R.ri[i].type = r.type /\ R.ri[i].cc = r.cc /\ i \in DOMAIN R.ri
  <2> DEFINE q == Refreshed(r, info)
  <2>1. q.type = r.type /\ q.cc = r.cc
    BY <1>1 DEF Refreshed, Key
  <2> HIDE DEF q
  <2>2. R.ri[i] = q /\ i \in DOMAIN R.ri
    BY <1>1, SetIs DEF Sane, q
  <2> QED
    BY <2>1, <2>2
<1> HIDE DEF R
<1>4. Fine(R, ms) /\ M(R).fstate # "UPDATE_CONFIG" /\ Sane(R)
  BY <1>2 DEF Goes, Fine
<1>5. Goes(R, A, ms)
  BY <1>4, CreatedGoes DEF InfoOk
<1>6. r.type = "slave" /\ info.role = "master" => Goes(R, X.S, ms) /\ (~X.done => i \in SlavesIn(X.S.ri))
  <2>1. r.type = "slave" => i \in SlavesIn(R.ri) /\ R.ri[i].cc # Nil /\ r.addr = i
    BY <1>1, <1>3 DEF SlavesIn, InstOk
  <2> HIDE DEF reboot, r, X
  <2> QED
    BY <1>4, <2>1, RoleSwitchGoes DEF InfoOk, X, r
<1>7. info.role = "slave" => Goes(R, D, ms)
  <2>1. Goes(R, E, ms) /\ Sane(E)
    BY <1>4, EventGoes, EventActs
  <2> HIDE DEF E
  <2>2. info.role = "slave" => info.of \in Addr /\ info.of \in ms
    BY DEF InfoOk
  <2>3. info.role = "slave" => Goes(E, D, ms)
    BY <2>1, <2>2, RedirectGoes
  <2> HIDE DEF D
  <2> QED
    BY <2>1, <2>3, GoesTrans
<1>8. Goes(R, R, ms)
  BY <1>4, GoesRefl
<1> HIDE DEF A, X, D
<1>9. Goes(R, W.S, ms)
  BY <1>5, <1>6, <1>8
<1>10. r.type = "slave" /\ info.role = "slave" /\ ~W.S.tilt => Goes(R, F, ms)
  <2>1. r.type = "slave" /\ info.role = "slave" => W.S = R /\ i \in SlavesIn(R.ri)
    BY <1>3 DEF SlavesIn
  <2> HIDE DEF W, r
  <2> QED
    BY <1>4, <2>1, ReconfiguredGoes
<1>11. Q = IF r.type = "master" /\ info.role = "slave" THEN D
           ELSE IF W.done \/ W.S.tilt THEN W.S
           ELSE IF r.type = "slave" /\ info.role = "slave" THEN F
           ELSE W.S
  BY DEF sentinelRefreshInstanceInfo, D, E, W, X, A, R
<1> HIDE DEF W, F, Q, r
<1>12. Goes(R, Q, ms)
  BY <1>7, <1>9, <1>10, <1>11
<1>13. Goes(S, Q, ms)
  BY <1>2, <1>12, GoesTrans
<1> QED
  BY <1>13 DEF Q

\* A reply that changes neither a failover nor what is known of the master.
LEMMA QuietGoes ==
  ASSUME NEW S, NEW ms, Fine(S, ms), M(S).fstate # "UPDATE_CONFIG", NEW Q, Quiet(S, Q),
         \A i \in DOMAIN S.ri : Mute(S.ri[i], Q.ri[i]), Has(M(Q), "O_DOWN") => Has(M(S), "O_DOWN")
  PROVE  Goes(S, Q, ms)
<1>1. Sane(S) /\ MasterId \in DOMAIN S.ri
  BY MasterKey DEF Fine
<1>2. M(Q).fstate = M(S).fstate
  BY <1>1 DEF Quiet, Marked, M
<1>3. Fine(Q, ms)
  BY QuietFine
<1>4. \A i \in DOMAIN Q.ri : IF i \in DOMAIN S.ri THEN Mute(S.ri[i], Q.ri[i]) ELSE RolesOf(Q.ri[i]) = {}
  BY DEF Quiet
<1> QED
  BY <1>1, <1>2, <1>3, <1>4, MuteGoes DEF Quiet

LEMMA SilentGoes ==
  ASSUME NEW S, NEW ms, Fine(S, ms), M(S).fstate # "UPDATE_CONFIG", NEW i \in DOMAIN S.ri, NEW q,
         InstOk(i, q), Silent(S.ri[i], q)
  PROVE  Goes(S, Set(S, i, q), ms)
<1>1. Sane(S)
  BY DEF Fine
<1> DEFINE Q == Set(S, i, q)
<1> HIDE DEF Q
<1>2. Works(S, Q)
  BY <1>1, WorksSet DEF Q
<1>3. Goes(S, Q, ms)
  BY <1>2, WorksGoes
<1> QED
  BY <1>3 DEF Q

LEMMA PingGoes ==
  ASSUME NEW S, NEW ms, Fine(S, ms), M(S).fstate # "UPDATE_CONFIG", NEW i \in DOMAIN S.ri, S.ri[i].cc # Nil, NEW busy
  PROVE  Goes(S, sentinelPingReplyCallback(S, i, busy), ms)
<1> DEFINE r == S.ri[i]
           kill == busy /\ Has(r, "S_DOWN") /\ ~Has(r, "SCRIPT_KILL_SENT")
           c == <<"KILL">>
           t == SendUncounted(r, c)
           k == IF kill THEN [t EXCEPT !.flags = t.flags \cup {"SCRIPT_KILL_SENT"}] ELSE r
           avail == IF busy THEN k.avail ELSE 0
           q == [k EXCEPT !.pong = 0, !.avail = avail]
           Like(x, y) == /\ Key \subseteq DOMAIN y /\ y.type = x.type /\ y.addr = x.addr /\ y.cc = x.cc
                         /\ y.out = x.out /\ y.pend = x.pend /\ y.md = x.md /\ y.prio = x.prio /\ y.fstate = x.fstate
                         /\ y.promoted = x.promoted /\ y.runid = x.runid
                         /\ \A f : f # "SCRIPT_KILL_SENT" => (Has(y, f) <=> Has(x, f))
<1>1. InstOk(i, r)
  BY DEF Fine, Sane, Insts
<1>2. c \in Command /\ c[1] \notin Roles /\ c # <<"INFO">>
  BY CommandsAre DEF Plain, Roles
<1> HIDE DEF c
<1>3. InstOk(i, t) /\ Silent(r, t)
  BY <1>1, <1>2, InstTold DEF Silent
<1>4. Key \subseteq DOMAIN t /\ Key \subseteq DOMAIN r
  BY <1>1, <1>3 DEF InstOk
<1> HIDE DEF t, r, kill
<1>5. InstOk(i, k) /\ Silent(r, k)
  <2>1. CASE kill
    <3> DEFINE u == [t EXCEPT !.flags = t.flags \cup {"SCRIPT_KILL_SENT"}]
    <3>1. Like(t, u)
      BY <1>4 DEF Key, Has
    <3> HIDE DEF u
    <3>2. InstOk(i, u) /\ Silent(t, u)
      BY <1>3, <3>1, InstMinor, InstFields DEF Marks
    <3>3. k = u
      BY <2>1 DEF u
    <3> QED
      BY <1>3, <3>2, <3>3, SilentTrans
  <2>2. CASE ~kill
    BY <1>1, <2>2, SilentRefl
  <2> QED
    BY <2>1, <2>2
<1>6. Key \subseteq DOMAIN k
  BY <1>5 DEF InstOk
<1> HIDE DEF k, avail
<1>7. Like(k, q)
  BY <1>6 DEF Key, Has
<1> HIDE DEF q
<1>8. InstOk(i, q) /\ Silent(r, q)
  <2>1. InstOk(i, q) /\ Silent(k, q)
    BY <1>5, <1>7, InstMinor, InstFields DEF Marks
  <2> QED
    BY <1>5, <2>1, SilentTrans
<1>9. sentinelPingReplyCallback(S, i, busy) = Set(S, i, q)
  BY DEF sentinelPingReplyCallback, q, avail, k, kill, t, c, r
<1> QED
  BY <1>8, <1>9, SilentGoes DEF r

LEMMA PublishGoes ==
  ASSUME NEW S, NEW ms, Fine(S, ms), M(S).fstate # "UPDATE_CONFIG", NEW i \in DOMAIN S.ri
  PROVE  Goes(S, sentinelPublishReplyCallback(S, i), ms)
<1> DEFINE r == S.ri[i]
           act == IF r.pc THEN 0 ELSE r.pcact
           q == [r EXCEPT !.pub = 0, !.pcact = act]
<1>1. InstOk(i, r)
  BY DEF Fine, Sane, Insts
<1>2. /\ Key \subseteq DOMAIN q /\ q.type = r.type /\ q.addr = r.addr /\ q.cc = r.cc
      /\ q.out = r.out /\ q.pend = r.pend /\ q.md = r.md /\ q.prio = r.prio /\ q.fstate = r.fstate
      /\ q.promoted = r.promoted /\ q.runid = r.runid /\ q.flags = r.flags
  BY <1>1, InstFields DEF Key
<1>3. sentinelPublishReplyCallback(S, i) = Set(S, i, q)
  BY DEF sentinelPublishReplyCallback
<1> HIDE DEF q
<1>4. InstOk(i, q) /\ Silent(r, q)
  BY <1>1, <1>2, InstMinor, InstFields DEF Has
<1> QED
  BY <1>3, <1>4, SilentGoes

LEMMA VoteGoes ==
  ASSUME NEW S, NEW ms, Fine(S, ms), M(S).fstate # "UPDATE_CONFIG", NEW i \in DOMAIN S.ri, NEW vote
  PROVE  Goes(S, sentinelReceiveIsMasterDownReply(S, i, vote), ms)
<1> DEFINE r == S.ri[i]
           fl == IF vote[1] THEN r.flags \cup {"MASTER_DOWN"} ELSE r.flags \ {"MASTER_DOWN"}
           q == [r EXCEPT !.md = 0, !.leader = vote[2], !.flags = fl]
           Q == Set(S, i, q)
<1>1. InstOk(i, r) /\ Sane(S) /\ MasterId \in DOMAIN S.ri
  BY MasterKey DEF Fine, Sane, Insts
<1>2. /\ Key \subseteq DOMAIN q /\ q.type = r.type /\ q.addr = r.addr /\ q.cc = r.cc
      /\ q.out = r.out /\ q.pend = r.pend /\ q.md = 0 /\ q.prio = r.prio /\ q.fstate = r.fstate
      /\ q.promoted = r.promoted /\ q.runid = r.runid /\ q.flags = fl
  <2> HIDE DEF fl
  <2> QED
    BY <1>1, InstFields DEF Key
<1>3. \A f : f # "MASTER_DOWN" => (f \in fl <=> f \in r.flags)
  OBVIOUS
<1>4. sentinelReceiveIsMasterDownReply(S, i, vote) = Q
  BY DEF sentinelReceiveIsMasterDownReply
<1> HIDE DEF q, fl
<1>5. \A f : f # "MASTER_DOWN" => (Has(q, f) <=> Has(r, f))
  BY <1>2, <1>3 DEF Has
<1>6. InstOk(i, q) /\ Mute(r, q)
  BY <1>1, <1>2, <1>5, InstSame, InstFields
<1>7. Keeps(r, q) /\ Marked(r, q)
  BY <1>2, <1>5 DEF Keeps, Marked, Marks
<1> HIDE DEF Q, r
<1>8. Quiet(S, Q) /\ Q.ri[i] = q /\ \A j \in DOMAIN S.ri : j # i => Q.ri[j] = S.ri[j]
  BY <1>1, <1>6, <1>7, QuietSet DEF Q, r
<1>9. \A j \in DOMAIN S.ri : Mute(S.ri[j], Q.ri[j])
  BY <1>6, <1>8 DEF Mute, r
<1>10. Has(M(Q), "O_DOWN") => Has(M(S), "O_DOWN")
  BY <1>1, <1>5, <1>8 DEF M, Has, r
<1>11. Goes(S, Q, ms)
  BY <1>8, <1>9, <1>10, QuietGoes
<1> QED
  BY <1>4, <1>11

----------------------------------------------------------------------------
\* The Redis servers.
ServerOk(e) == {"role", "of"} \subseteq DOMAIN e /\ e.role \in {"master", "slave"} /\ (e.role = "slave" => e.of \in Addr)
ServersOk(E) == DOMAIN E = Addr /\ \A a \in Addr : ServerOk(E[a])
Conforms == family \in DOMAIN Conf

LEMMA CutServers ==
  ASSUME NEW E, ServersOk(E), NEW a
  PROVE  ServersOk(Cut(E, a))
<1> DEFINE C == Cut(E, a)
<1>1. DOMAIN C = Addr /\ \A b \in Addr : C[b] = E[b] \/ C[b] = [E[b] EXCEPT !.link = FALSE, !.mdown = 0]
  BY DEF Cut
<1> HIDE DEF C
<1>2. ASSUME NEW b \in Addr PROVE ServerOk(C[b])
  <2>1. ServerOk(E[b])
    BY DEF ServersOk
  <2> QED
    BY <1>1, <2>1 DEF ServerOk
<1>3. ServersOk(C)
  BY <1>1, <1>2 DEF ServersOk
<1> QED
  BY <1>3 DEF C

LEMMA OneServer ==
  ASSUME NEW E, ServersOk(E), NEW a \in Addr, NEW e, ServerOk(e)
  PROVE  ServersOk([E EXCEPT ![a] = e])
BY DEF ServersOk

LEMMA CommandedServers ==
  ASSUME NEW E, ServersOk(E), NEW a \in Addr, NEW cmd \in Command
  PROVE  ServersOk(Commanded(E, a, cmd))
<1> DEFINE e == E[a]
           s == [e EXCEPT !.role = "slave", !.of = cmd[2], !.link = FALSE, !.mdown = 0]
           n == [e EXCEPT !.role = "master", !.of = Nil, !.link = FALSE, !.mdown = 0]
           b == [e EXCEPT !.busy = FALSE]
<1>1. ServerOk(e)
  BY DEF ServersOk
<1>2. cmd[1] = "SLAVEOF" => ServerOk(s)
  BY <1>1, CommandsAre DEF ServerOk
<1>3. ServerOk(n) /\ ServerOk(b)
  BY <1>1 DEF ServerOk
<1>4. \/ Commanded(E, a, cmd) = E
      \/ cmd[1] = "SLAVEOF" /\ Commanded(E, a, cmd) = Cut([E EXCEPT ![a] = s], a)
      \/ Commanded(E, a, cmd) = [E EXCEPT ![a] = n]
      \/ Commanded(E, a, cmd) = [E EXCEPT ![a] = b]
  BY DEF Commanded
<1> HIDE DEF s, n, b
<1>5. cmd[1] = "SLAVEOF" => ServersOk(Cut([E EXCEPT ![a] = s], a))
  BY <1>2, OneServer, CutServers
<1>6. ServersOk([E EXCEPT ![a] = n]) /\ ServersOk([E EXCEPT ![a] = b])
  BY <1>3, OneServer
<1> QED
  BY <1>4, <1>5, <1>6

LEMMA ExecutedServers ==
  ASSUME NEW E, ServersOk(E), NEW i, NEW cmd \in Command
  PROVE  ServersOk(Executed(E, i, cmd))
BY CommandedServers DEF Executed

LEMMA InfoOfIs ==
  ASSUME Conforms, NEW E, ServersOk(E), NEW a \in Addr, NEW ms, Claims(E) \subseteq ms
  PROVE  InfoOk(InfoOf(E, a), a, ms)
<1>1. ServerOk(E[a])
  BY DEF ServersOk
<1>2. conf.prio[a] \in Nat
  BY SentinelAssumption DEF Conforms, conf
<1>3. E[a].role = "master" => a \in ms
  BY DEF Claims
<1>4. E[a].role = "slave" => E[a].of \in ms
  BY DEF Claims
<1>5. /\ InfoOf(E, a).role = E[a].role /\ InfoOf(E, a).of = E[a].of /\ InfoOf(E, a).prio = conf.prio[a]
      /\ InfoOf(E, a).slaves \subseteq Addr
  BY DEF InfoOf
<1> QED
  BY <1>1, <1>2, <1>3, <1>4, <1>5 DEF InfoOk, ServerOk

\* Servers that were masters stay known as such.
LEMMA FineMore ==
  ASSUME NEW S, NEW ms, Fine(S, ms), NEW mt, ms \subseteq mt
  PROVE  Fine(S, mt)
BY DEF Fine, Named

LEMMA GoesMore ==
  ASSUME NEW S, NEW Q, NEW ms, Goes(S, Q, ms), NEW mt, ms \subseteq mt
  PROVE  Goes(S, Q, mt)
BY FineMore DEF Goes

\* A reply, whatever it answers.
LEMMA RepliedGoes ==
  ASSUME Conforms, NEW S, NEW ms, Fine(S, ms), M(S).fstate # "UPDATE_CONFIG", NEW i, Open(S, i),
         NEW cmd \in Command, S.ri[i].type = "sentinel" => cmd # <<"INFO">>,
         NEW E, ServersOk(E), Claims(E) \subseteq ms, NEW vote
  PROVE  Goes(S, Replied(S, E, i, cmd, vote), ms)
<1> DEFINE r == S.ri[i]
           q == Received(r)
           R == Set(S, i, q)
           a == R.ri[i].addr
           Q == Replied(S, E, i, cmd, vote)
<1>1. i \in DOMAIN S.ri /\ InstOk(i, r) /\ r.cc \notin {Nil, <<>>} /\ Sane(S)
  BY DEF Open, Fine, Sane, Insts
<1>2. InstOk(i, q) /\ Silent(r, q) /\ q.cc # Nil
  BY <1>1, InstReceived
<1> HIDE DEF q
<1>3. Goes(S, R, ms)
  BY <1>1, <1>2, SilentGoes
<1>4. R.ri[i] = q /\ i \in DOMAIN R.ri /\ q.type = r.type /\ q.addr = r.addr
  BY <1>1, <1>2, SetIs DEF Sane, Silent, Keeps
<1> HIDE DEF R, r
<1>5. Fine(R, ms) /\ M(R).fstate # "UPDATE_CONFIG"
  BY <1>3 DEF Goes
<1>6. CASE cmd[1] = "INFO"
  <2>1. R.ri[i].type # "sentinel" /\ R.ri[i].cc # Nil /\ a \in Addr
    BY <1>1, <1>2, <1>4, <1>6, CommandsAre DEF InstOk, Kind, r
  <2> HIDE DEF a
  <2>2. InfoOk(InfoOf(E, a), a, ms)
    BY <2>1, InfoOfIs
  <2> DEFINE info == InfoOf(E, a)
  <2> HIDE DEF info
  <2>3. Goes(R, sentinelRefreshInstanceInfo(R, i, info, conf), ms)
    BY <1>4, <1>5, <2>1, <2>2, RefreshGoes DEF info, a
  <2>4. Q = sentinelRefreshInstanceInfo(R, i, info, conf)
    BY <1>6 DEF Replied, info, a, R, q, r
  <2> QED
    BY <1>3, <2>3, <2>4, GoesTrans
<1>7. CASE cmd[1] = "PING"
  <2> DEFINE busy == a \in Addr /\ E[a].busy
  <2> HIDE DEF busy
  <2>1. Goes(R, sentinelPingReplyCallback(R, i, busy), ms)
    BY <1>2, <1>4, <1>5, PingGoes
  <2>2. Q = sentinelPingReplyCallback(R, i, busy)
    BY <1>7 DEF Replied, busy, R, q, r
  <2> QED
    BY <1>3, <2>1, <2>2, GoesTrans
<1>8. CASE cmd[1] = "PUBLISH"
  <2>1. Goes(R, sentinelPublishReplyCallback(R, i), ms)
    BY <1>4, <1>5, PublishGoes
  <2>2. Q = sentinelPublishReplyCallback(R, i)
    BY <1>8 DEF Replied, R, q, r
  <2> QED
    BY <1>3, <2>1, <2>2, GoesTrans
<1>9. CASE cmd[1] = "ASK"
  <2>1. Goes(R, sentinelReceiveIsMasterDownReply(R, i, vote), ms)
    BY <1>4, <1>5, VoteGoes
  <2>2. Q = sentinelReceiveIsMasterDownReply(R, i, vote)
    BY <1>9 DEF Replied, R, q, r
  <2> QED
    BY <1>3, <2>1, <2>2, GoesTrans
<1>10. CASE cmd[1] \notin {"INFO", "PING", "PUBLISH", "ASK"}
  <2>1. Q = R
    BY <1>10 DEF Replied, R, q, r
  <2> QED
    BY <1>3, <2>1
<1> QED
  BY <1>6, <1>7, <1>8, <1>9, <1>10

----------------------------------------------------------------------------
\* The inductive invariant: the sentinel is fine, and every server the others may name was a master.
NetOk ==
    /\ Conforms
    /\ Fine(st, masters) /\ M(st).fstate # "UPDATE_CONFIG"
    /\ ServersOk(inst) /\ Claims(inst) \subseteq masters

LEMMA Kept ==
  ASSUME Conforms, family' = family, Fine(st', masters'), M(st').fstate # "UPDATE_CONFIG",
         ServersOk(inst'), Claims(inst') \subseteq masters'
  PROVE  NetOk'
BY DEF NetOk, Conforms

LEMMA MoreKept ==
  ASSUME NetOk, family' = family, Goes(st, st', masters'), ServersOk(inst'), Claims(inst') \subseteq masters'
  PROVE  NetOk' /\ Moves(st, st', conf)
<1>1. Fine(st', masters') /\ M(st').fstate # "UPDATE_CONFIG"
  BY DEF Goes
<1>2. NetOk'
  BY <1>1, Kept DEF NetOk
<1>3. Moves(st, st', conf)
  BY GoesMoves
<1> QED
  BY <1>2, <1>3

LEMMA GoesKept ==
  ASSUME NetOk, family' = family, Goes(st, st', masters), masters \subseteq masters',
         ServersOk(inst'), Claims(inst') \subseteq masters'
  PROVE  NetOk' /\ Moves(st, st', conf)
BY GoesMore, MoreKept

\* The servers change, the sentinel does not.
LEMMA SameSentinel ==
  ASSUME NetOk, family' = family, st' = st, masters \subseteq masters', ServersOk(inst'), Claims(inst') \subseteq masters'
  PROVE  NetOk' /\ Moves(st, st', conf)
<1>1. Goes(st, st', masters)
  BY GoesRefl DEF NetOk
<1> QED
  BY <1>1, GoesKept

\* The roles of the servers stay.
LEMMA SameRoles ==
  ASSUME NEW E, ServersOk(E), NEW F, DOMAIN F = Addr,
         \A a \in Addr : {"role", "of"} \subseteq DOMAIN F[a] /\ F[a].role = E[a].role /\ F[a].of = E[a].of
  PROVE  ServersOk(F) /\ Claims(F) = Claims(E)
BY DEF ServersOk, ServerOk, Claims

LEMMA TimerKeeps ==
  ASSUME NetOk, Timer
  PROVE  NetOk' /\ Moves(st, st', conf)
<1>1. PICK delay \in T.delays, forked \in conf.forks : st' = sentinelTimer(st, delay, forked, conf)
  BY DEF Timer, Timed
<1>2. Fine(st', masters) /\ M(st').fstate # "UPDATE_CONFIG" /\ Moves(st, st', conf)
  BY <1>1, TimerIs DEF NetOk
<1>3. family' = family /\ inst' = inst /\ masters' = masters
  BY DEF Timer
<1> QED
  BY <1>2, <1>3, Kept DEF NetOk

LEMMA CommandedKeeps ==
  ASSUME NetOk, NEW a, NEW cmd, SomebodyCommands(a, cmd), a \in Addr, cmd \in RoleCommands
  PROVE  NetOk' /\ Moves(st, st', conf)
<1>1. cmd \in Command
  BY CommandsAre DEF RoleCommands, Plain
<1>2. ServersOk(Commanded(inst, a, cmd))
  BY <1>1, CommandedServers DEF NetOk
<1>3. inst' = Commanded(inst, a, cmd) /\ st' = st /\ family' = family /\ masters' = masters \cup Claims(inst')
  BY DEF SomebodyCommands
<1> QED
  BY <1>2, <1>3, SameSentinel

LEMMA RebootKeeps ==
  ASSUME NetOk, NEW a \in Addr, Reboot(a)
  PROVE  NetOk' /\ Moves(st, st', conf)
<1>1. PICK of \in {Nil} \cup conf.slaveof[a] :
         inst' = [inst EXCEPT ![a].up = TRUE, ![a].role = IF of = Nil THEN "master" ELSE "slave",
                              ![a].of = of, ![a].boots = @ + 1]
  BY DEF Reboot
<1>2. of # Nil => of \in Addr
  BY <1>1, SentinelAssumption DEF NetOk, Conforms, conf
<1> DEFINE e == [inst[a] EXCEPT !.up = TRUE, !.role = IF of = Nil THEN "master" ELSE "slave",
                                               !.of = of, !.boots = inst[a].boots + 1]
<1>3. ServerOk(inst[a]) /\ ServersOk(inst)
  BY DEF NetOk, ServersOk
<1>4. ServerOk(e)
  BY <1>2, <1>3 DEF ServerOk
<1>5. inst' = [inst EXCEPT ![a] = e]
  BY <1>1
<1> HIDE DEF e
<1>6. ServersOk(inst')
  BY <1>3, <1>4, <1>5, OneServer
<1>7. st' = st /\ family' = family /\ masters' = masters \cup Claims(inst')
  BY DEF Reboot
<1> QED
  BY <1>6, <1>7, SameSentinel

LEMMA ServersKeep ==
  ASSUME NetOk, NEW a \in Addr, Crash(a) \/ Script(a) \/ Replicate(a)
  PROVE  NetOk' /\ Moves(st, st', conf)
<1> DEFINE c == [inst[a] EXCEPT !.up = FALSE, !.busy = FALSE, !.link = FALSE, !.mdown = 0]
           C == [inst EXCEPT ![a] = c]
           s == [inst[a] EXCEPT !.busy = TRUE]
           r == [inst[a] EXCEPT !.link = TRUE, !.mdown = 0]
           Same(F) == /\ DOMAIN F = Addr
                      /\ \A b \in Addr : {"role", "of"} \subseteq DOMAIN F[b] /\ F[b].role = inst[b].role /\ F[b].of = inst[b].of
<1>1. ServersOk(inst) /\ \A b \in Addr : {"role", "of"} \subseteq DOMAIN inst[b]
  BY DEF NetOk, ServersOk, ServerOk
<1>2. \A e \in {c, s, r} : {"role", "of"} \subseteq DOMAIN e /\ e.role = inst[a].role /\ e.of = inst[a].of
  BY <1>1
<1> HIDE DEF c, s, r
<1>3. \A e \in {c, s, r} : Same([inst EXCEPT ![a] = e])
  BY <1>1, <1>2 DEF ServersOk
<1>4. Same(C)
  BY <1>3
<1> HIDE DEF C
<1>5. Same(Cut(C, a))
  BY <1>4 DEF Cut
<1>6. \/ inst' = Cut(C, a)
      \/ inst' = [inst EXCEPT ![a] = s]
      \/ inst' = [inst EXCEPT ![a] = r]
  BY DEF Crash, Script, Replicate, C, c, s, r
<1>7. Same(inst')
  BY <1>3, <1>5, <1>6
<1> HIDE DEF Same
<1>8. ServersOk(inst') /\ Claims(inst') = Claims(inst)
  BY <1>1, <1>7, SameRoles DEF Same
<1>9. family' = family /\ st' = st /\ masters' = masters
  BY DEF Crash, Script, Replicate
<1> QED
  BY <1>8, <1>9, SameSentinel DEF NetOk

\* What waits on a link, all of it written.
LEMMA WrittenLinkIs ==
  ASSUME NEW S, Sane(S), NEW i \in DOMAIN S.ri, S.ri[i].cc # Nil
  PROVE  LET cmds == Written(S).ri[i].cc IN
         /\ cmds \in Seq(Command)
         /\ \A n \in 1..Len(cmds) : Kind(i) = "sentinel" => cmds[n] # <<"INFO">>
<1> DEFINE r == S.ri[i]
           cmds == Written(S).ri[i].cc
           f == [j \in DOMAIN S.ri |-> WrittenLink(S.ri[j])]
<1>1. /\ r.cc \in Seq(Command) /\ r.out \in Seq(Command) /\ {"cc", "out"} \subseteq DOMAIN r
      /\ Kind(i) = "sentinel" => <<"INFO">> \notin Range(r.cc) \cup Range(r.out)
  BY DEF Sane, Insts, InstOk, LinkOk, Queued, Key
<1>2. "ri" \in DOMAIN S
  BY DEF Sane, Shape, Parts
<1>3. cmds = r.cc \o r.out
  <2>1. WrittenLink(r).cc = r.cc \o r.out
    BY <1>1 DEF WrittenLink
  <2>2. Written(S) = [S EXCEPT !.ri = f]
    BY DEF Written
  <2>3. f[i] = WrittenLink(r)
    OBVIOUS
  <2> HIDE DEF f, r
  <2>4. Written(S).ri = f
    BY <1>2, <2>2
  <2> QED
    BY <2>1, <2>3, <2>4
<1> HIDE DEF cmds, r
<1>4. cmds \in Seq(Command)
  BY <1>1, <1>3
<1>5. \A n \in 1..Len(cmds) : cmds[n] \in Range(r.cc) \cup Range(r.out)
  <2>1. TAKE n \in 1..Len(cmds)
  <2>2. CASE n <= Len(r.cc)
    <3>1. n \in DOMAIN r.cc /\ cmds[n] = r.cc[n]
      BY <1>1, <1>3, <2>2
    <3> QED
      BY <3>1 DEF Range
  <2>3. CASE n > Len(r.cc)
    <3>1. n - Len(r.cc) \in DOMAIN r.out /\ cmds[n] = r.out[n - Len(r.cc)]
      BY <1>1, <1>3, <2>3
    <3> QED
      BY <3>1 DEF Range
  <2> QED
    BY <1>1, <2>2, <2>3
<1>6. \A n \in 1..Len(cmds) : Kind(i) = "sentinel" => cmds[n] # <<"INFO">>
  BY <1>1, <1>5
<1> QED
  BY <1>4, <1>6 DEF cmds

\* The replies of one instance, one after the other.
LEMMA AnsweredKeeps ==
  ASSUME NetOk, NEW i, Answered(i)
  PROVE  NetOk' /\ Moves(st, st', conf)
<1>1. i \in DOMAIN st.ri /\ st.ri[i].cc # Nil
  BY DEF Answered, Waiting
<1>2. Fine(st, masters) /\ Sane(st) /\ InstOk(i, st.ri[i]) /\ M(st).fstate # "UPDATE_CONFIG"
  BY <1>1 DEF NetOk, Fine, Sane, Insts
<1> DEFINE W == Written(st)
           cmds == W.ri[i].cc
<1>3. Goes(st, W, masters)
  <2>1. Works(st, W)
    BY <1>2, WrittenWorks
  <2> HIDE DEF W
  <2> QED
    BY <1>2, <2>1, WorksGoes
<1>4. cmds \in Seq(Command) /\ \A n \in 1..Len(cmds) : Kind(i) = "sentinel" => cmds[n] # <<"INFO">>
  BY <1>1, <1>2, WrittenLinkIs
<1>5. PICK vote \in (IF st.ri[i].type = "sentinel" THEN conf.votes[i] ELSE {Nil}) :
        LET run[n \in 0..Len(cmds)] ==
                IF n = 0 THEN [E |-> inst, S |-> W, masters |-> masters]
                ELSE LET A == run[n - 1]
                         E == Executed(A.E, i, cmds[n])
                     IN  IF ~Open(A.S, i) THEN A
                         ELSE [E |-> E, S |-> Replied(A.S, E, i, cmds[n], vote), masters |-> A.masters \cup Claims(E)]
        IN  \E A \in {run[Len(cmds)]} : st' = A.S /\ inst' = A.E /\ masters' = A.masters
  BY DEF Answered
<1> HIDE DEF W, cmds
<1> DEFINE step(A, n) ==
               LET E == Executed(A.E, i, cmds[n])
               IN  IF ~Open(A.S, i) THEN A
                   ELSE [E |-> E, S |-> Replied(A.S, E, i, cmds[n], vote), masters |-> A.masters \cup Claims(E)]
           N == Len(cmds)
           good(A) == /\ ServersOk(A.E) /\ Claims(A.E) \subseteq A.masters
                      /\ Goes(st, A.S, A.masters) /\ masters \subseteq A.masters
           start == [E |-> inst, S |-> W, masters |-> masters]
           run[n \in 0..N] == IF n = 0 THEN start ELSE step(run[n - 1], n)
<1>6. ASSUME NEW A, good(A), NEW n \in 1..N PROVE good(step(A, n))
  <2> DEFINE E == Executed(A.E, i, cmds[n])
             mt == A.masters \cup Claims(E)
             R == Replied(A.S, E, i, cmds[n], vote)
  <2>1. CASE ~Open(A.S, i)
    BY <1>6, <2>1
  <2>2. CASE Open(A.S, i)
    <3>1. cmds[n] \in Command /\ (Kind(i) = "sentinel" => cmds[n] # <<"INFO">>)
      BY <1>4
    <3>2. ServersOk(E)
      BY <1>6, <3>1, ExecutedServers
    <3> HIDE DEF E
    <3>3. A.masters \subseteq mt /\ Claims(E) \subseteq mt
      OBVIOUS
    <3> HIDE DEF mt
    <3>4. Goes(st, A.S, mt) /\ Fine(A.S, mt) /\ M(A.S).fstate # "UPDATE_CONFIG"
      BY <1>6, <3>3, GoesMore DEF Goes
    <3>5. A.S.ri[i].type = "sentinel" => cmds[n] # <<"INFO">>
      BY <2>2, <3>1, <3>4 DEF Open, Fine, Sane, Insts, InstOk
    <3>6. Goes(A.S, R, mt)
      BY <2>2, <3>1, <3>2, <3>3, <3>4, <3>5, RepliedGoes DEF NetOk
    <3> HIDE DEF R
    <3>7. Goes(st, R, mt)
      BY <3>4, <3>6, GoesTrans
    <3> DEFINE B == step(A, n)
    <3>8. B.E = E /\ B.S = R /\ B.masters = mt
      BY <2>2 DEF R, E, mt
    <3> HIDE DEF step
    <3> QED
      BY <1>6, <3>2, <3>3, <3>7, <3>8
  <2> QED
    BY <2>1, <2>2
<1>7. st' = run[N].S /\ inst' = run[N].E /\ masters' = run[N].masters
  BY <1>5
<1>8. good(start)
  BY <1>3 DEF NetOk
<1> HIDE DEF step, start, good
<1>9. N \in Nat
  BY <1>4
<1>10. run = [n \in 0..N |-> IF n = 0 THEN start ELSE step(run[n - 1], n)]
  <2> HIDE DEF N
  <2> DEFINE P == {m \in Nat : \E f : f = [n \in 0..m |-> IF n = 0 THEN start ELSE step(f[n - 1], n)]}
  <2>1. 0 \in P
    <3> DEFINE f == [n \in 0..0 |-> start]
    <3>1. f = [n \in 0..0 |-> IF n = 0 THEN start ELSE step(f[n - 1], n)]
      OBVIOUS
    <3> HIDE DEF f
    <3> QED
      BY <3>1
  <2>2. ASSUME NEW m \in Nat, m \in P PROVE m + 1 \in P
    <3>1. PICK f : f = [n \in 0..m |-> IF n = 0 THEN start ELSE step(f[n - 1], n)]
      BY <2>2
    <3> DEFINE g == [n \in 0..m + 1 |-> IF n = m + 1 THEN step(f[m], n) ELSE f[n]]
    <3>2. \A n \in 0..m + 1 : g[n] = IF n = 0 THEN start ELSE step(g[n - 1], n)
      <4> SUFFICES ASSUME NEW n \in 0..m + 1 PROVE g[n] = IF n = 0 THEN start ELSE step(g[n - 1], n)
        OBVIOUS
      <4>1. CASE n = m + 1
        BY <4>1
      <4>2. CASE n # m + 1
        BY <3>1, <4>2
      <4> QED
        BY <4>1, <4>2
    <3>3. g = [n \in 0..m + 1 |-> IF n = 0 THEN start ELSE step(g[n - 1], n)]
      BY <3>2
    <3> HIDE DEF g
    <3> QED
      BY <3>3
  <2>3. N \in P
    BY <1>9, <2>1, <2>2, NatSetInduction
  <2> QED
    BY <2>3 DEF N
<1> HIDE DEF run, N
<1>11. \A n \in Nat : n <= N => good(run[n])
  <2> DEFINE P == {n \in Nat : n <= N => good(run[n])}
  <2>1. 0 \in P
    BY <1>8, <1>10, <1>9
  <2>2. ASSUME NEW n \in P PROVE n + 1 \in P
    <3>1. n + 1 <= N => run[n + 1] = step(run[n], n + 1) /\ good(run[n])
      BY <1>10, <1>9, <2>2
    <3> QED
      BY <1>6, <1>9, <2>2, <3>1
  <2> HIDE DEF P
  <2>3. Nat \subseteq P
    BY <2>1, <2>2, NatSetInduction
  <2> QED
    BY <2>3 DEF P
<1>12. good(run[N])
  BY <1>9, <1>11
<1>13. family' = family
  BY DEF Answered
<1>14. ServersOk(inst') /\ Claims(inst') \subseteq masters' /\ Goes(st, st', masters') /\ masters \subseteq masters'
  BY <1>7, <1>12 DEF good
<1> QED
  BY <1>13, <1>14, MoreKept

\* A link that failed.
LEMMA InstFailed ==
  ASSUME NEW i, NEW r, InstOk(i, r), r.cc # Nil
  PROVE  LET q == [r EXCEPT !.cc = Nil, !.out = <<>>, !.flags = @ \cup {"DISCONNECTED"},
                            !.pend = Max({@ - Len(r.cc \o r.out), MinPending})]
         IN  InstOk(i, q) /\ Silent(r, q)
<1> DEFINE p == Max({r.pend - Len(r.cc \o r.out), MinPending})
           q == [r EXCEPT !.cc = Nil, !.out = <<>>, !.flags = r.flags \cup {"DISCONNECTED"}, !.pend = p]
<1>1. /\ Key \subseteq DOMAIN r /\ r.cc \in Seq(Command) /\ r.out \in Seq(Command) /\ r.pend \in Int /\ r.pend >= -1
      /\ r.type = Kind(i) /\ r.md \in Int /\ r.prio \in Nat /\ (r.type = "master" => r.addr \in Addr)
  BY Constants DEF InstOk, LinkOk, PendOk
<1>2. Len(r.cc \o r.out) = Len(r.cc) + Len(r.out) /\ Len(r.cc) \in Nat /\ Len(r.out) \in Nat
  BY <1>1
<1> DEFINE all == Len(r.cc \o r.out)
           lcc == Len(r.cc)
           lout == Len(r.out)
           pend == r.pend
<1>3. all = lcc + lout /\ lcc \in Nat /\ lout \in Nat /\ pend \in Int /\ pend >= -1 /\ p = Max({pend - all, MinPending})
  BY <1>1, <1>2
<1>4. /\ r.type = "master" => pend <= MaxPending
      /\ r.type = "sentinel" => pend <= MaxPending + 1
      /\ r.type = "sentinel" /\ pend = MaxPending + 1 => lcc + lout > 0
  <2>1. r.type = "sentinel" /\ r.pend = MaxPending + 1 => Range(r.cc) # {} \/ Range(r.out) # {}
    BY DEF InstOk, PendOk, Queued
  <2>2. Range(r.cc) # {} => lcc # 0
    BY <1>1, RangeNil
  <2>3. Range(r.out) # {} => lout # 0
    BY <1>1, RangeNil
  <2>4. /\ r.type = "master" => r.pend <= MaxPending
        /\ r.type = "sentinel" => r.pend <= MaxPending + 1
    BY DEF InstOk, PendOk
  <2> HIDE DEF lcc, lout
  <2> QED
    BY <1>3, <2>1, <2>2, <2>3, <2>4
<1>5. r.type \in {"master", "slave", "sentinel"}
  BY <1>1 DEF Kind
<1> HIDE DEF all, lcc, lout, pend, p
<1>6. p \in Int /\ p >= -1 /\ (p = -1 \/ p = pend - lcc - lout)
  <2> DEFINE x == pend - all
  <2>1. x \in Int /\ x = pend - lcc - lout
    BY <1>3
  <2> HIDE DEF x
  <2>2. \E y \in {x, -1} : \A z \in {x, -1} : y >= z
    BY <2>1
  <2>3. Max({x, -1}) \in {x, -1} /\ \A z \in {x, -1} : Max({x, -1}) >= z
    BY <2>2 DEF Max
  <2>4. p = Max({x, -1})
    BY <1>3, Constants DEF x
  <2> QED
    BY <2>1, <2>3, <2>4
<1>7. p \in MinPending..MaxPending \/ (r.type = "slave" /\ p \in Nat \cup {-1})
  <2>1. r.type # "slave" => p <= MaxPending
    BY <1>3, <1>4, <1>5, <1>6, Constants
  <2> QED
    BY <1>6, <2>1, Constants
<1>8. /\ Key \subseteq DOMAIN q /\ q.type = r.type /\ q.addr = r.addr /\ q.cc = Nil
      /\ q.out = <<>> /\ q.pend = p /\ q.md = r.md /\ q.prio = r.prio /\ q.fstate = r.fstate
      /\ q.promoted = r.promoted /\ q.runid = r.runid /\ q.flags = r.flags \cup {"DISCONNECTED"}
  BY <1>1 DEF Key
<1>9. q = [r EXCEPT !.cc = Nil, !.out = <<>>, !.flags = @ \cup {"DISCONNECTED"},
                    !.pend = Max({@ - Len(r.cc \o r.out), MinPending})]
  BY DEF p, all
<1> HIDE DEF q
<1>10. InstOk(i, q) /\ Mute(r, q)
  BY <1>1, <1>7, <1>8, InstCut DEF Has
<1>11. Silent(r, q)
  BY <1>8, <1>10 DEF Silent, Keeps, Marked, Answers, Has, Marks
<1> QED
  BY <1>9, <1>10, <1>11

LEMMA DisconnectedKeeps ==
  ASSUME NetOk, NEW i, Disconnected(i)
  PROVE  NetOk' /\ Moves(st, st', conf)
<1>1. i \in DOMAIN st.ri /\ st.ri[i].cc # Nil
  BY DEF Disconnected
<1> DEFINE r == st.ri[i]
           q == [r EXCEPT !.cc = Nil, !.out = <<>>, !.flags = @ \cup {"DISCONNECTED"},
                          !.pend = Max({@ - Len(r.cc \o r.out), MinPending})]
<1>2. Fine(st, masters) /\ InstOk(i, r) /\ M(st).fstate # "UPDATE_CONFIG"
  BY <1>1 DEF NetOk, Fine, Sane, Insts
<1>3. PICK n \in 0..Len(r.cc) :
        LET run[k \in 0..n] == IF k = 0 THEN inst ELSE Executed(run[k - 1], i, r.cc[k])
            E == IF Reachable(i) THEN run[n] ELSE inst
        IN  /\ inst' = E /\ masters' = masters \cup Claims(E)
            /\ st' = Set(st, i, q)
  BY DEF Disconnected
<1>4. r.cc \in Seq(Command)
  BY <1>1, <1>2 DEF InstOk, LinkOk
<1> DEFINE step(E, k) == Executed(E, i, r.cc[k])
           run[k \in 0..n] == IF k = 0 THEN inst ELSE step(run[k - 1], k)
<1>5. /\ inst' = run[n] \/ inst' = inst
      /\ masters' = masters \cup Claims(inst')
      /\ st' = Set(st, i, q)
  BY <1>3
<1>6. n \in Nat /\ \A k \in 1..n : r.cc[k] \in Command
  BY <1>3, <1>4
<1>7. ASSUME NEW E, ServersOk(E), NEW k \in 1..n PROVE ServersOk(step(E, k))
  BY <1>6, <1>7, ExecutedServers
<1> HIDE DEF step
<1>8. run = [k \in 0..n |-> IF k = 0 THEN inst ELSE step(run[k - 1], k)]
  <2> DEFINE P == {m \in Nat : \E f : f = [k \in 0..m |-> IF k = 0 THEN inst ELSE step(f[k - 1], k)]}
  <2>1. 0 \in P
    <3> DEFINE f == [k \in 0..0 |-> inst]
    <3>1. f = [k \in 0..0 |-> IF k = 0 THEN inst ELSE step(f[k - 1], k)]
      OBVIOUS
    <3> HIDE DEF f
    <3> QED
      BY <3>1
  <2>2. ASSUME NEW m \in Nat, m \in P PROVE m + 1 \in P
    <3>1. PICK f : f = [k \in 0..m |-> IF k = 0 THEN inst ELSE step(f[k - 1], k)]
      BY <2>2
    <3> DEFINE g == [k \in 0..m + 1 |-> IF k = m + 1 THEN step(f[m], k) ELSE f[k]]
    <3>2. \A k \in 0..m + 1 : g[k] = IF k = 0 THEN inst ELSE step(g[k - 1], k)
      <4> SUFFICES ASSUME NEW k \in 0..m + 1 PROVE g[k] = IF k = 0 THEN inst ELSE step(g[k - 1], k)
        OBVIOUS
      <4>1. CASE k = m + 1
        BY <4>1
      <4>2. CASE k # m + 1
        BY <3>1, <4>2
      <4> QED
        BY <4>1, <4>2
    <3>3. g = [k \in 0..m + 1 |-> IF k = 0 THEN inst ELSE step(g[k - 1], k)]
      BY <3>2
    <3> HIDE DEF g
    <3> QED
      BY <3>3
  <2>3. n \in P
    BY <1>6, <2>1, <2>2, NatSetInduction
  <2> QED
    BY <2>3
<1> HIDE DEF run
<1>9. ServersOk(inst)
  BY DEF NetOk
<1>10. \A k \in Nat : k <= n => ServersOk(run[k])
  <2> DEFINE P == {k \in Nat : k <= n => ServersOk(run[k])}
  <2>1. 0 \in P
    BY <1>6, <1>8, <1>9
  <2>2. ASSUME NEW k \in P PROVE k + 1 \in P
    <3>1. k + 1 <= n => run[k + 1] = step(run[k], k + 1) /\ ServersOk(run[k])
      BY <1>6, <1>8, <2>2
    <3> QED
      BY <1>6, <1>7, <2>2, <3>1
  <2> HIDE DEF P
  <2>3. Nat \subseteq P
    BY <2>1, <2>2, NatSetInduction
  <2> QED
    BY <2>3 DEF P
<1>11. ServersOk(inst') /\ masters \subseteq masters' /\ Claims(inst') \subseteq masters'
  BY <1>5, <1>6, <1>9, <1>10
<1>12. InstOk(i, q) /\ Silent(r, q)
  BY <1>1, <1>2, InstFailed
<1> HIDE DEF q
<1>13. Goes(st, st', masters)
  BY <1>1, <1>2, <1>5, <1>12, SilentGoes
<1>14. family' = family
  BY DEF Disconnected
<1> QED
  BY <1>11, <1>13, <1>14, GoesKept

LEMMA PubsubKeeps ==
  ASSUME NetOk, PubsubDisconnected
  PROVE  NetOk' /\ Moves(st, st', conf)
<1>1. Fine(st, masters) /\ M(st).fstate # "UPDATE_CONFIG" /\ MasterId \in DOMAIN st.ri /\ InstOk(MasterId, st.ri[MasterId])
  BY MasterKey DEF NetOk, Fine, Sane, Insts
<1> DEFINE q == KillPubsub(st.ri[MasterId])
<1>2. InstOk(MasterId, q) /\ Silent(st.ri[MasterId], q)
  BY <1>1, InstPubsubKilled
<1>3. st' = Set(st, MasterId, q)
  BY DEF PubsubDisconnected, M
<1> HIDE DEF q
<1>4. Goes(st, st', masters)
  BY <1>1, <1>2, <1>3, SilentGoes
<1>5. family' = family /\ inst' = inst /\ masters' = masters
  BY DEF PubsubDisconnected
<1> QED
  BY <1>4, <1>5, GoesKept DEF NetOk

\* A sentinel takes the place of all that have its address or its run id.
LEMMA ReplacedGoes ==
  ASSUME NEW S, NEW ms, Fine(S, ms), M(S).fstate # "UPDATE_CONFIG", NEW h, h.addr \notin Addr \cup {MasterId}
  PROVE  LET N == Created(Removed(S, removeMatchingSentinelsFromMaster(S, h)), {h.addr}, "sentinel", {})
             Q == Set(N, h.addr, [N.ri[h.addr] EXCEPT !.runid = h.runid])
         IN  Goes(S, Q, ms) /\ h.addr \in DOMAIN Q.ri
<1> DEFINE match == removeMatchingSentinelsFromMaster(S, h)
           ids == {h.addr}
           none == {}
           D == Removed(S, match)
           N == Created(D, ids, "sentinel", none)
           new == createSentinelRedisInstance("sentinel", h.addr, none)
           u == [new EXCEPT !.runid = h.runid]
           Q == Set(N, h.addr, u)
<1> HIDE DEF none
<1>1. Sane(S) /\ MasterId \in DOMAIN S.ri /\ \A i \in DOMAIN S.ri : InstOk(i, S.ri[i]) /\ S.ri[i].type = Kind(i)
  BY MasterKey DEF Fine, Sane, Insts, InstOk
<1>2. /\ match \subseteq DOMAIN S.ri /\ MasterId \notin match
      /\ \A i \in DOMAIN S.ri \ match : S.ri[i].type = "sentinel" => S.ri[i].runid # h.runid /\ i # h.addr
  BY <1>1 DEF removeMatchingSentinelsFromMaster, Of, Kind
<1> HIDE DEF match
<1>3. /\ Sane(D) /\ Tilt(S, D) /\ DOMAIN D.ri = DOMAIN S.ri \ match
      /\ \A i \in DOMAIN S.ri \ match : D.ri[i] = S.ri[i]
  BY <1>1, <1>2, RemovedIs
<1> HIDE DEF D
<1>4. Kind(h.addr) = "sentinel" /\ h.addr # MasterId
  BY DEF Kind
<1>5. h.addr \notin DOMAIN D.ri
  BY <1>1, <1>2, <1>3, <1>4
<1>6. IsFiniteSet(ids) /\ \A i \in ids : Kind(i) = "sentinel"
  BY <1>4, FS_Singleton
<1>7. /\ Sane(N) /\ OnlyRi(D, N) /\ DOMAIN N.ri = DOMAIN D.ri \cup ids
      /\ \A i \in DOMAIN D.ri : N.ri[i] = D.ri[i]
      /\ \A i \in ids \ DOMAIN D.ri : N.ri[i] = createSentinelRedisInstance("sentinel", i, none)
  <2> HIDE DEF ids
  <2> QED
    BY ONLY <1>3, <1>6, CreatedIs
<1>8. N.ri[h.addr] = new /\ h.addr \in DOMAIN N.ri
  BY <1>5, <1>7
<1> HIDE DEF N
<1>9. InstOk(h.addr, new) /\ new.type = "sentinel" /\ new.cc = Nil /\ new.flags = none \cup {"DISCONNECTED"} /\ new.fstate = "NONE"
  BY <1>4, NewInst
<1> HIDE DEF new
<1>10. /\ Key \subseteq DOMAIN u /\ u.type = new.type /\ u.addr = new.addr /\ u.cc = new.cc
       /\ u.out = new.out /\ u.pend = new.pend /\ u.md = new.md /\ u.prio = new.prio
       /\ u.runid = h.runid /\ u.flags = new.flags
  BY <1>9, InstFields DEF Key
<1> HIDE DEF u
<1>11. InstOk(h.addr, u) /\ u.type = "sentinel" /\ u.cc = Nil /\ u.flags = none \cup {"DISCONNECTED"}
  BY <1>9, <1>10, InstSame, InstFields DEF Has
<1>12. /\ OnlyRi(N, Q) /\ Shape(Q) /\ DOMAIN Q.ri = (DOMAIN S.ri \ match) \cup {h.addr}
       /\ Q.ri[h.addr] = u /\ \A i \in DOMAIN S.ri \ match : i # h.addr /\ Q.ri[i] = S.ri[i]
  <2>1. Shape(N)
    BY <1>7 DEF Sane
  <2>2. /\ OnlyRi(N, Q) /\ DOMAIN Q.ri = DOMAIN N.ri /\ Q.ri[h.addr] = u
        /\ \A i \in DOMAIN N.ri : i # h.addr => Q.ri[i] = N.ri[i]
    BY <1>8, <2>1 DEF Shape, Set, OnlyRi, Parts, Tilt
  <2>3. Shape(Q)
    BY <2>1, <2>2, ShapeKept
  <2> HIDE DEF Q
  <2> QED
    BY <1>3, <1>5, <1>7, <2>2, <2>3
<1> HIDE DEF Q
<1>13. Insts(Q.ri)
  <2>1. \A i \in DOMAIN Q.ri : InstOk(i, Q.ri[i])
    BY <1>1, <1>11, <1>12
  <2>2. IsFiniteSet(DOMAIN Q.ri) /\ MasterId \in DOMAIN Q.ri
    BY <1>1, <1>2, <1>12, FS_AddElement, FS_Subset DEF Sane, Insts
  <2> QED
    BY <2>1, <2>2 DEF Insts
<1>14. M(Q) = M(S) /\ Q.ri[MasterId] = S.ri[MasterId]
  BY <1>1, <1>2, <1>12 DEF M
<1>15. PromotedIn(Q.ri) = PromotedIn(S.ri) /\ BusyIn(Q.ri) = BusyIn(S.ri)
  <2>1. \A i \in match : S.ri[i].type # "slave"
    BY DEF match, removeMatchingSentinelsFromMaster, Of
  <2>2. SlavesIn(Q.ri) = SlavesIn(S.ri) /\ \A i \in SlavesIn(S.ri) : Q.ri[i] = S.ri[i]
    BY <1>11, <1>12, <2>1 DEF SlavesIn
  <2> QED
    BY <2>2 DEF PromotedIn, BusyIn
<1>16. Runids(Q.ri)
  <2>1. Runids(S.ri)
    BY DEF Fine
  <2> QED
    BY <1>2, <1>10, <1>12, <2>1 DEF Runids
<1>17. Fine(Q, ms)
  BY <1>12, <1>13, <1>14, <1>15, <1>16 DEF Fine, FailoverOk, Named, Sane
<1>18. Tilt(S, Q)
  BY <1>3, <1>7, <1>12 DEF OnlyRi, Tilt
<1>19. \A i \in DOMAIN Q.ri : IF i \in DOMAIN S.ri THEN Mute(S.ri[i], Q.ri[i]) ELSE RolesOf(Q.ri[i]) = {}
  BY <1>11, <1>12 DEF Mute, RolesOf
<1>20. Goes(S, Q, ms)
  BY <1>1, <1>14, <1>17, <1>18, <1>19, MuteGoes
<1>21. Q = Set(N, h.addr, [N.ri[h.addr] EXCEPT !.runid = h.runid])
  BY <1>8 DEF Q, u
<1> QED
  BY <1>12, <1>20, <1>21 DEF N, D, match, ids, none

\* What a hello message changes besides: ages, and whether its sentinel may fail the master over.
LEMMA HelloKeeps ==
  ASSUME NetOk, NEW h \in conf.hellos, sentinelReceiveHelloMessages(h)
  PROVE  NetOk' /\ Moves(st, st', conf)
<1> DEFINE same == {i \in Of(st, "sentinel") : st.ri[i].runid = h.runid /\ i = h.addr}
           N == Created(Removed(st, removeMatchingSentinelsFromMaster(st, h)), {h.addr}, "sentinel", {})
           R == Set(N, h.addr, [N.ri[h.addr] EXCEPT !.runid = h.runid])
           S == IF same = {} THEN R ELSE st
           m == [M(S) EXCEPT !.pcact = 0]
           P == Set(S, MasterId, m)
           r == P.ri[h.addr]
           fl == IF h.can THEN r.flags \cup {"CAN_FAILOVER"} ELSE r.flags \ {"CAN_FAILOVER"}
           q == [r EXCEPT !.flags = fl]
           Q == Set(P, h.addr, q)
           Like(x, y) == /\ Key \subseteq DOMAIN y /\ y.type = x.type /\ y.addr = x.addr /\ y.cc = x.cc
                         /\ y.out = x.out /\ y.pend = x.pend /\ y.md = x.md /\ y.prio = x.prio /\ y.fstate = x.fstate
                         /\ y.promoted = x.promoted /\ y.runid = x.runid
                         /\ \A f : f # "CAN_FAILOVER" => (Has(y, f) <=> Has(x, f))
<1>1. Fine(st, masters) /\ M(st).fstate # "UPDATE_CONFIG" /\ h.addr \notin Addr \cup {MasterId}
  BY SentinelAssumption DEF NetOk, Conforms, conf
<1>2. Goes(st, S, masters) /\ h.addr \in DOMAIN S.ri
  <2>1. CASE same = {}
    <3>1. Goes(st, R, masters) /\ h.addr \in DOMAIN R.ri
      BY <1>1, ReplacedGoes
    <3> HIDE DEF R
    <3> QED
      BY <2>1, <3>1
  <2>2. CASE same # {}
    <3>1. Goes(st, st, masters)
      BY <1>1, GoesRefl
    <3>2. h.addr \in DOMAIN st.ri
      BY <2>2 DEF Of
    <3> QED
      BY <2>2, <3>1, <3>2
  <2> QED
    BY <2>1, <2>2
<1>3. st' = Q
  BY DEF sentinelReceiveHelloMessages
<1> HIDE DEF S, same, R, N
<1>4. Goes(S, P, masters) /\ h.addr \in DOMAIN P.ri
  <2>1. Fine(S, masters) /\ M(S).fstate # "UPDATE_CONFIG" /\ Sane(S)
    BY <1>2 DEF Goes, Fine
  <2>2. MasterId \in DOMAIN S.ri /\ InstOk(MasterId, M(S)) /\ Key \subseteq DOMAIN M(S)
    BY <2>1, MasterKey DEF InstOk
  <2>3. Like(M(S), m)
    BY <2>2 DEF Key, Has
  <2> HIDE DEF m
  <2>4. InstOk(MasterId, m) /\ Silent(M(S), m)
    BY <2>2, <2>3, InstMinor, InstFields DEF Marks
  <2>5. Goes(S, P, masters)
    BY <2>1, <2>2, <2>4, SilentGoes DEF M
  <2>6. DOMAIN P.ri = DOMAIN S.ri
    <3>1. Parts \subseteq DOMAIN S
      BY <2>1 DEF Sane, Shape
    <3> QED
      BY <3>1 DEF Set, Parts
  <2> HIDE DEF P
  <2> QED
    BY <1>2, <2>5, <2>6
<1> HIDE DEF P
<1>5. Goes(P, Q, masters)
  <2>1. Fine(P, masters) /\ M(P).fstate # "UPDATE_CONFIG" /\ InstOk(h.addr, r) /\ Key \subseteq DOMAIN r
    BY <1>4 DEF Goes, Fine, Sane, Insts, InstOk
  <2>2. \A f : f # "CAN_FAILOVER" => (f \in fl <=> f \in r.flags)
    OBVIOUS
  <2> HIDE DEF fl, r
  <2>3. Like(r, q)
    BY <2>1, <2>2 DEF Key, Has
  <2> HIDE DEF q
  <2>4. InstOk(h.addr, q) /\ Silent(r, q)
    BY <2>1, <2>3, InstMinor, InstFields DEF Marks
  <2> QED
    BY <1>4, <2>1, <2>4, SilentGoes DEF r
<1> HIDE DEF Q
<1>6. Goes(st, st', masters)
  BY <1>2, <1>3, <1>4, <1>5, GoesTrans
<1>7. family' = family /\ inst' = inst /\ masters' = masters
  BY DEF sentinelReceiveHelloMessages
<1> QED
  BY <1>6, <1>7, GoesKept DEF NetOk

\* The clock moves.
LEMMA IntMin ==
  ASSUME NEW x \in Int, NEW y \in Int
  PROVE  Min({x, y}) \in {x, y} /\ Min({x, y}) <= x /\ Min({x, y}) <= y
<1>1. \E z \in {x, y} : \A w \in {x, y} : z <= w
  OBVIOUS
<1>2. Min({x, y}) \in {x, y} /\ \A w \in {x, y} : Min({x, y}) <= w
  BY <1>1 DEF Min
<1> QED
  BY <1>2

LEMMA InstOlder ==
  ASSUME NEW i, NEW r, InstOk(i, r)
  PROVE  LET q == OlderInst(r) IN
         InstOk(i, q) /\ Keeps(r, q) /\ Marked(r, q) /\ Mute(r, q) /\ (Has(q, "O_DOWN") => Has(r, "O_DOWN"))
<1> DEFINE q == OlderInst(r)
<1>1. Key \subseteq DOMAIN r /\ r.md \in Int
  BY DEF InstOk
<1>2. DOMAIN q = DOMAIN r
  BY DEF OlderInst
<1>3. \A f \in Key \ {"md"} : f \notin DOMAIN CapOf /\ f # "fstart"
  BY SentinelAssumption DEF Key
<1>4. \A f \in Key \ {"md"} : q[f] = r[f]
  BY <1>1, <1>3 DEF OlderInst
<1>5. q.md = (IF "md" \in DOMAIN CapOf THEN Age("md", r.md) ELSE r.md)
  BY <1>1 DEF OlderInst, Key
<1>6. q.md \in Int
  <2> DEFINE x == r.md + 1
             c == CapOf.md
  <2>1. x \in Int /\ c \in Int
    BY <1>1, Constants
  <2>2. Age("md", r.md) = IF r.md = Never THEN r.md ELSE Min({x, c})
    BY DEF Age
  <2> HIDE DEF x, c
  <2>3. Min({x, c}) \in {x, c}
    BY <2>1, IntMin
  <2> QED
    BY <1>1, <1>5, <2>1, <2>2, <2>3
<1> HIDE DEF q
<1>7. /\ Key \subseteq DOMAIN q /\ q.type = r.type /\ q.addr = r.addr /\ q.cc = r.cc
      /\ q.out = r.out /\ q.pend = r.pend /\ q.prio = r.prio /\ q.fstate = r.fstate
      /\ q.promoted = r.promoted /\ q.runid = r.runid /\ q.flags = r.flags
  BY <1>1, <1>2, <1>4 DEF Key
<1>8. InstOk(i, q) /\ Mute(r, q)
  BY <1>6, <1>7, InstSame, InstFields DEF Has
<1>9. Keeps(r, q) /\ Marked(r, q) /\ (Has(q, "O_DOWN") => Has(r, "O_DOWN"))
  BY <1>7 DEF Keeps, Marked, Has
<1> QED
  BY <1>8, <1>9 DEF q

LEMMA TickKeeps ==
  ASSUME NetOk, Tick
  PROVE  NetOk' /\ Moves(st, st', conf)
<1> DEFINE f == [i \in DOMAIN st.ri |-> OlderInst(st.ri[i])]
           g == [n \in DOMAIN st.scripts |-> OlderJob(st.scripts[n])]
           age == Age("tilt", st.tiltAge)
           Q == [st EXCEPT !.ri = f, !.tiltAge = age, !.scripts = g]
           R == [st EXCEPT !.ri = f]
           F == [a \in Addr |-> [inst[a] EXCEPT !.mdown = IF inst[a].role = "slave" /\ ~inst[a].link
                                                         THEN Min({@ + 1, CapOf.mdown}) ELSE 0]]
<1>1. st' = Q /\ inst' = F /\ masters' = masters /\ family' = family
  BY DEF Tick, Older
<1>2. Fine(st, masters) /\ M(st).fstate # "UPDATE_CONFIG" /\ Sane(st) /\ Shape(st) /\ Insts(st.ri) /\ Parts \subseteq DOMAIN st
  BY DEF NetOk, Fine, Sane, Shape
<1>3. /\ DOMAIN f = DOMAIN st.ri
      /\ \A i \in DOMAIN st.ri : /\ InstOk(i, f[i]) /\ Keeps(st.ri[i], f[i]) /\ Marked(st.ri[i], f[i]) /\ Mute(st.ri[i], f[i])
                                 /\ Has(f[i], "O_DOWN") => Has(st.ri[i], "O_DOWN")
  BY <1>2, InstOlder DEF Insts
<1>4. IsList(g) /\ Len(g) = Len(st.scripts)
  <2>1. IsList(st.scripts)
    BY <1>2 DEF Shape, ScriptsOk
  <2>2. g = [n \in DOMAIN st.scripts |-> g[n]]
    OBVIOUS
  <2> HIDE DEF g
  <2> QED
    BY <2>1, <2>2, MapList
<1>5. age \in Int /\ (age < T.tilt => st.tilt)
  <2>1. st.tiltAge \in Int /\ (st.tiltAge < T.tilt => st.tilt)
    BY <1>2 DEF Shape
  <2> DEFINE v == st.tiltAge
             x == v + 1
             c == CapOf.tilt
             w == Min({x, c})
  <2>2. age = IF v = Never THEN v ELSE w
    BY DEF Age
  <2>4. v \in Int /\ x \in Int /\ x = v + 1 /\ c \in Int /\ T.tilt \in Int /\ T.tilt <= c /\ Never \in Int
    BY <2>1, Constants DEF Never
  <2> HIDE DEF v, x, c, age
  <2>3. w \in {x, c} /\ w <= x /\ w <= c
    BY <2>4, IntMin
  <2> HIDE DEF w
  <2>5. age < T.tilt => v < T.tilt
    BY <2>2, <2>3, <2>4
  <2> QED
    BY <2>1, <2>2, <2>3, <2>4, <2>5 DEF v
<1> HIDE DEF f, g, age
<1>6. /\ Parts \subseteq DOMAIN Q /\ Q.ri = f /\ Q.tiltAge = age /\ Q.scripts = g /\ Q.tilt = st.tilt
      /\ Q.running = st.running /\ Q.wild = st.wild /\ OnlyRi(st, R) /\ R.ri = f
  BY <1>2 DEF Parts, OnlyRi, Tilt
<1> HIDE DEF Q, R
<1>7. Insts(f)
  BY <1>2, <1>3 DEF Insts
<1>8. Sane(R) /\ Quiet(st, R)
  BY <1>2, <1>3, <1>6, <1>7, ShapeKept DEF Sane, Quiet, OnlyRi
<1>9. Sane(Q)
  BY <1>2, <1>4, <1>5, <1>6, <1>7 DEF Sane, Shape, ScriptsOk
<1>10. Fine(Q, masters)
  <2>1. Fine(R, masters)
    BY <1>2, <1>8, QuietFine
  <2> QED
    BY <1>6, <1>9, <2>1 DEF Fine
<1>11. MasterId \in DOMAIN st.ri
  BY <1>2 DEF Insts
<1>12. M(Q).fstate = M(st).fstate /\ (Has(M(Q), "O_DOWN") => Has(M(st), "O_DOWN"))
  BY <1>3, <1>6, <1>11 DEF M, Marked
<1>13. Moves(st, Q, conf)
  <2>1. Decided(st, Q, conf)
    BY <1>12 DEF Decided
  <2>2. \A i \in DOMAIN st.ri : i \in DOMAIN Q.ri => Mute(st.ri[i], Q.ri[i])
    BY <1>3, <1>6
  <2> QED
    BY <1>2, <1>9, <2>1, <2>2, MuteMoves
<1>14. ServersOk(F) /\ Claims(F) = Claims(inst)
  <2>1. ServersOk(inst)
    BY DEF NetOk
  <2>2. DOMAIN F = Addr
    OBVIOUS
  <2>3. ASSUME NEW a \in Addr
        PROVE  {"role", "of"} \subseteq DOMAIN F[a] /\ F[a].role = inst[a].role /\ F[a].of = inst[a].of
    BY <2>1 DEF ServersOk, ServerOk
  <2> HIDE DEF F
  <2> QED
    BY <2>1, <2>2, <2>3, SameRoles
<1> HIDE DEF F
<1>15. Fine(st', masters') /\ M(st').fstate # "UPDATE_CONFIG" /\ Moves(st, st', conf)
  BY <1>1, <1>2, <1>10, <1>12, <1>13
<1>16. ServersOk(inst') /\ Claims(inst') \subseteq masters'
  BY <1>1, <1>14 DEF NetOk
<1> QED
  BY <1>1, <1>15, <1>16, Kept DEF NetOk

\* The table stays as it is.
LEMMA SameTable ==
  ASSUME NEW S, NEW ms, Fine(S, ms), M(S).fstate # "UPDATE_CONFIG", NEW Q, Shape(Q), Tilt(S, Q), Q.ri = S.ri
  PROVE  Goes(S, Q, ms)
<1>1. Sane(Q) /\ Sane(S)
  BY DEF Fine, Sane
<1>2. Fine(Q, ms)
  BY <1>1 DEF Fine
<1>3. M(Q) = M(S)
  BY DEF M
<1>4. \A i \in DOMAIN Q.ri : IF i \in DOMAIN S.ri THEN Mute(S.ri[i], Q.ri[i]) ELSE RolesOf(Q.ri[i]) = {}
  BY DEF Mute
<1> QED
  BY <1>1, <1>2, <1>3, <1>4, MuteGoes

LEMMA TimeJumpKeeps ==
  ASSUME NetOk, TimeJump
  PROVE  NetOk' /\ Moves(st, st', conf)
<1> DEFINE Q == [st EXCEPT !.late = TRUE]
<1>1. st' = Q /\ inst' = inst /\ masters' = masters /\ family' = family
  BY DEF TimeJump
<1>2. Fine(st, masters) /\ M(st).fstate # "UPDATE_CONFIG" /\ Shape(st) /\ Parts \subseteq DOMAIN st
  BY DEF NetOk, Fine, Sane, Shape
<1>3. /\ Parts \subseteq DOMAIN Q /\ Q.ri = st.ri /\ Q.tiltAge = st.tiltAge /\ Q.scripts = st.scripts /\ Q.tilt = st.tilt
      /\ Q.running = st.running /\ Q.wild = st.wild
  BY <1>2 DEF Parts
<1> HIDE DEF Q
<1>4. Shape(Q) /\ Tilt(st, Q)
  BY <1>2, <1>3 DEF Shape, ScriptsOk, Tilt
<1>5. Goes(st, Q, masters)
  BY <1>2, <1>3, <1>4, SameTable
<1> QED
  BY <1>1, <1>5, GoesKept DEF NetOk

LEMMA LateCommandKeeps ==
  ASSUME NetOk, NEW w, LateCommand(w)
  PROVE  NetOk' /\ Moves(st, st', conf)
<1> DEFINE left1 == st.wild \ {w}
           Q == [st EXCEPT !.wild = left1]
<1>1. /\ st' = Q /\ family' = family /\ masters' = masters \cup Claims(inst') /\ w \in st.wild
      /\ inst' = inst \/ inst' = Commanded(inst, w[1], w[2])
  BY DEF LateCommand
<1>2. Fine(st, masters) /\ M(st).fstate # "UPDATE_CONFIG" /\ Shape(st) /\ Parts \subseteq DOMAIN st
  BY DEF NetOk, Fine, Sane, Shape
<1>3. st.wild \subseteq Addr \X Command
  BY <1>2 DEF Shape
<1>4. left1 \subseteq Addr \X Command /\ w[1] \in Addr /\ w[2] \in Command
  BY <1>1, <1>3
<1> HIDE DEF left1
<1>5. /\ Parts \subseteq DOMAIN Q /\ Q.ri = st.ri /\ Q.tiltAge = st.tiltAge /\ Q.scripts = st.scripts /\ Q.tilt = st.tilt
      /\ Q.running = st.running /\ Q.wild = left1
  BY <1>2 DEF Parts
<1> HIDE DEF Q
<1>6. Shape(Q) /\ Tilt(st, Q)
  BY <1>2, <1>4, <1>5 DEF Shape, ScriptsOk, Tilt
<1>7. Goes(st, Q, masters)
  BY <1>2, <1>5, <1>6, SameTable
<1>8. ServersOk(inst')
  BY <1>1, <1>4, CommandedServers DEF NetOk
<1> QED
  BY <1>1, <1>7, <1>8, GoesKept DEF NetOk

LEMMA ScriptEndsKeeps ==
  ASSUME NetOk, NEW n \in DOMAIN st.scripts, ScriptEnds(n)
  PROVE  NetOk' /\ Moves(st, st', conf)
<1>1. PICK result \in Results : st' = [st EXCEPT !.scripts[n].st = result]
  BY DEF ScriptEnds
<1> DEFINE e == [st.scripts[n] EXCEPT !.st = result]
           g == [st.scripts EXCEPT ![n] = e]
           Q == [st EXCEPT !.scripts = g]
<1>2. st' = Q /\ inst' = inst /\ masters' = masters /\ family' = family
  BY <1>1 DEF ScriptEnds
<1>3. Fine(st, masters) /\ M(st).fstate # "UPDATE_CONFIG" /\ Shape(st) /\ Parts \subseteq DOMAIN st
  BY DEF NetOk, Fine, Sane, Shape
<1> HIDE DEF e
<1>4. IsList(g) /\ Len(g) = Len(st.scripts)
  <2>1. IsList(st.scripts) /\ n \in 1..Len(st.scripts)
    BY <1>3 DEF Shape, ScriptsOk, IsList
  <2> QED
    BY <2>1, ReplaceInList
<1> HIDE DEF g
<1>5. /\ Parts \subseteq DOMAIN Q /\ Q.ri = st.ri /\ Q.tiltAge = st.tiltAge /\ Q.scripts = g /\ Q.tilt = st.tilt
      /\ Q.running = st.running /\ Q.wild = st.wild
  BY <1>3 DEF Parts
<1> HIDE DEF Q
<1>6. Shape(Q) /\ Tilt(st, Q)
  BY <1>3, <1>4, <1>5 DEF Shape, ScriptsOk, Tilt
<1>7. Goes(st, Q, masters)
  BY <1>3, <1>5, <1>6, SameTable
<1> QED
  BY <1>2, <1>7, GoesKept DEF NetOk

LEMMA ResetKeeps ==
  ASSUME NetOk, sentinelResetMastersByPattern
  PROVE  NetOk' /\ Moves(st, st', conf)
<1> DEFINE R == sentinelResetMaster(st)
           Q == sentinelEvent(R, "+reset-master", conf)
           a == M(st).addr
<1>1. st' = Q /\ inst' = inst /\ masters' = masters /\ family' = family
  BY DEF sentinelResetMastersByPattern
<1>2. Fine(st, masters) /\ Sane(st) /\ a \in masters
  BY DEF NetOk, Fine, Named, M
<1>3. Alone(R, a) /\ Tilt(st, R)
  BY <1>2, ResetIs
<1> HIDE DEF R, a
<1>4. Fine(R, masters) /\ Sane(R)
  BY <1>2, <1>3, AloneFine DEF Fine
<1>5. M(R).fstate # "UPDATE_CONFIG" /\ ~Has(M(R), "O_DOWN")
  BY <1>3 DEF Alone, Has
<1>6. \A i \in DOMAIN R.ri : RolesOf(R.ri[i]) = {}
  BY <1>3 DEF Alone, RolesOf, M
<1>7. Goes(st, R, masters)
  <2>1. \A i \in DOMAIN R.ri : IF i \in DOMAIN st.ri THEN Mute(st.ri[i], R.ri[i]) ELSE RolesOf(R.ri[i]) = {}
    BY <1>6 DEF Mute
  <2> QED
    BY <1>2, <1>3, <1>4, <1>5, <2>1, MuteGoes
<1>8. Goes(R, Q, masters)
  BY <1>4, <1>5, EventGoes
<1> HIDE DEF Q
<1>9. Goes(st, st', masters)
  BY <1>1, <1>7, <1>8, GoesTrans
<1> QED
  BY <1>1, <1>9, GoesKept DEF NetOk

\* A failover that begins sends nothing yet.
LEMMA StartFailoverGoes ==
  ASSUME NEW S, NEW ms, Fine(S, ms), ~Has(M(S), "FAILOVER_IN_PROGRESS"), NEW delay, NEW c
  PROVE  Goes(S, sentinelStartFailover(S, delay, c), ms)
<1> DEFINE m == [M(S) EXCEPT !.fstate = "WAIT_START", !.fchange = 0, !.fstart = delay,
                             !.flags = M(S).flags \cup {"FAILOVER_IN_PROGRESS", "I_AM_THE_LEADER"}]
           L == Set(S, MasterId, m)
           A == sentinelEvent(L, "+failover-triggered", c)
           Q == sentinelEvent(A, "+failover-state-wait-start", c)
<1>1. Sane(S) /\ MasterId \in DOMAIN S.ri /\ InstOk(MasterId, M(S)) /\ Key \subseteq DOMAIN M(S)
  BY MasterKey DEF Fine, InstOk
<1>2. Q = sentinelStartFailover(S, delay, c)
  BY DEF sentinelStartFailover, Led
<1>3. Steps(S, Q, ms) /\ M(Q).fstate = "WAIT_START"
  BY <1>2, StartFailoverSteps
<1>4. MasterLike(M(S), m)
  <2>1. /\ Key \subseteq DOMAIN m /\ m.type = M(S).type /\ m.addr = M(S).addr /\ m.runid = M(S).runid /\ m.cc = M(S).cc
        /\ m.out = M(S).out /\ m.pend = M(S).pend /\ m.md = M(S).md /\ m.prio = M(S).prio
        /\ m.flags = M(S).flags \cup {"FAILOVER_IN_PROGRESS", "I_AM_THE_LEADER"}
    BY <1>1 DEF Key
  <2> HIDE DEF m
  <2> QED
    BY <2>1 DEF MasterLike, Has
<1> HIDE DEF m
<1>5. Sane(L) /\ M(L) = m /\ DOMAIN L.ri = DOMAIN S.ri /\ \A i \in DOMAIN S.ri : i # MasterId => L.ri[i] = S.ri[i]
  BY <1>1, <1>4, MasterSet DEF Acts
<1> HIDE DEF L
<1>6. Sane(A) /\ A.ri = L.ri
  BY <1>5, EventActs
<1> HIDE DEF A
<1>7. Q.ri = L.ri
  BY <1>6, EventActs
<1> HIDE DEF Q
<1>8. \A i \in DOMAIN S.ri : Mute(S.ri[i], Q.ri[i])
  BY <1>1, <1>4, <1>5, <1>7 DEF Mute, RolesOf, Queued, M, MasterLike
<1>9. /\ Fine(Q, ms) /\ Tilt(S, Q) /\ DOMAIN Q.ri = DOMAIN S.ri /\ M(Q).fstate # "UPDATE_CONFIG"
      /\ Has(M(Q), "O_DOWN") => Has(M(S), "O_DOWN")
  BY <1>1, <1>3 DEF Steps, Acts, Answers, M
<1>10. Goes(S, Q, ms)
  BY <1>1, <1>8, <1>9, MuteGoes
<1> QED
  BY <1>2, <1>10

LEMMA FailoverCommandKeeps ==
  ASSUME NetOk, sentinelFailoverCommand
  PROVE  NetOk' /\ Moves(st, st', conf)
<1>1. PICK delay \in T.delays :
        LET S == sentinelStartFailover(st, delay, conf)
        IN  st' = [S EXCEPT !.ri[MasterId].flags = @ \cup {"FORCE_FAILOVER"}]
  BY DEF sentinelFailoverCommand
<1> DEFINE S == sentinelStartFailover(st, delay, conf)
           m == S.ri[MasterId]
           q == [m EXCEPT !.flags = m.flags \cup {"FORCE_FAILOVER"}]
           Q == Set(S, MasterId, q)
<1>2. Fine(st, masters) /\ ~Has(M(st), "FAILOVER_IN_PROGRESS")
  BY DEF NetOk, sentinelFailoverCommand
<1>3. Goes(st, S, masters)
  BY <1>2, StartFailoverGoes
<1>4. st' = Q
  BY <1>1 DEF Set
<1> HIDE DEF S
<1>5. Fine(S, masters) /\ M(S).fstate # "UPDATE_CONFIG" /\ MasterId \in DOMAIN S.ri /\ InstOk(MasterId, m) /\ Key \subseteq DOMAIN m
  BY <1>3, MasterKey DEF Goes, Fine, Sane, Insts, InstOk
<1>6. /\ Key \subseteq DOMAIN q /\ q.type = m.type /\ q.addr = m.addr /\ q.runid = m.runid /\ q.cc = m.cc
      /\ q.out = m.out /\ q.pend = m.pend /\ q.md = m.md /\ q.prio = m.prio /\ q.fstate = m.fstate /\ q.promoted = m.promoted
      /\ q.flags = m.flags \cup {"FORCE_FAILOVER"}
  BY <1>5 DEF Key
<1> HIDE DEF m, q
<1>7. \A f : f # "FORCE_FAILOVER" => (Has(q, f) <=> Has(m, f))
  BY <1>6 DEF Has
<1>8. InstOk(MasterId, q) /\ Silent(m, q)
  BY <1>5, <1>6, <1>7, InstMinor, InstFields DEF Marks
<1>9. Goes(S, Q, masters)
  BY <1>5, <1>8, SilentGoes DEF m
<1> HIDE DEF Q
<1>10. Goes(st, st', masters)
  BY <1>3, <1>4, <1>9, GoesTrans
<1>11. family' = family /\ inst' = inst /\ masters' = masters
  BY DEF sentinelFailoverCommand
<1> QED
  BY <1>10, <1>11, GoesKept DEF NetOk

\* The invariant holds at the beginning.
LEMMA InitNetOk == Init => NetOk
<1> SUFFICES ASSUME Init PROVE NetOk
  OBVIOUS
<1> DEFINE fl == IF conf.can THEN {"CAN_FAILOVER"} ELSE {}
           new == createSentinelRedisInstance("master", First, fl)
           m == [new EXCEPT !.prio = 0]
<1>1. /\ st.ri = [i \in {MasterId} |-> m] /\ st.tilt = FALSE /\ st.tiltAge = Never /\ st.scripts = <<>> /\ st.running = 0
      /\ st.wild = {} /\ Parts \subseteq DOMAIN st
      /\ family \in DOMAIN Conf /\ masters = {First}
      /\ inst = [a \in Addr |-> [up |-> a \in conf.servers, busy |-> FALSE, role |-> IF a = First THEN "master" ELSE "slave",
                               of |-> IF a = First THEN Nil ELSE First, link |-> a \in conf.servers \ {First}, mdown |-> 0, boots |-> 0]]
  BY DEF Init, Parts
<1> HIDE DEF fl
<1>2. /\ InstOk(MasterId, new) /\ new.type = "master" /\ new.addr = First /\ new.flags = fl \cup {"DISCONNECTED"}
      /\ new.cc = Nil /\ new.fstate = "NONE" /\ new.promoted = Nil
  <2>1. Kind(MasterId) = "master"
    BY DEF Kind
  <2>2. First \in Addr
    BY Constants
  <2> QED
    BY <2>1, <2>2, NewInst
<1> HIDE DEF new
<1>3. /\ Key \subseteq DOMAIN m /\ m.type = new.type /\ m.addr = new.addr /\ m.runid = new.runid /\ m.cc = new.cc
      /\ m.out = new.out /\ m.pend = new.pend /\ m.md = new.md /\ m.prio = 0 /\ m.fstate = new.fstate /\ m.promoted = new.promoted
      /\ m.flags = new.flags
  BY <1>2, InstFields DEF Key
<1> HIDE DEF m
<1>4. InstOk(MasterId, m)
  BY <1>2, <1>3, InstSame, InstFields DEF Has
<1>5. DOMAIN st.ri = {MasterId} /\ st.ri[MasterId] = m /\ M(st) = m
  BY <1>1 DEF M
<1>6. Insts(st.ri)
  BY <1>4, <1>5, FS_Singleton DEF Insts
<1>7. Shape(st)
  <2>1. Never \in Int /\ ~(Never < T.tilt)
    BY Constants DEF Never
  <2>2. IsList(<<>>) /\ Len(<<>>) = 0
    BY DEF IsList
  <2> QED
    BY <1>1, <2>1, <2>2, Constants DEF Shape, ScriptsOk
<1>8. Alone(st, First)
  BY <1>2, <1>3, <1>5, <1>6, <1>7 DEF Alone, Sane, fl
<1>9. Fine(st, masters)
  BY <1>1, <1>8, AloneFine
<1>10. M(st).fstate # "UPDATE_CONFIG"
  BY <1>8 DEF Alone
<1>11. ServersOk(inst)
  BY <1>1, Constants DEF ServersOk, ServerOk
<1>12. Claims(inst) \subseteq masters
  BY <1>1 DEF Claims
<1> QED
  BY <1>1, <1>9, <1>10, <1>11, <1>12 DEF NetOk, Conforms

\* Every step keeps it, and is one that the action properties allow.
LEMMA NextKeeps ==
  ASSUME NetOk, [Next]_vars
  PROVE  NetOk' /\ Moves(st, st', conf)
<1>1. CASE Timer
  BY <1>1, TimerKeeps
<1>2. CASE Tick
  BY <1>2, TickKeeps
<1>3. ASSUME NEW i \in DOMAIN st.ri, Answered(i) \/ Disconnected(i)
      PROVE  NetOk' /\ Moves(st, st', conf)
  BY <1>3, AnsweredKeeps, DisconnectedKeeps
<1>4. CASE PubsubDisconnected
  BY <1>4, PubsubKeeps
<1>5. ASSUME NEW h \in conf.hellos, sentinelReceiveHelloMessages(h)
      PROVE  NetOk' /\ Moves(st, st', conf)
  BY <1>5, HelloKeeps
<1>6. CASE TimeJump
  BY <1>6, TimeJumpKeeps
<1>7. ASSUME NEW a \in Addr, Crash(a) \/ Reboot(a) \/ Script(a) \/ Replicate(a)
      PROVE  NetOk' /\ Moves(st, st', conf)
  BY <1>7, ServersKeep, RebootKeeps
<1>8. ASSUME NEW a \in Addr, NEW cmd \in RoleCommands, SomebodyCommands(a, cmd)
      PROVE  NetOk' /\ Moves(st, st', conf)
  BY <1>8, CommandedKeeps
<1>9. ASSUME NEW w \in st.wild, LateCommand(w)
      PROVE  NetOk' /\ Moves(st, st', conf)
  BY <1>9, LateCommandKeeps
<1>10. ASSUME NEW n \in DOMAIN st.scripts, ScriptEnds(n)
       PROVE  NetOk' /\ Moves(st, st', conf)
  BY <1>10, ScriptEndsKeeps
<1>11. CASE sentinelResetMastersByPattern
  BY <1>11, ResetKeeps
<1>12. CASE sentinelFailoverCommand
  BY <1>12, FailoverCommandKeeps
<1>13. CASE UNCHANGED vars
  <2>1. family' = family /\ st' = st /\ inst' = inst /\ masters' = masters
    BY <1>13 DEF vars
  <2> QED
    BY <2>1, SameSentinel DEF NetOk
<1> QED
  BY <1>1, <1>2, <1>3, <1>4, <1>5, <1>6, <1>7, <1>8, <1>9, <1>10, <1>11, <1>12, <1>13 DEF Next

\* The inductive invariant: it ties the table of instances to the failover it is in, and the names the
\* sentinel knows to servers that were masters.
THEOREM SentinelInvariant == Spec => []NetOk
<1>1. Init => NetOk
  BY InitNetOk
<1>2. NetOk /\ [Next]_vars => NetOk'
  BY NextKeeps
<1> QED
  BY <1>1, <1>2, PTL DEF Spec

\* What the invariant says of the table, as InstancesAgree states it.
LEMMA NetOkAgrees == NetOk => InstancesAgree
<1> SUFFICES ASSUME NetOk PROVE InstancesAgree
  OBVIOUS
<1>1. Fine(st, masters) /\ Sane(st) /\ Insts(st.ri) /\ Shape(st) /\ M(st).fstate # "UPDATE_CONFIG"
  BY DEF NetOk, Fine, Sane
<1>2. Phase(M(st), PromotedIn(st.ri), BusyIn(st.ri)) /\ MasterId \in DOMAIN st.ri
  BY <1>1, PhaseOf DEF Insts
<1>3. TypeOK
  <2>1. ASSUME NEW i \in DOMAIN st.ri
        PROVE  LET r == st.ri[i] IN
               /\ r.type = "master" <=> i = MasterId
               /\ r.pend >= MinPending /\ (r.type # "slave" => r.pend <= MaxPending + 1)
               /\ r.cc = Nil => r.out = <<>> /\ Has(r, "DISCONNECTED")
    <3> DEFINE r == st.ri[i]
    <3>1. InstOk(i, r)
      BY <1>1 DEF Insts
    <3> HIDE DEF r
    <3>2. r.type = Kind(i) /\ LinkOk(r) /\ r.pend \in Int /\ r.pend >= MinPending
      BY <3>1 DEF InstOk, PendOk
    <3>3. r.type = "master" => r.pend <= MaxPending
      BY <3>1 DEF InstOk, PendOk
    <3>4. r.type = "sentinel" => r.pend <= MaxPending + 1
      BY <3>1 DEF InstOk, PendOk
    <3>5. r.type = "master" <=> i = MasterId
      BY <3>2 DEF Kind
    <3>6. r.type # "slave" => r.pend <= MaxPending + 1
      BY <3>2, <3>3, <3>4, Constants DEF Kind
    <3>7. r.cc = Nil => r.out = <<>> /\ Has(r, "DISCONNECTED")
      BY <3>2 DEF LinkOk
    <3> QED
      BY <3>2, <3>5, <3>6, <3>7 DEF r
  <2>2. family \in DOMAIN Conf
    BY DEF NetOk, Conforms
  <2>3. M(st).fstate \in States \ {"UPDATE_CONFIG"}
    BY <1>1, <1>2 DEF Phase
  <2>4. Len(st.scripts) <= ScriptMaxQueue /\ st.running <= ScriptMaxRunning
    BY <1>1 DEF Shape, ScriptsOk
  <2> QED
    BY <1>2, <2>1, <2>2, <2>3, <2>4 DEF TypeOK
<1>4. FailoverConsistent
  <2> DEFINE m == M(st)
             busy == {i \in Slaves : Has(st.ri[i], "RECONF_SENT") \/ Has(st.ri[i], "RECONF_INPROG")}
             flagged == {i \in Slaves : Has(st.ri[i], "PROMOTED")}
  <2>1. busy = BusyIn(st.ri) /\ flagged = PromotedIn(st.ri)
    BY DEF Slaves, Of, BusyIn, PromotedIn, SlavesIn
  <2>2. Phase(m, flagged, busy)
    BY <1>2, <2>1
  <2> HIDE DEF m, busy, flagged
  <2>3. /\ Has(m, "FAILOVER_IN_PROGRESS") <=> m.fstate # "NONE"
        /\ Has(m, "I_AM_THE_LEADER") => Has(m, "FAILOVER_IN_PROGRESS")
        /\ flagged = {m.promoted} \ {Nil}
        /\ m.fstate \in {"SEND_SLAVEOF_NOONE", "WAIT_PROMOTION"} \cup Promoted \/ busy # {} => m.promoted # Nil
    BY <2>2 DEF Phase
  <2> QED
    BY <2>3 DEF FailoverConsistent, m, busy, flagged
<1>5. OneEntryPerSentinel
  BY <1>1 DEF Fine, Runids, OneEntryPerSentinel, Of
<1> QED
  BY <1>3, <1>4, <1>5 DEF InstancesAgree

\* The table of instances agrees with the failover it is in, whatever the replies, the crashes, the other
\* sentinels and the clients do, and in whatever order (InstancesAgree).
THEOREM InstancesAgreeCorrect == Spec => []InstancesAgree
<1>1. NetOk => InstancesAgree
  BY NetOkAgrees
<1> QED
  BY <1>1, SentinelInvariant, PTL

\* The address clients are given is of a server that is or was a master (AddressWasMaster): the promoted
\* slave is named only in the states of the failover that its own INFO led to.
THEOREM AddressCorrect == Spec => []AddressWasMaster
<1>1. NetOk => AddressWasMaster
  BY DEF NetOk, Fine, Named, M, AddressWasMaster, getMasterAddrByName, PromotedIsMaster
<1> QED
  BY <1>1, SentinelInvariant, PTL

\* The master becomes objectively down on answers that are recent (ODownIsFresh).
THEOREM ODownCorrect == Spec => ODownIsFresh
<1>1. ASSUME NetOk, [Next]_vars
      PROVE  Has(M(st'), "O_DOWN") /\ ~Has(M(st), "O_DOWN") =>
               1 + Cardinality({i \in Of(st', "sentinel") : Has(st'.ri[i], "MASTER_DOWN") /\ st'.ri[i].md <= T.validity})
                 >= conf.quorum
  <2>1. Moves(st, st', conf)
    BY <1>1, NextKeeps
  <2>2. FreshIn(st'.ri) = {i \in Of(st', "sentinel") : Has(st'.ri[i], "MASTER_DOWN") /\ st'.ri[i].md <= T.validity}
    BY DEF FreshIn, Of
  <2> QED
    BY <2>1, <2>2 DEF Moves, Decided
<1>2. NetOk /\ [Next]_vars =>
        [Has(M(st'), "O_DOWN") /\ ~Has(M(st), "O_DOWN") =>
           1 + Cardinality({i \in Of(st', "sentinel") : Has(st'.ri[i], "MASTER_DOWN") /\ st'.ri[i].md <= T.validity})
             >= conf.quorum]_vars
  BY <1>1
<1> QED
  BY <1>2, SentinelInvariant, PTL DEF Spec, ODownIsFresh

\* While the clock is not to be trusted no server is told to change its role, and no sentinel that the
\* master is down (TiltHolds).
THEOREM TiltCorrect == Spec => TiltHolds
<1>1. ASSUME NetOk, [Next]_vars
      PROVE  st'.tiltAge < T.tilt => /\ ~isMasterDownByAddr(M(st).addr)'[1]
                                     /\ \A i \in DOMAIN st.ri : RolesSent(st', i) \subseteq RolesSent(st, i)
  <2>1. NetOk' /\ Moves(st, st', conf)
    BY <1>1, NextKeeps
  <2>2. st'.tiltAge < T.tilt => st'.tilt
    BY <2>1 DEF NetOk, Fine, Sane, Shape
  <2>3. st'.tilt => ~isMasterDownByAddr(M(st).addr)'[1]
    BY DEF isMasterDownByAddr
  <2> QED
    BY <2>1, <2>2, <2>3 DEF Moves
<1>2. NetOk /\ [Next]_vars =>
        [st'.tiltAge < T.tilt => /\ ~isMasterDownByAddr(M(st).addr)'[1]
                                 /\ \A i \in DOMAIN st.ri : RolesSent(st', i) \subseteq RolesSent(st, i)]_vars
  BY <1>1
<1> QED
  BY <1>2, SentinelInvariant, PTL DEF Spec, TiltHolds
=============================================================================
