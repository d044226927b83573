------------------------------ MODULE Skiplist ------------------------------
(***************************************************************************)
(* The skip list of a sorted set (the zsl functions of t_zset.c): nodes in *)
(* order of score and member, linked at each of their levels, every link   *)
(* with the number of nodes it crosses (its span), so that a rank is the   *)
(* sum of the spans on the way down.  A node is named by its member, which *)
(* is unique; Header and Null are no members.                              *)
(*                                                                         *)
(* zslWant is the dictionary of the same sorted set: member to score.      *)
(***************************************************************************)
EXTENDS Integers, FiniteSets, FiniteSetsExt, Functions, TLC

CONSTANTS ZslMembers,  \* positive numbers, in the order of compareStringObjects
          ZslScores,
          ZslMaxLevel  \* ZSKIPLIST_MAXLEVEL

VARIABLES zsl, zslWant

zslVars == <<zsl, zslWant>>

Header == 0
Null == -1
ZslNodes == ZslMembers \cup {Header}
ZslLevels == 1..ZslMaxLevel

zslCreate ==
    [level |-> 1, length |-> 0, tail |-> Null,
     score |-> [n \in ZslMembers |-> 0], back |-> [n \in ZslMembers |-> Null],
     forward |-> [n \in ZslNodes |-> [i \in ZslLevels |-> Null]],
     span |-> [n \in ZslNodes |-> [i \in ZslLevels |-> 0]]]

(* The way down the levels: at each level the last node whose next one is   *)
(* not among the nodes, or the ranks, to pass; with the rank reached there  *)
Descend(z, nodes, ranks) ==
    LET along[i \in ZslLevels, x \in ZslNodes, r \in Nat] ==
          LET n == z.forward[x][i]
              to == r + z.span[x][i]
          IN  IF n \in nodes /\ to \in ranks THEN along[i, n, to]
              ELSE [node |-> x, rank |-> r]
        stop[i \in 1..z.level] ==
          IF i = z.level THEN along[i, Header, 0]
          ELSE along[i, stop[i + 1].node, stop[i + 1].rank]
    IN  stop

(* Node n of the list comes before a member with a score *)
Sooner(z, n, score, obj) ==
    z.score[n] < score \/ (z.score[n] = score /\ n < obj)

NodesSooner(z, score, obj) == {n \in ZslMembers : Sooner(z, n, score, obj)}

(* The links a new node of some level is put into, the new levels included *)
LinksBefore(z, score, obj) ==
    LET stop == Descend(z, NodesSooner(z, score, obj), Nat) IN
    [i \in ZslLevels |-> IF i <= z.level
        THEN [node |-> stop[i].node, rank |-> stop[i].rank, span |-> z.span[stop[i].node][i]]
        ELSE [node |-> Header, rank |-> 0, span |-> z.length]]

(* The two halves of a span that a new node of rank[1] + 1 divides *)
SpanBefore(at, i) == at[1].rank - at[i].rank + 1
SpanAfter(at, i) == at[i].span - (at[1].rank - at[i].rank)

zslInsert(z, level, score, obj) ==
    LET at == LinksBefore(z, score, obj)
        high == Max({level, z.level})
        next == z.forward[at[1].node][1]
        Linked(n, i) == i <= level /\ n = at[i].node
        Passed(n, i) == i > level /\ i <= z.level /\ n = at[i].node
        New(n, i) == n = obj /\ i <= level
    IN  [level |-> high, length |-> z.length + 1,
         tail |-> IF next = Null THEN obj ELSE z.tail,
         score |-> [z.score EXCEPT ![obj] = score],
         back |-> [n \in ZslMembers |->
             CASE n = obj -> IF at[1].node = Header THEN Null ELSE at[1].node
               [] n = next -> obj
               [] OTHER -> z.back[n]],
         forward |-> [n \in ZslNodes |-> [i \in ZslLevels |->
             CASE New(n, i) -> z.forward[at[i].node][i]
               [] Linked(n, i) -> obj
               [] OTHER -> z.forward[n][i]]],
         span |-> [n \in ZslNodes |-> [i \in ZslLevels |->
             CASE New(n, i) -> SpanAfter(at, i)
               [] Linked(n, i) -> SpanBefore(at, i)
               [] Passed(n, i) -> at[i].span + 1
               [] OTHER -> z.span[n][i]]]]

(* The links of the last node before x, at every level in use *)
zslDeleteNode(z, x, update) ==
    LET next == z.forward[x][1]
        Links(n, i) == i <= z.level /\ n = update[i] /\ z.forward[n][i] = x
        Passes(n, i) == i <= z.level /\ n = update[i] /\ z.forward[n][i] # x
        forward == [n \in ZslNodes |-> [i \in ZslLevels |->
            CASE n = x -> Null
              [] n # x /\ Links(n, i) -> z.forward[x][i]
              [] OTHER -> z.forward[n][i]]]
    IN  [level |-> Max({1} \cup {i \in 1..z.level : forward[Header][i] # Null}),
         length |-> z.length - 1,
         tail |-> IF next = Null THEN z.back[x] ELSE z.tail,
         score |-> [z.score EXCEPT ![x] = 0],
         back |-> [n \in ZslMembers |->
             CASE n = x -> Null [] n = next -> z.back[x] [] OTHER -> z.back[n]],
         forward |-> forward,
         span |-> [n \in ZslNodes |-> [i \in ZslLevels |->
             CASE n = x -> 0
               [] n # x /\ Links(n, i) -> z.span[n][i] + z.span[x][i] - 1
               [] Passes(n, i) -> z.span[n][i] - 1
               [] OTHER -> z.span[n][i]]]]

Nodes(stop) == [i \in DOMAIN stop |-> stop[i].node]

zslDelete(z, score, obj) ==
    LET update == Nodes(Descend(z, NodesSooner(z, score, obj), Nat))
        x == z.forward[update[1]][1]
    IN  IF x = obj /\ z.score[x] = score THEN zslDeleteNode(z, x, update) ELSE z

(* Deletes the next nodes while they, and their ranks, are in range, all with *)
(* the same update links                                                     *)
Sweep(z, update, first, nodes, ranks) ==
    LET rest[k \in 0..z.length] ==
          IF k = 0 THEN [z |-> z, x |-> z.forward[update[1]][1], rank |-> first]
          ELSE LET s == rest[k - 1] IN
               IF s.x \in nodes /\ s.rank \in ranks
               THEN [z |-> zslDeleteNode(s.z, s.x, update),
                     x |-> s.z.forward[s.x][1], rank |-> s.rank + 1]
               ELSE s
    IN  rest[z.length].z

(* A range of scores: [min, max, minex, maxex] *)
GteMin(score, r) == IF r.minex THEN score > r.min ELSE score >= r.min
LteMax(score, r) == IF r.maxex THEN score < r.max ELSE score <= r.max

Below(z, r) == {n \in ZslMembers : ~GteMin(z.score[n], r)}
NotAbove(z, r) == {n \in ZslMembers : LteMax(z.score[n], r)}

zslDeleteRangeByScore(z, r) ==
    Sweep(z, Nodes(Descend(z, Below(z, r), Nat)), 0, NotAbove(z, r), Nat)

zslDeleteRangeByRank(z, start, end) ==
    LET stop == Descend(z, ZslMembers, 0..start - 1) IN
    Sweep(z, Nodes(stop), stop[1].rank + 1, ZslMembers, 0..end)

(* 0 when the member is not found with this score *)
zslGetRank(z, score, obj) ==
    LET stop == Descend(z, NodesSooner(z, score, obj) \cup {n \in {obj} : z.score[n] = score}, Nat)
        at == {i \in 1..z.level : stop[i].node = obj}
    IN  IF at = {} THEN 0 ELSE stop[Max(at)].rank

zslGetElementByRank(z, rank) ==
    LET stop == Descend(z, ZslMembers, 0..rank)
        at == {i \in 1..z.level : stop[i].rank = rank}
    IN  IF at = {} THEN Null ELSE stop[Max(at)].node

zslIsInRange(z, r) ==
    /\ ~(r.min > r.max \/ (r.min = r.max /\ (r.minex \/ r.maxex)))
    /\ z.tail # Null /\ GteMin(z.score[z.tail], r)
    /\ LteMax(z.score[z.forward[Header][1]], r)

zslFirstInRange(z, r) ==
    LET x == z.forward[Descend(z, Below(z, r), Nat)[1].node][1] IN
    IF zslIsInRange(z, r) /\ LteMax(z.score[x], r) THEN x ELSE Null

zslLastInRange(z, r) ==
    LET x == Descend(z, NotAbove(z, r), Nat)[1].node IN
    IF zslIsInRange(z, r) /\ GteMin(z.score[x], r) THEN x ELSE Null

----------------------------------------------------------------------------
Ranges == [min : ZslScores, max : ZslScores, minex : BOOLEAN, maxex : BOOLEAN]

ZslInit ==
    /\ zsl = zslCreate
    /\ zslWant = <<>>

(* zslRandomLevel draws the level; a member that has a score leaves first *)
ZslAdd(obj, score, level) ==
    /\ LET z == IF obj \in DOMAIN zslWant THEN zslDelete(zsl, zslWant[obj], obj) ELSE zsl
       IN  zsl' = zslInsert(z, level, score, obj)
    /\ zslWant' = (obj :> score) @@ zslWant

ZslRemove(obj) ==
    /\ obj \in DOMAIN zslWant
    /\ zsl' = zslDelete(zsl, zslWant[obj], obj)
    /\ zslWant' = Restrict(zslWant, DOMAIN zslWant \ {obj})

(* The members a range deletion drops from the list leave the dictionary too *)
Listed(z) == {n \in ZslMembers : \E m \in ZslNodes : z.forward[m][1] = n}

ZslRemoveRange(r) ==
    /\ zsl' = zslDeleteRangeByScore(zsl, r)
    /\ zslWant' = Restrict(zslWant, {n \in DOMAIN zslWant :
                      ~(GteMin(zslWant[n], r) /\ LteMax(zslWant[n], r))})

ZslRankIn(want, n) ==
    Cardinality({m \in DOMAIN want : want[m] < want[n] \/ (want[m] = want[n] /\ m <= n)})

ZslRemoveRanks(start, end) ==
    /\ zsl' = zslDeleteRangeByRank(zsl, start, end)
    /\ zslWant' = Restrict(zslWant, {n \in DOMAIN zslWant :
                      ZslRankIn(zslWant, n) \notin start..end})

ZslActs ==
    \/ \E obj \in ZslMembers, score \in ZslScores, level \in ZslLevels :
          ZslAdd(obj, score, level)
    \/ \E obj \in ZslMembers : ZslRemove(obj)
    \/ \E r \in Ranges : ZslRemoveRange(r)
    \/ \E start, end \in 1..zsl.length : ZslRemoveRanks(start, end)

----------------------------------------------------------------------------
(* The list in order of score and member *)
ZslAt(rank) == CHOOSE n \in DOMAIN zslWant : ZslRankIn(zslWant, n) = rank

(* Every link of the list crosses exactly the nodes its span counts, and    *)
(* goes to the next node of its level (t_zset.c:107-182).                   *)
SpansAreRanks ==
    LET rank(n) == IF n = Header THEN 0 ELSE ZslRankIn(zslWant, n)
    IN  /\ Listed(zsl) = DOMAIN zslWant
        /\ \A n \in DOMAIN zslWant \cup {Header}, i \in 1..zsl.level :
              LET m == zsl.forward[n][i] IN
              m # Null => rank(m) = rank(n) + zsl.span[n][i] /\ rank(m) > rank(n)

(* What the list answers is what the scores say: ranks, the member at a     *)
(* rank, both ends of every range, the length and the way back              *)
SkiplistHoldsZset ==
    /\ zsl.length = Cardinality(DOMAIN zslWant)
    /\ SpansAreRanks
    /\ \A n \in DOMAIN zslWant :
          LET k == ZslRankIn(zslWant, n) IN
          /\ zslGetRank(zsl, zslWant[n], n) = k
          /\ zslGetElementByRank(zsl, k) = n
          /\ zsl.back[n] = IF k = 1 THEN Null ELSE ZslAt(k - 1)
    /\ zsl.tail = IF zsl.length = 0 THEN Null ELSE ZslAt(zsl.length)
    /\ \A r \in Ranges :
          LET in == {n \in DOMAIN zslWant : GteMin(zslWant[n], r) /\ LteMax(zslWant[n], r)}
              ranks == {ZslRankIn(zslWant, n) : n \in in}
          IN  /\ zslFirstInRange(zsl, r) = IF in = {} THEN Null ELSE ZslAt(Min(ranks))
              /\ zslLastInRange(zsl, r) = IF in = {} THEN Null ELSE ZslAt(Max(ranks))
=============================================================================
