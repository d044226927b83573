-------------------------- MODULE ShipQueue_proofs --------------------------
(***************************************************************************)
(* Proofs about ShipQueue, for any planets, ships, prices and bounds.      *)
(*                                                                         *)
(* A row and its job agree by planet, ship and qid only, so everything     *)
(* rests on the qids: rows never share one, also with the group that is    *)
(* still to be saved (QueueInv).  The bags of jobs are compared job by     *)
(* job, by the number of their copies.                                     *)
(***************************************************************************)
EXTENDS ShipQueue, SumTheorems

\* How often a job is pending, in the delayed queue or in the queue add_ships.
Count(jobs, j) == IF j \in DOMAIN jobs THEN jobs[j] ELSE 0
Pending(j) == Count(delayed, j) + Count(ready, j)

\* The jobs of the group that the web process is about to save.
JobOfEntry(e) == [ship |-> e.ship, planet |-> web.planet, qid |-> e.qid, due |-> e.end]
GroupJobs == IF web = None THEN {} ELSE {JobOfEntry(web.entries[i]) : i \in DOMAIN web.entries}
RowJobs == {JobOf(r) : r \in rows}

RowsById ==
  /\ IsFiniteSet(rows)
  /\ \A r \in rows : r.id < nextId
  /\ \A r, q \in rows : r.id = q.id => r = q

\* The group has the ships of one type that are still to do, with the next qids.
GroupFits ==
  web # None =>
    /\ nextId + Ships(web.todo) <= MaxRows
    /\ \A i \in DOMAIN web.entries :
         /\ Len(web.entries) = web.todo[web.entries[1].ship]
         /\ web.entries[i].ship = web.entries[1].ship
         /\ web.entries[i].qid = web.entries[1].qid + i - 1
         /\ \A r \in rows : r.qid < web.entries[i].qid

ReadyIsDue == \A j \in DOMAIN ready : j.due <= now

\* What awaits its ship, saved or not, has its job, unless it was due when saved.
RowsAwait == \A r \in rows : r.end <= r.born \/ Pending(JobOf(r)) > 0
GroupAwaits ==
  web # None => \A i \in DOMAIN web.entries :
    web.entries[i].end <= now \/ Pending(JobOfEntry(web.entries[i])) > 0

\* While scheduler and workers keep up, no job lags behind an order in progress, and the
\* pending jobs are those of rows and group, each once.
Ahead ==
  ~Late /\ web # None => DOMAIN ready = {} /\ \A j \in DOMAIN delayed : j.due > now
JobsAreRows ==
  ~Late => \A j \in Job : Pending(j) = IF j \in RowJobs \cup GroupJobs THEN 1 ELSE 0

QueueInv ==
  /\ TypeOK /\ RowsById /\ QidsIncrease /\ GroupFits
  /\ ReadyIsDue /\ RowsAwait /\ GroupAwaits
  /\ Ahead /\ JobsAreRows
-----------------------------------------------------------------------------
LEMMA Constants ==
  /\ IsFiniteSet(Planet) /\ IsFiniteSet(Ship)
  /\ \A s \in Ship : ConTime[s] \in Nat /\ ConTime[s] > 0
  /\ \A s \in Ship : \A g \in Good \cup {"Money"} : Price[s][g] \in Nat
  /\ \A s \in Ship : Price[s]["Crystal"] <= Price[s]["Money"]
  /\ \A g \in Good : Cap[g] \in Nat /\ StartStock[g] \in Nat /\ StartStock[g] <= Cap[g]
  /\ StartMoney \in Nat /\ None \notin Request
  /\ MaxRows \in Nat /\ MaxCount \in Nat
BY ShipQueueAssumption

\* What Resque keeps in a queue.
IsJobs(jobs) == DOMAIN jobs \subseteq Job /\ \A j \in DOMAIN jobs : jobs[j] \in Nat \ {0}

LEMMA CountJobs ==
  ASSUME NEW jobs, IsJobs(jobs)
  PROVE  \A j : Count(jobs, j) \in Nat /\ (j \in DOMAIN jobs <=> Count(jobs, j) > 0)
BY DEF IsJobs, Count

LEMMA JobsAdded ==
  ASSUME NEW old, IsJobs(old), NEW new, IsJobs(new)
  PROVE  /\ IsJobs(old (+) new)
         /\ \A j \in Job : Count(old (+) new, j) = Count(old, j) + Count(new, j)
         /\ DOMAIN (old (+) new) = DOMAIN old \cup DOMAIN new
BY DEF IsJobs, Count, (+)

LEMMA JobTaken ==
  ASSUME NEW jobs, IsJobs(jobs), NEW j \in DOMAIN jobs
  PROVE  /\ IsJobs(jobs (-) SetToBag({j}))
         /\ DOMAIN (jobs (-) SetToBag({j})) \subseteq DOMAIN jobs
         /\ \A k \in Job : Count(jobs (-) SetToBag({j}), k) =
                              IF k = j THEN Count(jobs, k) - 1 ELSE Count(jobs, k)
<1> DEFINE less == [k \in DOMAIN jobs |-> IF k \in {j} THEN jobs[k] - 1 ELSE jobs[k]]
           rest == jobs (-) SetToBag({j})
<1>1. rest = [k \in {d \in DOMAIN jobs : less[d] > 0} |-> less[k]]
  BY DEF (-), SetToBag
<1>2. \A k \in DOMAIN jobs : less[k] \in Nat /\ jobs[k] \in Nat /\ jobs[k] > 0
                             /\ less[k] = IF k = j THEN jobs[k] - 1 ELSE jobs[k]
  BY DEF IsJobs
<1> HIDE DEF less
<1>3. /\ DOMAIN rest = {d \in DOMAIN jobs : less[d] > 0}
      /\ \A k \in DOMAIN rest : rest[k] = less[k]
  BY <1>1
<1> HIDE DEF rest
<1>4. IsJobs(rest) /\ DOMAIN rest \subseteq DOMAIN jobs
  BY ONLY <1>2, <1>3, IsJobs(jobs) DEF IsJobs
<1>5. \A k \in Job : Count(rest, k) = IF k = j THEN Count(jobs, k) - 1 ELSE Count(jobs, k)
  BY ONLY <1>2, <1>3, j \in DOMAIN jobs DEF Count
<1> QED
  BY <1>4, <1>5 DEF rest

LEMMA JobsOfSet ==
  ASSUME NEW S \in SUBSET Job
  PROVE  /\ IsJobs(SetToBag(S)) /\ DOMAIN SetToBag(S) = S
         /\ \A j : Count(SetToBag(S), j) = IF j \in S THEN 1 ELSE 0
BY DEF IsJobs, Count, SetToBag

LEMMA JobsKept ==
  ASSUME NEW jobs, IsJobs(jobs), NEW rs
  PROVE  /\ IsJobs(RemoveDelayed(jobs, rs))
         /\ DOMAIN RemoveDelayed(jobs, rs) \subseteq DOMAIN jobs
         /\ \A j : Count(RemoveDelayed(jobs, rs), j) =
               IF \E r \in rs : j = [JobOf(r) EXCEPT !.due = j.due] THEN 0 ELSE Count(jobs, j)
BY DEF IsJobs, Count, RemoveDelayed

LEMMA Types ==
  ASSUME TypeOK
  PROVE  /\ IsJobs(delayed) /\ IsJobs(ready) /\ now \in Nat /\ nextId \in Nat /\ nextId <= MaxRows
         /\ \A r \in rows : /\ r.id \in Nat /\ r.qid \in Nat /\ r.end \in Int /\ r.born \in Nat
                            /\ r.planet \in Planet /\ r.ship \in Ship
                            /\ JobOf(r) \in Job
         /\ \A j \in Job : Count(delayed, j) \in Nat /\ Count(ready, j) \in Nat
                           /\ Pending(j) \in Nat
<1>1. IsJobs(delayed) /\ IsJobs(ready)
  BY DEF TypeOK, IsJobs
<1>2. \A j \in Job : Count(delayed, j) \in Nat /\ Count(ready, j) \in Nat
  BY <1>1, CountJobs
<1>3. \A r \in rows : /\ r.id \in Nat /\ r.qid \in Nat /\ r.end \in Int /\ r.born \in Nat
                      /\ r.planet \in Planet /\ r.ship \in Ship
                      /\ JobOf(r) \in Job
  BY DEF TypeOK, Row, JobOf, Job
<1>4. now \in Nat /\ nextId \in Nat /\ nextId <= MaxRows
  BY Constants DEF TypeOK
<1> QED
  BY <1>1, <1>2, <1>3, <1>4 DEF Pending

\* The order in the hands of the web process.
LEMMA Web ==
  ASSUME TypeOK, web # None
  PROVE  /\ web \in Request
         /\ web.planet \in Planet /\ web.todo \in Order /\ web.entries \in Seq(Entry)
         /\ \A s \in Ship : web.todo[s] \in Nat /\ web.todo[s] \in 0 .. MaxCount
         /\ \A i \in DOMAIN web.entries :
              /\ web.entries[i] \in Entry /\ web.entries[i].ship \in Ship
              /\ web.entries[i].qid \in Nat /\ web.entries[i].end \in Int
              /\ JobOfEntry(web.entries[i]) \in Job
         /\ Len(web.entries) \in Nat /\ DOMAIN web.entries = 1 .. Len(web.entries)
<1>1. /\ web \in Request
      /\ web.planet \in Planet /\ web.todo \in Order /\ web.entries \in Seq(Entry)
  BY DEF TypeOK, Request
<1>2. \A s \in Ship : web.todo[s] \in 0 .. MaxCount
  BY <1>1 DEF Order
<1>3. \A s \in Ship : web.todo[s] \in Nat
  BY <1>2, Constants
<1>4. \A i \in DOMAIN web.entries : web.entries[i] \in Entry
  BY <1>1
<1>5. Len(web.entries) \in Nat /\ DOMAIN web.entries = 1 .. Len(web.entries)
  BY <1>1
<1> QED
  BY <1>1, <1>2, <1>3, <1>4, <1>5 DEF Entry, JobOfEntry, Job

LEMMA ShipsAreSum ==
  ASSUME NEW order \in Order
  PROVE  /\ Ships(order) = SumFunctionOnSet(order, Ship) /\ Ships(order) \in Nat
         /\ \A s \in Ship : order[s] \in Nat /\ order[s] <= Ships(order)
<1>1. DOMAIN order = Ship /\ \A s \in Ship : order[s] \in Nat
  BY Constants DEF Order
<1>2. Ships(order) = SumFunctionOnSet(order, Ship)
  BY <1>1 DEF Ships, SumFunction
<1> QED
  BY <1>1, <1>2, Constants, SumNat

\* The highest primary key exists, and no two rows share a qid.
LEMMA LastRowExists ==
  ASSUME TypeOK, RowsById, NEW rs \in SUBSET rows, rs # {}
  PROVE  LastRow(rs) \in rs /\ \A r \in rs : r.id <= LastRow(rs).id
<1> DEFINE T == {nextId - r.id : r \in rs}
<1>1. \A r \in rs : r.id \in Nat /\ r.id < nextId /\ nextId \in Nat
  BY Types DEF RowsById
<1>2. T \subseteq Nat /\ T # {}
  BY <1>1
<1>3. PICK x \in T : \A y \in T : ~ (<<y, x>> \in OpToRel(<, Nat))
  <2> HIDE DEF T
  <2> QED
    BY <1>2, NatLessThanWellFounded, WFMin, Zenon
<1>4. \A y \in T : y \in Nat /\ x \in Nat /\ ~ (y < x)
  BY <1>2, <1>3 DEF OpToRel
<1>5. PICK r \in rs : x = nextId - r.id
  OBVIOUS
<1>6. \A q \in rs : q.id <= r.id
  BY <1>1, <1>4, <1>5
<1> QED
  BY <1>6 DEF LastRow

LEMMA QidsApart ==
  ASSUME TypeOK, RowsById, QidsIncrease, NEW r \in rows, NEW q \in rows, r.qid = q.qid
  PROVE  r = q
<1>1. r.id \in Nat /\ q.id \in Nat /\ r.qid \in Nat /\ q.qid \in Nat
  BY Types
<1>2. ~(r.id < q.id) /\ ~(q.id < r.id)
  BY <1>1 DEF QidsIncrease
<1> QED
  BY <1>1, <1>2 DEF RowsById

-----------------------------------------------------------------------------
LEMMA CostIsNat ==
  ASSUME NEW order \in Order, NEW g \in Good \cup {"Money"}
  PROVE  CostOf(order, g) \in Nat
<1> DEFINE f == [s \in Ship |-> order[s] * Price[s][g]]
<1>1. DOMAIN f = Ship /\ \A s \in Ship : f[s] \in Nat
  BY ShipsAreSum, Constants
<1> HIDE DEF f
<1>2. SumFunction(f) \in Nat
  BY <1>1, Constants, SumNat DEF SumFunction
<1> QED
  BY <1>2 DEF CostOf, f

\* Insert moves whole prices or nothing, up to what does not fit.
LEMMA InsertPays ==
  ASSUME TypeOK, NEW p \in Planet, NEW order \in Order, Insert(p, order)
  PROVE  /\ web = None /\ nextId + Ships(order) <= MaxRows /\ KeepsUp
         /\ \A q \in Planet : q # p => stock'[q] = stock[q]
         /\ stock' \in [Planet -> [Good -> Nat]] /\ money' \in Nat
         /\ \/ /\ \A g \in Good : stock[p][g] = stock'[p][g] + CostOf(order, g)
               /\ money = money' + CostOf(order, "Money")
               /\ web' = [planet |-> p, todo |-> order, entries |-> <<>>]
            \/ /\ \A g \in Good : stock[p][g] <= Cap[g] => stock'[p][g] = stock[p][g]
               /\ money' = money /\ web' = None
<1> DEFINE taken == [g \in Good |-> Take(stock[p][g], CostOf(order, g))]
           paid  == Take(money, CostOf(order, "Money"))
           left  == [g \in Good |-> stock[p][g] - taken[g]]
           given == [g \in Good |-> Give(left[g], taken[g], Cap[g])]
<1>1. /\ \A g \in Good : stock[p][g] \in Nat /\ CostOf(order, g) \in Nat /\ Cap[g] \in Nat
      /\ money \in Nat /\ CostOf(order, "Money") \in Nat
      /\ stock \in [Planet -> [Good -> Nat]]
  BY CostIsNat, Constants DEF TypeOK
<1>2. /\ \A g \in Good : taken[g] \in Nat /\ left[g] \in Nat /\ stock[p][g] = left[g] + taken[g]
                         /\ given[g] \in Nat
                         /\ (stock[p][g] <= Cap[g] => given[g] = stock[p][g])
      /\ paid \in Nat /\ money - paid \in Nat /\ (money - paid) + paid = money
      /\ left \in [Good -> Nat] /\ given \in [Good -> Nat]
  <2>1. \A g \in Good : taken[g] \in Nat /\ left[g] \in Nat /\ stock[p][g] = left[g] + taken[g]
    BY ONLY <1>1 DEF Take
  <2>2. \A g \in Good : given[g] \in Nat /\ (stock[p][g] <= Cap[g] => given[g] = stock[p][g])
    <3> SUFFICES ASSUME NEW g \in Good
                 PROVE  given[g] \in Nat /\ (stock[p][g] <= Cap[g] => given[g] = stock[p][g])
      OBVIOUS
    <3>1. given[g] = Give(left[g], taken[g], Cap[g])
      OBVIOUS
    <3> HIDE DEF given, left, taken
    <3> QED
      BY ONLY <1>1, <2>1, <3>1, g \in Good DEF Give
  <2>3. paid \in Nat /\ money - paid \in Nat /\ (money - paid) + paid = money
    BY ONLY <1>1 DEF Take
  <2> QED
    BY <2>1, <2>2, <2>3
<1>3. /\ web = None /\ nextId + Ships(order) <= MaxRows /\ KeepsUp
      /\ \/ /\ \A g \in Good : taken[g] = CostOf(order, g)
            /\ paid = CostOf(order, "Money")
            /\ stock' = [stock EXCEPT ![p] = left]
            /\ money' = money - paid
            /\ web' = [planet |-> p, todo |-> order, entries |-> <<>>]
         \/ /\ stock' = [stock EXCEPT ![p] = given]
            /\ money' = (money - paid) + paid
            /\ web' = web
  BY DEF Insert
<1> HIDE DEF taken, paid, left, given
<1>4. CASE /\ \A g \in Good : taken[g] = CostOf(order, g)
           /\ paid = CostOf(order, "Money")
           /\ stock' = [stock EXCEPT ![p] = left]
           /\ money' = money - paid
           /\ web' = [planet |-> p, todo |-> order, entries |-> <<>>]
  <2>1. stock'[p] = left /\ (\A q \in Planet : q # p => stock'[q] = stock[q])
        /\ stock' \in [Planet -> [Good -> Nat]]
    BY ONLY <1>1, <1>2, <1>4, p \in Planet
  <2>2. money' \in Nat /\ money = money' + CostOf(order, "Money")
    BY ONLY <1>1, <1>2, <1>4
  <2>3. \A g \in Good : stock[p][g] = stock'[p][g] + CostOf(order, g)
    <3> SUFFICES ASSUME NEW g \in Good PROVE stock[p][g] = stock'[p][g] + CostOf(order, g)
      OBVIOUS
    <3>1. stock[p][g] = left[g] + taken[g] /\ left[g] \in Nat /\ taken[g] \in Nat
      BY ONLY <1>2, g \in Good
    <3>2. taken[g] = CostOf(order, g) /\ stock'[p][g] = left[g]
      BY ONLY <1>4, <2>1, g \in Good
    <3> QED
      BY ONLY <3>1, <3>2
  <2>4. web = None /\ nextId + Ships(order) <= MaxRows /\ KeepsUp
    BY ONLY <1>3
  <2> QED
    BY ONLY <1>4, <2>1, <2>2, <2>3, <2>4
<1>5. CASE /\ stock' = [stock EXCEPT ![p] = given]
           /\ money' = (money - paid) + paid
           /\ web' = web
  <2>1. stock'[p] = given /\ (\A q \in Planet : q # p => stock'[q] = stock[q])
        /\ stock' \in [Planet -> [Good -> Nat]]
    BY ONLY <1>1, <1>2, <1>5, p \in Planet
  <2>2. money' \in Nat /\ money' = money /\ web' = None
    BY ONLY <1>1, <1>2, <1>3, <1>5
  <2>3. \A g \in Good : stock[p][g] <= Cap[g] => stock'[p][g] = stock[p][g]
    <3> SUFFICES ASSUME NEW g \in Good, stock[p][g] <= Cap[g]
                 PROVE  stock'[p][g] = stock[p][g]
      OBVIOUS
    <3>1. given[g] = stock[p][g]
      BY ONLY <1>2, g \in Good, stock[p][g] <= Cap[g]
    <3> QED
      BY ONLY <2>1, <3>1
  <2>4. web = None /\ nextId + Ships(order) <= MaxRows /\ KeepsUp
    BY ONLY <1>3
  <2> QED
    BY ONLY <2>1, <2>2, <2>3, <2>4
<1> QED
  BY ONLY <1>3, <1>4, <1>5

LEMMA InsertKeeps ==
  ASSUME QueueInv, NEW p \in Planet, NEW order \in Order, Insert(p, order)
  PROVE  QueueInv'
<1>1. /\ UNCHANGED <<mode, now, rows, nextId, delayed, ready, delivered>>
      /\ web = None
  BY DEF Insert
<1>2. TypeOK
  BY DEF QueueInv
<1>3. web' = None \/ web' = [planet |-> p, todo |-> order, entries |-> <<>>]
  BY <1>2, InsertPays
<1>4. web' \in Request \cup {None}
  <2>1. <<>> \in Seq(Entry)
    OBVIOUS
  <2>2. [planet |-> p, todo |-> order, entries |-> <<>>] \in Request
    BY ONLY <2>1, p \in Planet, order \in Order DEF Request
  <2> QED
    BY ONLY <1>3, <2>2
<1>5. TypeOK'
  <2>1. stock' \in [Planet -> [Good -> Nat]] /\ money' \in Nat
    BY <1>2, InsertPays
  <2> QED
    BY <1>1, <1>2, <1>4, <2>1 DEF TypeOK
<1>6. RowsById' /\ QidsIncrease' /\ ReadyIsDue' /\ (\A j : Pending(j)' = Pending(j))
      /\ (\A r \in rows : JobOf(r)' = JobOf(r))
  BY <1>1 DEF QueueInv, RowsById, QidsIncrease, ReadyIsDue, Pending, Count, JobOf
<1>7. RowsAwait'
  BY <1>1, <1>6 DEF QueueInv, RowsAwait
<1>8. GroupFits' /\ GroupAwaits'
  <2>1. web' # None => web'.todo = order /\ DOMAIN web'.entries = {}
    BY <1>3
  <2>2. nextId + Ships(order) <= MaxRows
    BY <1>2, InsertPays
  <2> QED
    BY <1>1, <2>1, <2>2 DEF GroupFits, GroupAwaits
<1>9. Ahead'
  <2>1. KeepsUp
    BY DEF Insert
  <2> QED
    BY <1>1, <2>1 DEF Ahead, KeepsUp, Late, EmptyBag, SetToBag
<1>10. JobsAreRows'
  <2>1. GroupJobs = {} /\ GroupJobs' = {}
    BY <1>1, <1>3 DEF GroupJobs
  <2>2. RowJobs' = RowJobs
    BY <1>1 DEF RowJobs, JobOf
  <2> QED
    BY <1>1, <1>6, <2>1, <2>2 DEF QueueInv, JobsAreRows, Late
<1> QED
  BY <1>5, <1>6, <1>7, <1>8, <1>9, <1>10 DEF QueueInv

\* The jobs of a group are new ones, with qids above those of all rows, and lie ahead.
LEMMA EnqueueKeeps ==
  ASSUME QueueInv, NEW s \in Ship, EnqueueGroup(s)
  PROVE  QueueInv' /\ web' # None /\ web'.planet = web.planet /\ web'.todo = web.todo
<1> DEFINE p     == web.planet
           n     == web.todo[s]
           qid   == IF rows = {} THEN 0 ELSE LastRow(rows).qid + 1
           start == IF RowsOf(p) = {} THEN now ELSE LastRow(RowsOf(p)).end
           group == [i \in 1 .. n |-> [ship |-> s, qid |-> qid + i - 1,
                                       end |-> start + i * ConTime[s]]]
           job(e) == [ship |-> s, planet |-> p, qid |-> e.qid, due |-> e.end]
           new == {job(group[i]) : i \in DOMAIN group}
           after(j) == Count(delayed', j) + Count(ready', j)
<1>1. /\ web # None /\ web.entries = <<>> /\ n > 0
      /\ web' = [web EXCEPT !.entries = group]
      /\ delayed' = delayed (+) SetToBag(new)
      /\ UNCHANGED <<mode, now, rows, nextId, stock, money, ready, delivered>>
  BY DEF EnqueueGroup
<1>2. TypeOK /\ RowsById /\ QidsIncrease
  BY DEF QueueInv
<1>3. p \in Planet /\ n \in Nat /\ n > 0 /\ web.todo \in Order /\ web \in Request
      /\ DOMAIN web.entries = {}
  BY <1>1, <1>2, Web
<1>4. qid \in Nat /\ \A r \in rows : r.qid < qid
  <2>1. CASE rows = {}
    BY <2>1
  <2>2. CASE rows # {}
    <3>1. LastRow(rows) \in rows /\ \A r \in rows : r.id <= LastRow(rows).id
      BY <1>2, <2>2, LastRowExists
    <3>2. \A r \in rows : r.id \in Nat /\ r.qid \in Nat
      BY <1>2, Types
    <3>3. \A r \in rows : r.qid <= LastRow(rows).qid
      <4> TAKE r \in rows
      <4>1. CASE r.id < LastRow(rows).id
        BY <1>2, <3>1, <3>2, <4>1 DEF QidsIncrease
      <4>2. CASE r.id = LastRow(rows).id
        <5>1. r = LastRow(rows)
          BY <1>2, <3>1, <4>2 DEF RowsById
        <5> QED
          BY <3>2, <5>1
      <4> QED
        BY <3>1, <3>2, <4>1, <4>2
    <3> QED
      BY <2>2, <3>1, <3>2, <3>3
  <2> QED
    BY <2>1, <2>2
<1>5. start \in Int /\ now \in Nat /\ (~Late => now <= start)
  <2>1. RowsOf(p) \subseteq rows
    BY DEF RowsOf
  <2>2. now \in Nat /\ \A r \in rows : r.end \in Int
    BY <1>2, Types
  <2>3. CASE RowsOf(p) = {}
    BY <2>2, <2>3
  <2>4. CASE RowsOf(p) # {}
    <3> DEFINE r == LastRow(RowsOf(p))
    <3>1. r \in rows
      BY <1>2, <2>1, <2>4, LastRowExists
    <3>2. ASSUME ~Late PROVE now < r.end
      <4>1. JobOf(r) \in Job /\ JobOf(r) \in RowJobs
        BY <1>2, <3>1, Types DEF RowJobs
      <4>2. Pending(JobOf(r)) = 1
        BY <3>2, <4>1 DEF QueueInv, JobsAreRows
      <4>3. DOMAIN ready = {} /\ \A j \in DOMAIN delayed : j.due > now
        BY <1>1, <3>2 DEF QueueInv, Ahead
      <4>4. JobOf(r) \in DOMAIN delayed
        BY <4>2, <4>3 DEF Pending, Count
      <4> QED
        BY <2>2, <4>3, <4>4 DEF JobOf
    <3> HIDE DEF r
    <3>3. start = r.end
      BY <2>4 DEF r
    <3> QED
      BY <2>2, <3>1, <3>2, <3>3
  <2> QED
    BY <2>3, <2>4
<1> HIDE DEF qid, start, n, p
<1>6. \A i \in 1 .. n : i * ConTime[s] \in Nat /\ i * ConTime[s] > 0
  <2>1. \A i, c \in Nat : i > 0 /\ c > 0 => i * c \in Nat /\ i * c > 0
    OBVIOUS
  <2> QED
    BY <1>3, <2>1, Constants
<1>7. /\ DOMAIN group = 1 .. n /\ Len(group) = n /\ group \in Seq(Entry)
      /\ \A i \in 1 .. n : /\ group[i].ship = s /\ group[i].qid = qid + i - 1
                           /\ group[i].end = start + i * ConTime[s]
                           /\ group[i] \in Entry
  <2>1. \A i \in 1 .. n : qid + i - 1 \in Nat /\ start + i * ConTime[s] \in Int
    BY <1>3, <1>4, <1>5, <1>6
  <2>2. \A i \in 1 .. n : group[i] \in Entry
    BY <2>1 DEF Entry
  <2>3. group \in Seq(Entry) /\ Len(group) = n
    BY <1>3, <2>2
  <2> QED
    BY <2>2, <2>3
<1> HIDE DEF group
<1>8. /\ web' \in Request /\ web' # None /\ web'.planet = p /\ web'.todo = web.todo
      /\ web'.entries = group
  <2>1. web' = [planet |-> p, todo |-> web.todo, entries |-> group]
    BY <1>1, <1>3 DEF Request, p
  <2>2. web' \in Request
    BY ONLY <1>3, <1>7, <2>1 DEF Request
  <2> QED
    BY <2>1, <2>2, Constants
<1>9. new \in SUBSET Job /\ GroupJobs' = new /\ GroupJobs = {}
  <2>1. new \in SUBSET Job
    BY <1>3, <1>7 DEF Entry, Job
  <2>2. \A i \in DOMAIN group : job(group[i]) = [ship |-> group[i].ship, planet |-> web'.planet,
                                                 qid |-> group[i].qid, due |-> group[i].end]
    BY <1>7, <1>8
  <2>3. GroupJobs = {}
    BY <1>3 DEF GroupJobs
  <2>4. GroupJobs' = {[ship |-> group[i].ship, planet |-> web'.planet, qid |-> group[i].qid,
                       due |-> group[i].end] : i \in DOMAIN group}
    BY <1>8 DEF GroupJobs, JobOfEntry
  <2> QED
    BY <2>1, <2>2, <2>3, <2>4
<1>10. /\ IsJobs(delayed') /\ DOMAIN delayed' = DOMAIN delayed \cup new
       /\ \A j \in Job : after(j) = Pending(j) + IF j \in new THEN 1 ELSE 0
  <2>1. IsJobs(delayed) /\ \A j \in Job : Count(delayed, j) \in Nat /\ Count(ready, j) \in Nat
    BY <1>2, Types
  <2>2. /\ IsJobs(delayed') /\ DOMAIN delayed' = DOMAIN delayed \cup new
        /\ \A j \in Job : Count(delayed', j) = Count(delayed, j) + IF j \in new THEN 1 ELSE 0
    <3> HIDE DEF new
    <3>1. /\ IsJobs(SetToBag(new)) /\ DOMAIN SetToBag(new) = new
          /\ \A j : Count(SetToBag(new), j) = IF j \in new THEN 1 ELSE 0
      BY <1>9, JobsOfSet
    <3>2. /\ IsJobs(delayed (+) SetToBag(new))
          /\ \A j \in Job : Count(delayed (+) SetToBag(new), j) =
                               Count(delayed, j) + Count(SetToBag(new), j)
          /\ DOMAIN (delayed (+) SetToBag(new)) = DOMAIN delayed \cup DOMAIN SetToBag(new)
      BY <2>1, <3>1, JobsAdded
    <3> QED
      BY <1>1, <3>1, <3>2
  <2>3. ready' = ready
    BY <1>1
  <2> HIDE DEF new
  <2> QED
    BY ONLY <2>1, <2>2, <2>3 DEF Pending
<1>11. TypeOK'
  BY <1>1, <1>2, <1>8, <1>10 DEF TypeOK, IsJobs
<1>12. RowsById' /\ QidsIncrease' /\ ReadyIsDue'
  BY <1>1 DEF QueueInv, RowsById, QidsIncrease, ReadyIsDue
<1>13. \A j \in Job : Pending(j) \in Nat /\ after(j) \in Nat /\ after(j) >= Pending(j)
                      /\ (j \in new => after(j) > 0)
  <2>1. \A j \in Job : Pending(j) \in Nat
    BY <1>2, Types
  <2> HIDE DEF new, after
  <2> QED
    BY ONLY <2>1, <1>10
<1>14. RowsAwait'
  <2>1. \A r \in rows : JobOf(r) \in Job /\ (r.end <= r.born \/ Pending(JobOf(r)) > 0)
    BY <1>2, Types DEF QueueInv, RowsAwait
  <2>2. \A r \in rows : r.end <= r.born \/ after(JobOf(r)) > 0
    <3> HIDE DEF after, new
    <3> QED
      BY ONLY <1>13, <2>1
  <2> QED
    BY <1>1, <2>2 DEF RowsAwait, JobOf, Pending
<1>15. GroupFits'
  <2>1. nextId' + Ships(web'.todo) <= MaxRows
    BY <1>1, <1>8 DEF QueueInv, GroupFits
  <2>2. \A r \in rows : r.qid \in Nat
    BY <1>2, Types
  <2>3. ASSUME NEW i \in 1 .. n
        PROVE  /\ Len(group) = web.todo[group[1].ship]
               /\ group[i].ship = group[1].ship
               /\ group[i].qid = group[1].qid + i - 1
               /\ \A r \in rows : r.qid < group[i].qid
    <3>1. 1 \in 1 .. n /\ i \in Nat /\ i >= 1
      BY <1>3
    <3> QED
      BY <1>3, <1>4, <1>7, <2>2, <3>1 DEF n
  <2> QED
    BY <1>1, <1>7, <1>8, <2>1, <2>3 DEF GroupFits
<1>16. GroupAwaits'
  <2>1. \A i \in DOMAIN group : job(group[i]) \in new /\ job(group[i]) \in Job
    BY <1>9
  <2>2. \A i \in DOMAIN group : after(job(group[i])) > 0
    <3> HIDE DEF new, after
    <3> QED
      BY <1>13, <2>1
  <2>3. \A i \in DOMAIN group : job(group[i]) = [ship |-> group[i].ship, planet |-> web'.planet,
                                                 qid |-> group[i].qid, due |-> group[i].end]
    BY <1>7, <1>8
  <2> HIDE DEF job
  <2> QED
    BY ONLY <1>8, <2>2, <2>3 DEF GroupAwaits, JobOfEntry, Pending
<1>17. Ahead'
  <2>1. ASSUME ~Late, NEW j \in new PROVE j.due > now
    BY <1>5, <1>6, <1>7, <2>1
  <2> HIDE DEF new
  <2> QED
    BY <1>1, <1>10, <2>1 DEF QueueInv, Ahead, Late
<1>18. JobsAreRows'
  <2>1. RowJobs' = RowJobs
    BY <1>1 DEF RowJobs, JobOf
  <2>2. \A j \in RowJobs : j \notin new
    <3>1. ASSUME NEW r \in rows, NEW i \in 1 .. n PROVE JobOf(r) # job(group[i])
      <4>1. r.qid \in Nat /\ r.qid < group[i].qid
        BY <1>2, <1>3, <1>4, <1>7, Types
      <4> QED
        BY <4>1 DEF JobOf
    <3> QED
      BY <1>7, <3>1 DEF RowJobs
  <2>3. \A j \in Job : Pending(j)' = after(j)
    BY DEF Pending
  <2> HIDE DEF new, after
  <2> QED
    BY <1>1, <1>9, <1>10, <2>1, <2>2, <2>3 DEF QueueInv, JobsAreRows, Late
<1> QED
  BY <1>8, <1>11, <1>12, <1>14, <1>15, <1>16, <1>17, <1>18 DEF QueueInv, p

\* The rows that are created of the group in progress, and what is left to do.
NewRow(i) ==
  [id |-> nextId + i - 1, planet |-> web.planet, ship |-> web.entries[i].ship,
   qid |-> web.entries[i].qid, end |-> web.entries[i].end, born |-> now]
NewRows == {NewRow(i) : i \in DOMAIN web.entries}
StillToDo == [s \in Ship |-> IF s = web.entries[1].ship THEN 0 ELSE web.todo[s]]

LEMMA SaveEffect ==
  ASSUME QueueInv, SaveGroup
  PROVE  /\ web # None /\ Len(web.entries) \in Nat /\ Len(web.entries) > 0
         /\ DOMAIN web.entries = 1 .. Len(web.entries)
         /\ rows' = rows \cup NewRows /\ nextId' = nextId + Len(web.entries)
         /\ UNCHANGED <<mode, now, stock, money, delayed, ready, delivered>>
         /\ web.entries[1].ship \in Ship
         /\ Len(web.entries) = web.todo[web.entries[1].ship]
         /\ StillToDo \in Order
         /\ Ships(web.todo) = Ships(StillToDo) + Len(web.entries)
         /\ web' \in Request \cup {None}
         /\ web' = None => Ships(StillToDo) = 0
         /\ web' # None => /\ web'.planet = web.planet /\ web'.todo = StillToDo
                           /\ DOMAIN web'.entries = {}
         /\ \A i \in DOMAIN web.entries :
              /\ NewRow(i) \in Row /\ NewRow(i).id = nextId + i - 1
              /\ NewRow(i).planet = web.planet /\ NewRow(i).ship = web.entries[1].ship
              /\ NewRow(i).qid = web.entries[1].qid + i - 1
              /\ NewRow(i).end = web.entries[i].end /\ NewRow(i).born = now
              /\ JobOf(NewRow(i)) = JobOfEntry(web.entries[i])
<1> DEFINE group == web.entries
           n == Len(group)
           t == group[1].ship
<1>1. /\ web # None /\ group # <<>>
      /\ rows' = rows \cup NewRows /\ nextId' = nextId + n
      /\ web' = IF Ships(StillToDo) = 0 THEN None
                ELSE [web EXCEPT !.todo = StillToDo, !.entries = <<>>]
      /\ UNCHANGED <<mode, now, stock, money, delayed, ready, delivered>>
  BY DEF SaveGroup, StillToDo, NewRows, NewRow
<1>2. TypeOK /\ nextId \in Nat /\ now \in Nat
  BY Types DEF QueueInv
<1>3. /\ web \in Request /\ web.planet \in Planet /\ web.todo \in Order /\ group \in Seq(Entry)
      /\ \A s \in Ship : web.todo[s] \in Nat /\ web.todo[s] \in 0 .. MaxCount
      /\ \A i \in DOMAIN group : /\ group[i].ship \in Ship /\ group[i].qid \in Nat
                                 /\ group[i].end \in Int
      /\ n \in Nat /\ DOMAIN group = 1 .. n
  BY <1>1, <1>2, Web
<1>4. n > 0 /\ 1 \in DOMAIN group /\ t \in Ship
  <2>1. n # 0
    BY <1>1, <1>3
  <2> QED
    BY <1>3, <2>1
<1>5. /\ n = web.todo[t]
      /\ \A i \in DOMAIN group : group[i].ship = t /\ group[i].qid = group[1].qid + i - 1
  BY <1>1, <1>4 DEF QueueInv, GroupFits
<1>6. StillToDo \in Order
  BY <1>3, Constants DEF StillToDo, Order
<1>7. Ships(web.todo) = Ships(StillToDo) + n
  <2>1. /\ \A s \in Ship : web.todo[s] \in Int /\ StillToDo[s] \in Int
        /\ \A s \in Ship \ {t} : web.todo[s] = StillToDo[s]
        /\ StillToDo[t] = 0
    BY <1>3, <1>4, <1>6 DEF StillToDo
  <2>2. SumFunctionOnSet(StillToDo, Ship) =
          SumFunctionOnSet(web.todo, Ship) + StillToDo[t] - web.todo[t]
    BY ONLY <1>4, <2>1, SumChange, Constants
  <2>3. /\ Ships(web.todo) = SumFunctionOnSet(web.todo, Ship) /\ Ships(web.todo) \in Nat
        /\ Ships(StillToDo) = SumFunctionOnSet(StillToDo, Ship) /\ Ships(StillToDo) \in Nat
    BY <1>3, <1>6, ShipsAreSum
  <2>4. n \in Nat /\ n = web.todo[t]
    BY <1>3, <1>5
  <2> HIDE DEF n, t
  <2> QED
    BY ONLY <2>1, <2>2, <2>3, <2>4
<1>8. /\ web' \in Request \cup {None}
      /\ web' = None => Ships(StillToDo) = 0
      /\ web' # None => /\ web'.planet = web.planet /\ web'.todo = StillToDo
                        /\ DOMAIN web'.entries = {}
  <2>1. CASE Ships(StillToDo) = 0
    BY <1>1, <2>1
  <2>2. CASE Ships(StillToDo) # 0
    <3>1. web' = [planet |-> web.planet, todo |-> StillToDo, entries |-> <<>>]
      BY <1>1, <1>3, <2>2 DEF Request
    <3>2. <<>> \in Seq(Entry) /\ DOMAIN <<>> = {}
      OBVIOUS
    <3>3. web' \in Request
      BY ONLY <1>3, <1>6, <3>1, <3>2 DEF Request
    <3>4. web' # None
      BY <3>3, Constants
    <3> QED
      BY ONLY <3>1, <3>2, <3>3, <3>4
  <2> QED
    BY <2>1, <2>2
<1>9. \A i \in DOMAIN group :
         /\ NewRow(i) \in Row /\ NewRow(i).id = nextId + i - 1
         /\ NewRow(i).planet = web.planet /\ NewRow(i).ship = t
         /\ NewRow(i).qid = group[1].qid + i - 1
         /\ NewRow(i).end = group[i].end /\ NewRow(i).born = now
         /\ JobOf(NewRow(i)) = JobOfEntry(group[i])
  <2> TAKE i \in DOMAIN group
  <2>1. nextId + i - 1 \in Nat
    BY <1>2, <1>3
  <2>2. NewRow(i) \in Row
    BY <1>2, <1>3, <2>1 DEF NewRow, Row
  <2>3. JobOf(NewRow(i)) = JobOfEntry(group[i])
    BY DEF NewRow, JobOf, JobOfEntry
  <2> QED
    BY <1>5, <2>2, <2>3 DEF NewRow
<1> QED
  BY <1>1, <1>3, <1>4, <1>5, <1>6, <1>7, <1>8, <1>9

LEMMA SaveKeeps ==
  ASSUME QueueInv, SaveGroup
  PROVE  QueueInv'
<1> DEFINE n == Len(web.entries)
<1>1. /\ web # None /\ n \in Nat /\ n > 0 /\ DOMAIN web.entries = 1 .. n
      /\ rows' = rows \cup NewRows /\ nextId' = nextId + n
      /\ UNCHANGED <<mode, now, stock, money, delayed, ready, delivered>>
      /\ web' \in Request \cup {None}
      /\ web' # None => web'.todo = StillToDo /\ DOMAIN web'.entries = {}
  BY SaveEffect
<1>2. \A i \in 1 .. n :
        /\ NewRow(i) \in Row /\ NewRow(i).id = nextId + i - 1
        /\ NewRow(i).qid = web.entries[1].qid + i - 1
        /\ NewRow(i).end = web.entries[i].end /\ NewRow(i).born = now
        /\ JobOf(NewRow(i)) = JobOfEntry(web.entries[i])
  BY <1>1, SaveEffect
<1>3. TypeOK /\ nextId \in Nat /\ nextId <= MaxRows /\ now \in Nat
      /\ \A r \in rows : r.id \in Nat /\ r.qid \in Nat /\ r.id < nextId /\ JobOf(r) \in Job
  BY Types DEF QueueInv, RowsById
<1>4. web.entries[1].qid \in Nat /\ \A i \in 1 .. n : JobOfEntry(web.entries[i]) \in Job
  BY <1>1, <1>3, Web
<1>5. nextId' + Ships(StillToDo) <= MaxRows /\ Ships(StillToDo) \in Nat /\ nextId' \in Nat
  <2>1. nextId + Ships(web.todo) <= MaxRows
    BY <1>1 DEF QueueInv, GroupFits
  <2>2. Ships(web.todo) = Ships(StillToDo) + n /\ Ships(StillToDo) \in Nat
    BY SaveEffect, ShipsAreSum
  <2>3. MaxRows \in Nat
    BY Constants
  <2> HIDE DEF n
  <2> QED
    BY ONLY <1>1, <1>3, <2>1, <2>2, <2>3
<1> HIDE DEF n
<1>6. TypeOK'
  <2>1. rows' \subseteq Row
    BY <1>1, <1>2, <1>3 DEF TypeOK, NewRows
  <2>2. nextId' \in 0 .. MaxRows
    BY <1>5, Constants
  <2> QED
    BY <1>1, <1>3, <2>1, <2>2 DEF TypeOK
<1>7. NewRows = {NewRow(i) : i \in 1 .. n}
  BY <1>1 DEF NewRows
<1>8. RowsById'
  <2>1. IsFiniteSet(NewRows)
    <3> DEFINE f == [i \in 1 .. n |-> NewRow(i)]
    <3>1. NewRows = {f[i] : i \in 1 .. n}
      BY <1>7
    <3>2. IsFiniteSet(1 .. n)
      BY <1>1, FS_Interval
    <3> HIDE DEF f
    <3> QED
      BY <3>1, <3>2, FiniteImage
  <2>2. IsFiniteSet(rows')
    BY <1>1, <2>1, FS_Union DEF QueueInv, RowsById
  <2>3. \A r \in rows' : r.id < nextId'
    BY <1>1, <1>2, <1>3, <1>7
  <2>4. ASSUME NEW r \in rows', NEW q \in rows', r.id = q.id PROVE r = q
    <3>1. CASE r \in rows /\ q \in rows
      BY <2>4, <3>1 DEF QueueInv, RowsById
    <3>2. CASE r \in NewRows /\ q \in NewRows
      <4>1. PICK i \in 1 .. n : r = NewRow(i)
        BY <1>7, <3>2
      <4>2. PICK k \in 1 .. n : q = NewRow(k)
        BY <1>7, <3>2
      <4>3. nextId + i - 1 = nextId + k - 1
        BY <1>2, <2>4, <4>1, <4>2
      <4>4. i = k
        BY <1>3, <4>3
      <4> QED
        BY <4>1, <4>2, <4>4
    <3>3. \A x \in rows, y \in NewRows : x.id # y.id
      BY <1>1, <1>2, <1>3, <1>7
    <3> QED
      BY <1>1, <2>4, <3>1, <3>2, <3>3
  <2> QED
    BY <2>2, <2>3, <2>4 DEF RowsById
<1>9. QidsIncrease'
  <2>1. ASSUME NEW r \in rows', NEW q \in rows', r.id < q.id PROVE r.qid < q.qid
    <3>1. CASE r \in rows /\ q \in rows
      BY <2>1, <3>1 DEF QueueInv, QidsIncrease
    <3>2. CASE r \in NewRows
      <4>1. PICK i \in 1 .. n : r = NewRow(i)
        BY <1>7, <3>2
      <4>2. q \in NewRows
        BY <1>1, <1>2, <1>3, <2>1, <4>1
      <4>3. PICK k \in 1 .. n : q = NewRow(k)
        BY <1>7, <4>2
      <4>4. nextId + i - 1 < nextId + k - 1
        BY <1>2, <2>1, <4>1, <4>3
      <4>5. i < k
        BY <1>3, <4>4
      <4> QED
        BY <1>2, <1>4, <4>1, <4>3, <4>5
    <3>3. CASE r \in rows /\ q \in NewRows
      <4>1. PICK k \in 1 .. n : q = NewRow(k)
        BY <1>7, <3>3
      <4>2. r.qid < web.entries[1].qid
        <5>1. 1 \in DOMAIN web.entries
          BY <1>1
        <5> QED
          BY <1>1, <3>3, <5>1 DEF QueueInv, GroupFits
      <4> QED
        BY <1>2, <1>3, <1>4, <3>3, <4>1, <4>2
    <3> QED
      BY <1>1, <3>1, <3>2, <3>3
  <2> QED
    BY <2>1 DEF QidsIncrease
<1>10. GroupFits' /\ GroupAwaits'
  BY <1>1, <1>5 DEF GroupFits, GroupAwaits
<1>11. ReadyIsDue' /\ \A j \in Job : Pending(j)' = Pending(j)
  BY <1>1 DEF QueueInv, ReadyIsDue, Pending, Count
<1>12. RowsAwait'
  <2>1. \A r \in rows : r.end <= r.born \/ Pending(JobOf(r)) > 0
    BY DEF QueueInv, RowsAwait
  <2>2. \A i \in 1 .. n : NewRow(i).end <= NewRow(i).born \/ Pending(JobOf(NewRow(i))) > 0
    BY <1>1, <1>2 DEF QueueInv, GroupAwaits
  <2>3. \A r \in rows' : r.end <= r.born \/ Pending(JobOf(r)) > 0
    BY <1>1, <1>7, <2>1, <2>2
  <2>4. delayed' = delayed /\ ready' = ready
    BY <1>1
  <2> QED
    BY ONLY <2>3, <2>4 DEF RowsAwait, Pending, JobOf, Count
<1>13. Ahead'
  BY <1>1 DEF QueueInv, Ahead, Late
<1>14. JobsAreRows'
  <2>1. GroupJobs' = {}
    BY <1>1 DEF GroupJobs
  <2>2. RowJobs' = {JobOf(r) : r \in rows'}
    BY DEF RowJobs, JobOf
  <2>3. {JobOf(r) : r \in rows'} = RowJobs \cup {JobOf(NewRow(i)) : i \in 1 .. n}
    BY <1>1, <1>7 DEF RowJobs
  <2>4. {JobOf(NewRow(i)) : i \in 1 .. n} = GroupJobs
    BY <1>1, <1>2 DEF GroupJobs
  <2> QED
    BY <1>1, <1>11, <2>1, <2>2, <2>3, <2>4 DEF QueueInv, JobsAreRows, Late
<1> QED
  BY <1>6, <1>8, <1>9, <1>10, <1>11, <1>12, <1>13, <1>14 DEF QueueInv

\* Rows that only go away stay apart.
LEMMA FewerRows ==
  ASSUME QueueInv, rows' \subseteq rows, UNCHANGED <<nextId, web>>
  PROVE  RowsById' /\ QidsIncrease' /\ GroupFits'
<1>1. IsFiniteSet(rows')
  BY FS_Subset DEF QueueInv, RowsById
<1>2. RowsById' /\ QidsIncrease'
  BY <1>1 DEF QueueInv, RowsById, QidsIncrease
<1>3. GroupFits'
  BY DEF QueueInv, GroupFits
<1> QED
  BY <1>2, <1>3

\* A job takes the one row with its qid, its own when nothing lags.
LEMMA AddShipEffect ==
  ASSUME QueueInv, NEW j \in DOMAIN ready, AddShip(j)
  PROVE  /\ j \in Job /\ j.planet \in Planet /\ j.ship \in Ship /\ j.qid \in Nat
         /\ rows' = {r \in rows : r.qid # j.qid}
         /\ IsJobs(ready') /\ DOMAIN ready' \subseteq DOMAIN ready
         /\ delivered' \in [Planet -> [Ship -> Nat]]
         /\ \A p \in Planet, s \in Ship :
              delivered'[p][s] = delivered[p][s] + IF p = j.planet /\ s = j.ship THEN 1 ELSE 0
         /\ \A k \in Job : Pending(k)' = IF k = j THEN Pending(k) - 1 ELSE Pending(k)
         /\ UNCHANGED <<mode, now, nextId, stock, money, web, delayed>>
<1> DEFINE mine == {r \in rows : r.qid = j.qid}
<1>1. /\ ready' = ready (-) SetToBag({j})
      /\ delivered' = [delivered EXCEPT ![j.planet][j.ship] = @ + 1]
      /\ rows' = IF mine = {} THEN rows ELSE rows \ {LastRow(mine)}
      /\ UNCHANGED <<mode, now, nextId, stock, money, web, delayed>>
  BY DEF AddShip
<1>2. TypeOK /\ RowsById /\ QidsIncrease
  BY DEF QueueInv
<1>3. IsJobs(ready) /\ IsJobs(delayed)
      /\ \A k \in Job : Count(ready, k) \in Nat /\ Count(delayed, k) \in Nat
  BY <1>2, Types
<1>4. j \in Job /\ j.planet \in Planet /\ j.ship \in Ship /\ j.qid \in Nat
  <2>1. j \in Job
    BY <1>3 DEF IsJobs
  <2> QED
    BY <2>1 DEF Job
<1>5. rows' = {r \in rows : r.qid # j.qid}
  <2>1. CASE mine = {}
    BY <1>1, <2>1
  <2>2. CASE mine # {}
    <3>1. LastRow(mine) \in mine
      BY <1>2, <2>2, LastRowExists
    <3>2. \A r \in mine : r = LastRow(mine)
      BY <1>2, <3>1, QidsApart
    <3>3. rows' = rows \ {LastRow(mine)}
      BY <1>1, <2>2
    <3>4. mine = {LastRow(mine)}
      BY <3>1, <3>2
    <3> QED
      BY <3>3, <3>4
  <2> QED
    BY <2>1, <2>2
<1>6. /\ IsJobs(ready') /\ DOMAIN ready' \subseteq DOMAIN ready
      /\ \A k \in Job : Count(ready', k) = IF k = j THEN Count(ready, k) - 1 ELSE Count(ready, k)
  BY <1>1, <1>3, JobTaken
<1>7. \A k \in Job : Pending(k)' = IF k = j THEN Pending(k) - 1 ELSE Pending(k)
  <2>1. delayed' = delayed
    BY <1>1
  <2>2. \A k \in Job : Count(delayed', k) + Count(ready', k) =
                        IF k = j THEN Pending(k) - 1 ELSE Pending(k)
    BY ONLY <1>3, <1>6, <2>1 DEF Pending
  <2>3. \A k \in Job : Pending(k)' = Count(delayed', k) + Count(ready', k)
    BY DEF Pending
  <2> QED
    BY ONLY <2>2, <2>3
<1>8. /\ delivered' \in [Planet -> [Ship -> Nat]]
      /\ \A p \in Planet, s \in Ship :
           delivered'[p][s] = delivered[p][s] + IF p = j.planet /\ s = j.ship THEN 1 ELSE 0
  <2>1. delivered \in [Planet -> [Ship -> Nat]]
    BY <1>2 DEF TypeOK
  <2>2. delivered' = [delivered EXCEPT ![j.planet] =
                        [delivered[j.planet] EXCEPT ![j.ship] = delivered[j.planet][j.ship] + 1]]
    BY <1>1
  <2>3. \A p \in Planet : p # j.planet => delivered'[p] = delivered[p]
    BY ONLY <1>4, <2>1, <2>2
  <2>4. delivered'[j.planet] =
          [delivered[j.planet] EXCEPT ![j.ship] = delivered[j.planet][j.ship] + 1]
    BY ONLY <1>4, <2>1, <2>2
  <2>5. delivered'[j.planet] \in [Ship -> Nat]
    BY ONLY <1>4, <2>1, <2>4
  <2>6. delivered' \in [Planet -> [Ship -> Nat]]
    BY ONLY <1>4, <2>1, <2>2, <2>4, <2>5
  <2>7. \A s \in Ship : delivered'[j.planet][s] =
          delivered[j.planet][s] + IF s = j.ship THEN 1 ELSE 0
    BY ONLY <1>4, <2>1, <2>4
  <2> QED
    BY ONLY <2>1, <2>3, <2>6, <2>7
<1> QED
  BY <1>1, <1>4, <1>5, <1>6, <1>7, <1>8

LEMMA AddShipKeeps ==
  ASSUME QueueInv, NEW j \in DOMAIN ready, AddShip(j)
  PROVE  QueueInv'
<1>1. /\ j \in Job /\ rows' = {r \in rows : r.qid # j.qid}
      /\ IsJobs(ready') /\ DOMAIN ready' \subseteq DOMAIN ready
      /\ delivered' \in [Planet -> [Ship -> Nat]]
      /\ \A k \in Job : Pending(k)' = IF k = j THEN Pending(k) - 1 ELSE Pending(k)
      /\ UNCHANGED <<mode, now, nextId, stock, money, web, delayed>>
  BY AddShipEffect
<1>2. TypeOK
  BY DEF QueueInv
<1>3. TypeOK'
  BY <1>1, <1>2 DEF TypeOK, IsJobs
<1>4. RowsById' /\ QidsIncrease' /\ GroupFits'
  BY <1>1, FewerRows
<1>5. ReadyIsDue'
  BY <1>1 DEF QueueInv, ReadyIsDue
<1>6. \A k \in Job : k # j => Pending(k)' = Pending(k)
  BY <1>1
<1>7. RowsAwait'
  <2>1. \A r \in rows' : r \in rows /\ JobOf(r) \in Job /\ JobOf(r) # j
    <3>1. \A r \in rows : JobOf(r) \in Job /\ JobOf(r).qid = r.qid
      BY <1>2, Types DEF JobOf
    <3> QED
      BY <1>1, <3>1
  <2>2. \A r \in rows' : r.end <= r.born \/ Pending(JobOf(r)) > 0
    BY <2>1 DEF QueueInv, RowsAwait
  <2>3. \A r \in rows' : r.end <= r.born \/ Count(delayed', JobOf(r)) + Count(ready', JobOf(r)) > 0
    BY <1>6, <2>1, <2>2 DEF Pending
  <2> QED
    BY <2>3 DEF RowsAwait, Pending, JobOf
<1>8. GroupAwaits'
  <2> SUFFICES ASSUME web # None, NEW i \in DOMAIN web.entries
               PROVE  LET e == JobOfEntry(web.entries[i])
                      IN  web.entries[i].end <= now \/ Count(delayed', e) + Count(ready', e) > 0
    BY <1>1 DEF GroupAwaits, Pending, JobOfEntry
  <2> DEFINE e == JobOfEntry(web.entries[i])
  <2>1. e \in Job /\ e.due = web.entries[i].end
    BY <1>2, Web DEF JobOfEntry
  <2>2. web.entries[i].end <= now \/ Pending(e) > 0
    BY DEF QueueInv, GroupAwaits
  <2>3. j.due <= now
    BY DEF QueueInv, ReadyIsDue
  <2>4. CASE e = j
    BY <2>1, <2>3, <2>4
  <2>5. CASE e # j
    <3>1. Count(delayed', e) + Count(ready', e) = Pending(e)
      <4> HIDE DEF e
      <4> QED
        BY <1>6, <2>1, <2>5 DEF Pending
    <3> QED
      BY <2>2, <3>1
  <2> QED
    BY <2>4, <2>5
<1>9. Ahead'
  BY <1>1 DEF QueueInv, Ahead, Late
<1>10. JobsAreRows'
  <2> SUFFICES ASSUME ~Late
               PROVE  \A k \in Job : Pending(k)' = IF k \in RowJobs' \cup GroupJobs' THEN 1 ELSE 0
    BY <1>1 DEF JobsAreRows, Late
  <2>0. GroupJobs' = {}
    <3>1. web = None
      BY DEF QueueInv, Ahead
    <3> QED
      BY <1>1, <3>1 DEF GroupJobs
  <2>1. \A k \in Job : Pending(k) = IF k \in RowJobs THEN 1 ELSE 0
    <3>1. web = None
      BY DEF QueueInv, Ahead
    <3> QED
      BY <3>1 DEF QueueInv, JobsAreRows, GroupJobs
  <2>2. PICK x \in rows : j = JobOf(x)
    <3>1. Count(ready, j) > 0 /\ Count(ready, j) \in Nat /\ Count(delayed, j) \in Nat
      BY <1>1, <1>2, Types, CountJobs
    <3>2. Pending(j) > 0
      BY ONLY <3>1 DEF Pending
    <3> QED
      BY <1>1, <2>1, <3>2 DEF RowJobs
  <2>3. RowJobs' = RowJobs \ {j}
    <3>1. RowJobs' = {JobOf(r) : r \in rows'}
      BY DEF RowJobs, JobOf
    <3>2. \A r \in rows : JobOf(r) = j => r.qid = j.qid
      BY DEF JobOf
    <3>3. \A r \in rows : r.qid = j.qid => r = x
      BY <1>2, <2>2, QidsApart DEF QueueInv, JobOf
    <3> QED
      BY <1>1, <2>2, <3>1, <3>2, <3>3 DEF RowJobs
  <2> QED
    BY <1>1, <2>0, <2>1, <2>2, <2>3 DEF RowJobs
<1> QED
  BY <1>3, <1>4, <1>5, <1>7, <1>8, <1>9, <1>10 DEF QueueInv

LEMMA ReleaseKeeps ==
  ASSUME QueueInv, NEW j \in DOMAIN delayed, Release(j)
  PROVE  QueueInv'
<1>1. /\ j.due <= now
      /\ delayed' = delayed (-) SetToBag({j})
      /\ ready' = ready (+) SetToBag({j})
      /\ UNCHANGED <<mode, now, rows, nextId, stock, money, web, delivered>>
  BY DEF Release
<1>2. TypeOK /\ IsJobs(delayed) /\ IsJobs(ready)
      /\ \A k \in Job : Count(ready, k) \in Nat /\ Count(delayed, k) \in Nat
  BY Types DEF QueueInv
<1>3. j \in Job
  BY <1>2 DEF IsJobs
<1>4. /\ IsJobs(delayed') /\ DOMAIN delayed' \subseteq DOMAIN delayed
      /\ \A k \in Job : Count(delayed', k) =
                           IF k = j THEN Count(delayed, k) - 1 ELSE Count(delayed, k)
  BY <1>1, <1>2, JobTaken
<1>5. /\ IsJobs(ready') /\ DOMAIN ready' = DOMAIN ready \cup {j}
      /\ \A k \in Job : Count(ready', k) = IF k = j THEN Count(ready, k) + 1 ELSE Count(ready, k)
  <2>1. /\ IsJobs(SetToBag({j})) /\ DOMAIN SetToBag({j}) = {j}
        /\ \A k : Count(SetToBag({j}), k) = IF k \in {j} THEN 1 ELSE 0
    BY <1>3, JobsOfSet
  <2>2. /\ IsJobs(ready (+) SetToBag({j}))
        /\ \A k \in Job : Count(ready (+) SetToBag({j}), k) =
                             Count(ready, k) + Count(SetToBag({j}), k)
        /\ DOMAIN (ready (+) SetToBag({j})) = DOMAIN ready \cup DOMAIN SetToBag({j})
    BY <1>2, <2>1, JobsAdded
  <2> QED
    BY <1>1, <1>2, <2>1, <2>2
<1>6. \A k \in Job : Count(delayed', k) + Count(ready', k) = Pending(k)
  BY ONLY <1>2, <1>4, <1>5 DEF Pending
<1>7. TypeOK'
  BY <1>1, <1>2, <1>4, <1>5 DEF TypeOK, IsJobs
<1>8. RowsById' /\ QidsIncrease' /\ GroupFits'
  BY <1>1, FewerRows
<1>9. ReadyIsDue'
  BY <1>1, <1>5 DEF QueueInv, ReadyIsDue
<1>10. RowsAwait'
  <2>1. \A r \in rows : JobOf(r) \in Job /\ (r.end <= r.born \/ Pending(JobOf(r)) > 0)
    BY <1>2, Types DEF QueueInv, RowsAwait
  <2>2. \A r \in rows : r.end <= r.born \/ Count(delayed', JobOf(r)) + Count(ready', JobOf(r)) > 0
    BY <1>6, <2>1
  <2> QED
    BY <1>1, <2>2 DEF RowsAwait, Pending, JobOf
<1>11. GroupAwaits'
  <2> SUFFICES ASSUME web # None, NEW i \in DOMAIN web.entries
               PROVE  LET e == JobOfEntry(web.entries[i])
                      IN  web.entries[i].end <= now \/ Count(delayed', e) + Count(ready', e) > 0
    BY <1>1 DEF GroupAwaits, Pending, JobOfEntry
  <2>1. JobOfEntry(web.entries[i]) \in Job
    BY <1>2, Web
  <2>2. web.entries[i].end <= now \/ Pending(JobOfEntry(web.entries[i])) > 0
    BY DEF QueueInv, GroupAwaits
  <2> QED
    BY <1>6, <2>1, <2>2
<1>12. Ahead'
  <2>1. ASSUME ~Late, web # None PROVE FALSE
    <3>1. j.due > now
      BY <2>1 DEF QueueInv, Ahead
    <3>2. j.due \in Int /\ now \in Nat
      BY <1>2, <1>3, Types DEF Job
    <3> QED
      BY <1>1, <3>1, <3>2
  <2> QED
    BY <1>1, <2>1 DEF Ahead, Late
<1>13. JobsAreRows'
  <2>1. RowJobs' = RowJobs /\ GroupJobs' = GroupJobs
    BY <1>1 DEF RowJobs, GroupJobs, JobOf, JobOfEntry
  <2>2. \A k \in Job : Pending(k)' = Pending(k)
    BY <1>6 DEF Pending
  <2> QED
    BY <1>1, <2>1, <2>2 DEF QueueInv, JobsAreRows, Late
<1> QED
  BY <1>7, <1>8, <1>9, <1>10, <1>11, <1>12, <1>13 DEF QueueInv

LEMMA DestroyKeeps ==
  ASSUME QueueInv, NEW r \in rows, Destroy(r)
  PROVE  QueueInv'
<1>1. /\ Late /\ web = None /\ rows' = rows \ {r}
      /\ UNCHANGED <<mode, now, nextId, stock, money, web, delayed, ready, delivered>>
  BY DEF Destroy
<1>2. TypeOK'
  BY <1>1 DEF QueueInv, TypeOK
<1>3. RowsById' /\ QidsIncrease' /\ GroupFits'
  BY <1>1, FewerRows
<1>4. ReadyIsDue' /\ GroupAwaits' /\ Ahead' /\ JobsAreRows'
  BY <1>1 DEF QueueInv, ReadyIsDue, GroupAwaits, Ahead, JobsAreRows, Late
<1>5. RowsAwait'
  BY <1>1 DEF QueueInv, RowsAwait, Pending, JobOf
<1> QED
  BY <1>2, <1>3, <1>4, <1>5 DEF QueueInv

LEMMA TickKeeps ==
  ASSUME QueueInv, Tick
  PROVE  QueueInv'
<1>1. /\ Late \/ web = None
      /\ now' = now + 1
      /\ UNCHANGED <<mode, rows, nextId, stock, money, web, delayed, ready, delivered>>
  BY DEF Tick
<1>2. TypeOK /\ now \in Nat /\ IsJobs(ready)
  BY Types DEF QueueInv
<1>3. TypeOK'
  BY <1>1, <1>2 DEF TypeOK
<1>4. RowsById' /\ QidsIncrease' /\ GroupFits'
  BY <1>1, FewerRows
<1>5. ReadyIsDue'
  <2>1. \A j \in DOMAIN ready : j.due \in Int /\ j.due <= now
    BY <1>2 DEF QueueInv, ReadyIsDue, IsJobs, Job
  <2> QED
    BY <1>1, <1>2, <2>1 DEF ReadyIsDue
<1>6. RowsAwait'
  BY <1>1 DEF QueueInv, RowsAwait, Pending, JobOf
<1>7. GroupAwaits'
  <2> SUFFICES ASSUME web # None, NEW i \in DOMAIN web.entries
               PROVE  LET e == JobOfEntry(web.entries[i])
                      IN  web.entries[i].end <= now' \/ Pending(e) > 0
    BY <1>1 DEF GroupAwaits, Pending, JobOfEntry
  <2>1. web.entries[i].end <= now \/ Pending(JobOfEntry(web.entries[i])) > 0
    BY DEF QueueInv, GroupAwaits
  <2>2. web.entries[i].end \in Int
    BY <1>2, Web
  <2> QED
    BY <1>1, <1>2, <2>1, <2>2
<1>8. Ahead'
  BY <1>1 DEF Ahead, Late
<1>9. JobsAreRows'
  <2>1. RowJobs' = RowJobs /\ GroupJobs' = GroupJobs
    BY <1>1 DEF RowJobs, GroupJobs, JobOf, JobOfEntry
  <2>2. \A k \in Job : Pending(k)' = Pending(k)
    BY <1>1 DEF Pending
  <2> QED
    BY <1>1, <2>1, <2>2 DEF QueueInv, JobsAreRows, Late
<1> QED
  BY <1>3, <1>4, <1>5, <1>6, <1>7, <1>8, <1>9 DEF QueueInv

\* What a cancellation makes of another row, and the rows whose jobs it takes away.
MovedRow(r, q) ==
  IF q.planet = r.planet /\ q.end > r.end THEN [q EXCEPT !.end = @ - (r.end - now)] ELSE q
Later(r) == {q \in RowsOf(r.planet) : q.end > r.end}
MovedJobs(r) == {JobOf(MovedRow(r, q)) : q \in Later(r)}
Names(q, j) == j.ship = q.ship /\ j.planet = q.planet /\ j.qid = q.qid

LEMMA MovedRows ==
  ASSUME TypeOK, NEW r \in rows, NEW q \in rows
  PROVE  /\ MovedRow(r, q) \in Row
         /\ MovedRow(r, q).id = q.id /\ MovedRow(r, q).qid = q.qid
         /\ MovedRow(r, q).planet = q.planet /\ MovedRow(r, q).ship = q.ship
         /\ MovedRow(r, q).born = q.born
         /\ q \notin Later(r) => MovedRow(r, q) = q
         /\ JobOf(MovedRow(r, q)) \in Job /\ Names(q, JobOf(MovedRow(r, q)))
<1>1. q \in Row /\ r.end \in Int /\ now \in Nat /\ q.end \in Int
  BY Types DEF TypeOK
<1>2. q.end - (r.end - now) \in Int
  BY <1>1
<1>3. [q EXCEPT !.end = q.end - (r.end - now)] \in Row
  BY <1>1, <1>2 DEF Row
<1>4. /\ MovedRow(r, q) \in Row
      /\ MovedRow(r, q).id = q.id /\ MovedRow(r, q).qid = q.qid
      /\ MovedRow(r, q).planet = q.planet /\ MovedRow(r, q).ship = q.ship
      /\ MovedRow(r, q).born = q.born
  BY <1>1, <1>3 DEF MovedRow, Row
<1>5. q \notin Later(r) => MovedRow(r, q) = q
  BY DEF MovedRow, Later, RowsOf
<1>6. JobOf(MovedRow(r, q)) \in Job /\ Names(q, JobOf(MovedRow(r, q)))
  <2> DEFINE m == MovedRow(r, q)
  <2> HIDE DEF m
  <2>1. m \in Row /\ m.qid = q.qid /\ m.planet = q.planet /\ m.ship = q.ship
    BY <1>4 DEF m
  <2>2. JobOf(m) \in Job /\ Names(q, JobOf(m))
    BY <2>1 DEF Row, JobOf, Job, Names
  <2> QED
    BY <2>2 DEF m
<1> QED
  BY <1>4, <1>5, <1>6

LEMMA RemoveEffect ==
  ASSUME QueueInv, NEW r \in rows, RemoveQueue(r)
  PROVE  /\ web = None /\ KeepsUp /\ Later(r) \subseteq rows
         /\ rows' = {MovedRow(r, q) : q \in rows \ {r}}
         /\ IsJobs(delayed') /\ UNCHANGED <<mode, now, nextId, web, ready, delivered>>
         /\ \A j \in Job : Count(delayed', j) =
              (IF \E q \in Later(r) \cup {r} : Names(q, j) THEN 0 ELSE Count(delayed, j))
              + (IF j \in MovedJobs(r) THEN 1 ELSE 0)
<1> DEFINE later == {q \in RowsOf(r.planet) : q.end > r.end}
           moved == {[q EXCEPT !.end = @ - (r.end - now)] : q \in later}
<1>1. /\ web = None /\ KeepsUp
      /\ rows' = (rows \ (later \cup {r})) \cup moved
      /\ delayed' = RemoveDelayed(delayed, later \cup {r}) (+) SetToBag({JobOf(q) : q \in moved})
      /\ UNCHANGED <<mode, now, nextId, web, ready, delivered>>
  BY DEF RemoveQueue, UpdateTime
<1>2. TypeOK /\ IsJobs(delayed) /\ r.end \in Int
      /\ \A j \in Job : Count(delayed, j) \in Nat
  BY Types DEF QueueInv
<1>3. later = Later(r) /\ Later(r) \subseteq rows /\ r \notin Later(r)
  BY <1>2 DEF Later, RowsOf
<1>4. moved = {MovedRow(r, q) : q \in Later(r)}
  BY <1>3 DEF MovedRow, Later, RowsOf
<1> HIDE DEF later, moved
<1>5. rows' = {MovedRow(r, q) : q \in rows \ {r}}
  <2>1. \A q \in rows : q \notin Later(r) => MovedRow(r, q) = q
    BY <1>2, MovedRows
  <2> QED
    BY <1>1, <1>3, <1>4, <2>1
<1>6. {JobOf(q) : q \in moved} = MovedJobs(r) /\ MovedJobs(r) \in SUBSET Job
  BY <1>2, <1>3, <1>4, MovedRows DEF MovedJobs
<1> DEFINE kept == RemoveDelayed(delayed, Later(r) \cup {r})
<1>7. /\ IsJobs(kept)
      /\ \A j \in Job : Count(kept, j) =
           IF \E q \in Later(r) \cup {r} : Names(q, j) THEN 0 ELSE Count(delayed, j)
  <2>1. \A j \in Job, q \in rows : j = [JobOf(q) EXCEPT !.due = j.due] <=> Names(q, j)
    <3> TAKE j \in Job, q \in rows
    <3>1. j = [ship |-> j.ship, planet |-> j.planet, qid |-> j.qid, due |-> j.due]
      BY DEF Job
    <3>2. [JobOf(q) EXCEPT !.due = j.due] =
            [ship |-> q.ship, planet |-> q.planet, qid |-> q.qid, due |-> j.due]
      BY DEF JobOf
    <3> QED
      BY <3>1, <3>2 DEF Names
  <2>2. /\ IsJobs(kept)
        /\ \A j : Count(kept, j) = IF \E q \in Later(r) \cup {r} : j = [JobOf(q) EXCEPT !.due = j.due]
                                   THEN 0 ELSE Count(delayed, j)
    BY <1>2, JobsKept
  <2>3. \A j \in Job : (\E q \in Later(r) \cup {r} : j = [JobOf(q) EXCEPT !.due = j.due])
                         <=> \E q \in Later(r) \cup {r} : Names(q, j)
    BY <1>3, <2>1
  <2> HIDE DEF kept
  <2> QED
    BY ONLY <2>2, <2>3
<1>8. /\ IsJobs(SetToBag(MovedJobs(r)))
      /\ \A j : Count(SetToBag(MovedJobs(r)), j) = IF j \in MovedJobs(r) THEN 1 ELSE 0
  BY <1>6, JobsOfSet
<1>9. delayed' = kept (+) SetToBag(MovedJobs(r))
  BY <1>1, <1>3, <1>6
<1> HIDE DEF kept
<1>10. /\ IsJobs(delayed')
       /\ \A j \in Job : Count(delayed', j) = Count(kept, j) + Count(SetToBag(MovedJobs(r)), j)
  BY <1>7, <1>8, <1>9, JobsAdded
<1>11. \A j \in Job : Count(delayed', j) =
         (IF \E q \in Later(r) \cup {r} : Names(q, j) THEN 0 ELSE Count(delayed, j))
         + (IF j \in MovedJobs(r) THEN 1 ELSE 0)
  BY ONLY <1>2, <1>7, <1>8, <1>10
<1> QED
  BY <1>1, <1>3, <1>5, <1>10, <1>11

\* A cancellation keeps the rows apart, and each remaining row has a job at its new time.
LEMMA RemoveKeeps ==
  ASSUME QueueInv, NEW r \in rows, RemoveQueue(r),
         stock' \in [Planet -> [Good -> Nat]], money' \in Nat
  PROVE  QueueInv'
<1> DEFINE rest == rows \ {r}
<1>1. /\ web = None /\ KeepsUp /\ Later(r) \subseteq rows
      /\ rows' = {MovedRow(r, q) : q \in rest}
      /\ IsJobs(delayed') /\ UNCHANGED <<mode, now, nextId, web, ready, delivered>>
  BY RemoveEffect
<1>2. TypeOK /\ RowsById /\ QidsIncrease
  BY DEF QueueInv
<1>3. \A q \in rest :
        /\ q \in rows /\ MovedRow(r, q) \in Row
        /\ MovedRow(r, q).id = q.id /\ MovedRow(r, q).qid = q.qid
        /\ MovedRow(r, q).planet = q.planet /\ MovedRow(r, q).ship = q.ship
        /\ MovedRow(r, q).born = q.born
        /\ (q \notin Later(r) => MovedRow(r, q) = q)
        /\ JobOf(MovedRow(r, q)) \in Job
        /\ Names(q, JobOf(MovedRow(r, q)))
  BY <1>2, MovedRows
<1>4. TypeOK'
  BY <1>1, <1>2, <1>3 DEF TypeOK, IsJobs
<1>5. RowsById'
  <2>1. IsFiniteSet(rows')
    <3> DEFINE f == [q \in rest |-> MovedRow(r, q)]
    <3>1. rows' = {f[q] : q \in rest}
      BY <1>1
    <3>2. IsFiniteSet(rest)
      BY <1>2, FS_Subset DEF RowsById
    <3> HIDE DEF f, rest
    <3> QED
      BY <3>1, <3>2, FiniteImage
  <2> QED
    BY <1>1, <1>2, <1>3, <2>1 DEF RowsById
<1>6. QidsIncrease'
  BY <1>1, <1>2, <1>3 DEF QidsIncrease
<1>7. ReadyIsDue' /\ GroupFits' /\ GroupAwaits' /\ Ahead'
  BY <1>1 DEF QueueInv, ReadyIsDue, GroupFits, GroupAwaits, Ahead
<1> DEFINE taken(j) == \E q \in Later(r) \cup {r} : Names(q, j)
           counted(j) == (IF taken(j) THEN 0 ELSE Count(delayed, j))
                         + (IF j \in MovedJobs(r) THEN 1 ELSE 0)
<1>8. /\ \A j \in Job : Count(delayed', j) = counted(j)
      /\ \A j \in Job : Count(delayed, j) \in Nat /\ Count(ready, j) \in Nat
      /\ ready' = ready
  BY <1>1, <1>2, RemoveEffect, Types
<1>9. \A q \in rest : q \notin Later(r) => ~taken(JobOf(q))
  <2> SUFFICES ASSUME NEW q \in rest, q \notin Later(r), NEW x \in Later(r) \cup {r},
                      Names(x, JobOf(q))
               PROVE  FALSE
    OBVIOUS
  <2>1. x \in rows /\ q \in rows /\ x # q
    BY <1>1
  <2>2. x.qid = q.qid
    BY DEF Names, JobOf
  <2> QED
    BY <1>2, <2>1, <2>2, QidsApart
<1>10. \A q \in Later(r) : JobOf(MovedRow(r, q)) \in MovedJobs(r)
  BY DEF MovedJobs
<1>11. RowsAwait'
  <2>1. ASSUME NEW q \in rest
        PROVE  LET m == MovedRow(r, q)
               IN  m.end <= m.born \/ Count(delayed', JobOf(m)) + Count(ready', JobOf(m)) > 0
    <3> DEFINE j == JobOf(MovedRow(r, q))
    <3>1. j \in Job
      BY <1>3
    <3>2. CASE q \in Later(r)
      <4>1. j \in MovedJobs(r)
        BY <1>10, <3>2
      <4> HIDE DEF j, taken
      <4> QED
        BY ONLY <1>8, <3>1, <4>1 DEF j
    <3>3. CASE q \notin Later(r)
      <4>1. MovedRow(r, q) = q /\ ~taken(j)
        BY <1>3, <1>9, <3>3
      <4>2. q.end <= q.born \/ Pending(JobOf(q)) > 0
        BY DEF QueueInv, RowsAwait
      <4>3. j = JobOf(q)
        BY <4>1
      <4> HIDE DEF j, taken
      <4> QED
        BY ONLY <1>8, <3>1, <4>1, <4>2, <4>3 DEF Pending, j
    <3> QED
      BY <3>2, <3>3
  <2> QED
    BY <1>1, <2>1 DEF RowsAwait, Pending, JobOf
<1>12. JobsAreRows'
  <2> SUFFICES ASSUME ~Late, NEW j \in Job
               PROVE  Pending(j)' = IF j \in RowJobs' \cup GroupJobs' THEN 1 ELSE 0
    BY <1>1 DEF JobsAreRows, Late
  <2>1. GroupJobs = {} /\ GroupJobs' = {}
    BY <1>1 DEF GroupJobs
  <2>2. Pending(j) = IF j \in RowJobs THEN 1 ELSE 0
    BY <2>1 DEF QueueInv, JobsAreRows
  <2>3. Count(ready, j) = 0
    BY <1>1 DEF KeepsUp, EmptyBag, SetToBag, Count
  <2>4. Count(delayed, j) = IF j \in RowJobs THEN 1 ELSE 0
    BY ONLY <1>8, <2>2, <2>3 DEF Pending
  <2>5. Pending(j)' = Count(delayed', j) + Count(ready', j)
    BY DEF Pending
  <2>6. Pending(j)' = counted(j)
    <3>1. Count(ready', j) = 0 /\ Count(delayed', j) = counted(j)
      BY ONLY <1>8, <2>3, j \in Job
    <3>2. counted(j) \in Nat
      <4> HIDE DEF taken
      <4> QED
        BY ONLY <1>8, j \in Job
    <3> HIDE DEF counted
    <3> QED
      BY ONLY <2>5, <3>1, <3>2
  <2>7. RowJobs' = {JobOf(MovedRow(r, q)) : q \in rest}
    <3>1. RowJobs' = {JobOf(q) : q \in rows'}
      BY DEF RowJobs, JobOf
    <3> QED
      BY <1>1, <3>1
  <2>8. CASE j \in MovedJobs(r)
    <3>1. PICK q \in Later(r) : j = JobOf(MovedRow(r, q))
      BY <2>8 DEF MovedJobs
    <3>2. q \in rest /\ q # r
      <4>1. r.end \in Int
        BY <1>2, Types
      <4> QED
        BY <1>1, <4>1 DEF Later
    <3>3. taken(j)
      BY <1>3, <3>1, <3>2
    <3>4. j \in RowJobs'
      BY <2>7, <3>1, <3>2
    <3> HIDE DEF taken
    <3> QED
      BY ONLY <2>6, <2>8, <3>3, <3>4
  <2>9. CASE j \notin MovedJobs(r) /\ taken(j)
    <3>1. ASSUME NEW q \in rest, j = JobOf(MovedRow(r, q)) PROVE FALSE
      <4>1. CASE q \in Later(r)
        BY <1>10, <2>9, <3>1, <4>1
      <4>2. CASE q \notin Later(r)
        BY <1>3, <1>9, <2>9, <3>1, <4>2
      <4> QED
        BY <4>1, <4>2
    <3>2. j \notin RowJobs'
      BY <2>7, <3>1
    <3> HIDE DEF taken
    <3> QED
      BY ONLY <2>1, <2>6, <2>9, <3>2
  <2>10. CASE j \notin MovedJobs(r) /\ ~taken(j)
    <3>1. j \in RowJobs <=> j \in RowJobs'
      <4>1. ASSUME NEW q \in rows, j = JobOf(q) PROVE j \in RowJobs'
        <5>1. Names(q, j)
          BY <4>1 DEF Names, JobOf
        <5>2. q \in rest /\ q \notin Later(r)
          BY <2>10, <5>1
        <5> QED
          BY <1>3, <2>7, <4>1, <5>2
      <4>2. ASSUME NEW q \in rest, j = JobOf(MovedRow(r, q)) PROVE j \in RowJobs
        <5>1. q \notin Later(r)
          BY <1>10, <2>10, <4>2
        <5> QED
          BY <1>3, <4>2, <5>1 DEF RowJobs
      <4> QED
        BY <2>7, <4>1, <4>2 DEF RowJobs
    <3> HIDE DEF taken
    <3> QED
      BY ONLY <2>1, <2>4, <2>6, <2>10, <3>1
  <2> QED
    BY <2>8, <2>9, <2>10
<1> QED
  BY <1>4, <1>5, <1>6, <1>7, <1>11, <1>12 DEF QueueInv
-----------------------------------------------------------------------------
RowsFor(p, s) == {r \in rows : r.planet = p /\ r.ship = s}
Total == SumFunction([p \in Planet |-> Spent(p, "Money")])
GoodOrMoney == Good \cup {"Money"}

LEMMA QueuedRows ==
  ASSUME QueueInv
  PROVE  \A p, s : /\ Queued(p, s) = Cardinality(RowsFor(p, s)) /\ Queued(p, s) \in Nat
                   /\ IsFiniteSet(RowsFor(p, s))
<1> TAKE p, s
<1>1. {r \in RowsOf(p) : r.ship = s} = RowsFor(p, s)
  BY DEF RowsOf, RowsFor
<1>2. IsFiniteSet(RowsFor(p, s))
  BY FS_Subset DEF RowsFor, QueueInv, RowsById
<1> QED
  BY <1>1, <1>2, FS_CardinalityType DEF Queued

LEMMA PaidIsNat ==
  ASSUME QueueInv
  PROVE  \A p \in Planet, s \in Ship :
           /\ delivered[p][s] \in Nat /\ Queued(p, s) \in Nat /\ NotSaved(p, s) \in Nat
           /\ Paid(p, s) \in Nat
<1>1. \A p \in Planet, s \in Ship : delivered[p][s] \in Nat
  BY DEF QueueInv, TypeOK
<1>2. \A p \in Planet, s \in Ship : NotSaved(p, s) \in Nat
  BY Web DEF QueueInv, NotSaved
<1> QED
  BY <1>1, <1>2, QueuedRows DEF Paid

\* What a planet has spent, as a sum over its ships.
LEMMA SpentIsSum ==
  ASSUME QueueInv, NEW p \in Planet, NEW g \in GoodOrMoney
  PROVE  LET f == [s \in Ship |-> Paid(p, s) * Price[s][g]]
         IN  /\ Spent(p, g) = SumFunctionOnSet(f, Ship)
             /\ Spent(p, g) \in Nat
             /\ \A s \in Ship : f[s] \in Nat /\ f[s] <= Spent(p, g)
<1> DEFINE f == [s \in Ship |-> Paid(p, s) * Price[s][g]]
<1>1. DOMAIN f = Ship /\ \A s \in Ship : f[s] \in Nat
  BY PaidIsNat, Constants DEF GoodOrMoney
<1>2. Spent(p, g) = SumFunction(f)
  BY DEF Spent
<1> HIDE DEF f
<1>3. Spent(p, g) = SumFunctionOnSet(f, Ship)
  BY <1>1, <1>2 DEF SumFunction
<1>4. Spent(p, g) \in Nat /\ \A s \in Ship : f[s] <= Spent(p, g)
  BY <1>1, <1>3, Constants, SumNat
<1> QED
  BY <1>1, <1>3, <1>4 DEF f

LEMMA SpentIsSumAfter ==
  ASSUME QueueInv', NEW p \in Planet, NEW g \in GoodOrMoney
  PROVE  LET f == [s \in Ship |-> Paid(p, s)' * Price[s][g]]
         IN  /\ Spent(p, g)' = SumFunctionOnSet(f, Ship)
             /\ Spent(p, g)' \in Nat
             /\ \A s \in Ship : Paid(p, s)' \in Nat /\ f[s] \in Nat /\ f[s] <= Spent(p, g)'
<1> DEFINE f == [s \in Ship |-> Paid(p, s)' * Price[s][g]]
<1>0. \A s \in Ship : Paid(p, s)' \in Nat
  <2>1. \A s \in Ship : delivered'[p][s] \in Nat
    BY DEF QueueInv, TypeOK
  <2>2. \A s \in Ship : NotSaved(p, s)' \in Nat
    <3>1. web' # None => \A s \in Ship : web'.todo[s] \in Nat
      BY Constants DEF QueueInv, TypeOK, Request, Order
    <3> QED
      BY <3>1 DEF NotSaved
  <2>3. \A s \in Ship : Queued(p, s)' \in Nat
    <3> TAKE s \in Ship
    <3>1. IsFiniteSet({r \in RowsOf(p)' : r.ship = s})
      BY FS_Subset DEF QueueInv, RowsById, RowsOf
    <3>2. Cardinality({r \in RowsOf(p)' : r.ship = s}) \in Nat
      BY <3>1, FS_CardinalityType
    <3> QED
      BY <3>2 DEF Queued
  <2> QED
    BY <2>1, <2>2, <2>3 DEF Paid
<1>1. DOMAIN f = Ship /\ \A s \in Ship : f[s] \in Nat
  BY <1>0, Constants DEF GoodOrMoney
<1>2. Spent(p, g)' = SumFunction(f)
  BY DEF Spent
<1> HIDE DEF f
<1>3. Spent(p, g)' = SumFunctionOnSet(f, Ship)
  BY <1>1, <1>2 DEF SumFunction
<1>4. Spent(p, g)' \in Nat /\ \A s \in Ship : f[s] <= Spent(p, g)'
  BY <1>1, <1>3, Constants, SumNat
<1> QED
  BY <1>0, <1>1, <1>3, <1>4 DEF f

LEMMA SpentSame ==
  ASSUME QueueInv, QueueInv', NEW p \in Planet, NEW g \in GoodOrMoney,
         \A s \in Ship : Paid(p, s)' = Paid(p, s)
  PROVE  Spent(p, g)' = Spent(p, g)
<1> DEFINE f == [s \in Ship |-> Paid(p, s) * Price[s][g]]
           h == [s \in Ship |-> Paid(p, s)' * Price[s][g]]
<1>1. f = h
  OBVIOUS
<1>2. Spent(p, g) = SumFunctionOnSet(f, Ship) /\ Spent(p, g)' = SumFunctionOnSet(h, Ship)
  BY SpentIsSum, SpentIsSumAfter
<1> QED
  BY ONLY <1>1, <1>2

\* An order adds its price to what its planet has spent.
LEMMA SpentMore ==
  ASSUME QueueInv, QueueInv', NEW p \in Planet, NEW g \in GoodOrMoney, NEW order \in Order,
         \A s \in Ship : Paid(p, s)' = Paid(p, s) + order[s]
  PROVE  Spent(p, g)' = Spent(p, g) + CostOf(order, g)
<1> DEFINE f == [s \in Ship |-> Paid(p, s) * Price[s][g]]
           h == [s \in Ship |-> Paid(p, s)' * Price[s][g]]
           c == [s \in Ship |-> order[s] * Price[s][g]]
<1>1. Spent(p, g) = SumFunctionOnSet(f, Ship) /\ Spent(p, g)' = SumFunctionOnSet(h, Ship)
  BY SpentIsSum, SpentIsSumAfter
<1>2. CostOf(order, g) = SumFunctionOnSet(c, Ship)
  BY DEF CostOf, SumFunction
<1>3. \A s \in Ship : /\ f[s] \in Int /\ c[s] \in Int /\ h[s] = f[s] + c[s]
  <2> TAKE s \in Ship
  <2>1. Paid(p, s) \in Nat /\ order[s] \in Nat /\ Price[s][g] \in Nat
    BY PaidIsNat, ShipsAreSum, Constants DEF GoodOrMoney
  <2>2. \A a, b, x \in Nat : (a + b) * x = a * x + b * x /\ a * x \in Int /\ b * x \in Int
    OBVIOUS
  <2>3. f[s] = Paid(p, s) * Price[s][g] /\ c[s] = order[s] * Price[s][g]
        /\ h[s] = (Paid(p, s) + order[s]) * Price[s][g]
    OBVIOUS
  <2> HIDE DEF f, c, h
  <2> QED
    BY ONLY <2>1, <2>2, <2>3
<1> HIDE DEF f, c, h
<1> QED
  BY ONLY <1>1, <1>2, <1>3, Constants, SumPlus

\* A ship less, and its price.
LEMMA SpentLess ==
  ASSUME QueueInv, QueueInv', NEW p \in Planet, NEW g \in GoodOrMoney, NEW t \in Ship,
         \A s \in Ship : Paid(p, s)' = IF s = t THEN Paid(p, s) - 1 ELSE Paid(p, s)
  PROVE  Spent(p, g) = Spent(p, g)' + Price[t][g]
<1> DEFINE f == [s \in Ship |-> Paid(p, s) * Price[s][g]]
           h == [s \in Ship |-> Paid(p, s)' * Price[s][g]]
<1>1. Spent(p, g) = SumFunctionOnSet(f, Ship) /\ Spent(p, g)' = SumFunctionOnSet(h, Ship)
      /\ Spent(p, g) \in Nat /\ Spent(p, g)' \in Nat
      /\ \A s \in Ship : f[s] \in Int /\ h[s] \in Int
  BY SpentIsSum, SpentIsSumAfter
<1>2. \A s \in Ship \ {t} : h[s] = f[s]
  OBVIOUS
<1>3. f[t] = h[t] + Price[t][g] /\ Price[t][g] \in Nat
  <2>1. Paid(p, t) \in Nat /\ Price[t][g] \in Nat
    BY PaidIsNat, Constants DEF GoodOrMoney
  <2>2. \A a, x \in Nat : a * x = (a - 1) * x + x
    OBVIOUS
  <2>3. f[t] = Paid(p, t) * Price[t][g] /\ h[t] = (Paid(p, t) - 1) * Price[t][g]
    OBVIOUS
  <2> HIDE DEF f, h
  <2> QED
    BY ONLY <2>1, <2>2, <2>3
<1> HIDE DEF f, h
<1>4. SumFunctionOnSet(h, Ship) = SumFunctionOnSet(f, Ship) + h[t] - f[t]
  BY ONLY <1>1, <1>2, t \in Ship, Constants, SumChange
<1> QED
  BY ONLY <1>1, <1>3, <1>4, t \in Ship

\* The money spent changes on one planet only.
LEMMA TotalChange ==
  ASSUME QueueInv, QueueInv', NEW p \in Planet,
         \A q \in Planet : q # p => Spent(q, "Money")' = Spent(q, "Money")
  PROVE  /\ Total \in Nat /\ Total' \in Nat
         /\ Total' = Total + Spent(p, "Money")' - Spent(p, "Money")
<1> DEFINE f == [q \in Planet |-> Spent(q, "Money")]
           h == [q \in Planet |-> Spent(q, "Money")']
<1>1. /\ DOMAIN f = Planet /\ DOMAIN h = Planet
      /\ \A q \in Planet : f[q] \in Nat /\ h[q] \in Nat
      /\ f[p] = Spent(p, "Money") /\ h[p] = Spent(p, "Money")'
      /\ \A q \in Planet \ {p} : f[q] = h[q]
  <2>1. \A q \in Planet : Spent(q, "Money") \in Nat
    BY SpentIsSum DEF GoodOrMoney
  <2>2. \A q \in Planet : Spent(q, "Money")' \in Nat
    BY SpentIsSumAfter DEF GoodOrMoney
  <2> QED
    BY <2>1, <2>2
<1>2. Total = SumFunction(f) /\ Total' = SumFunction(h)
  BY DEF Total
<1> HIDE DEF f, h
<1>3. Total = SumFunctionOnSet(f, Planet) /\ Total' = SumFunctionOnSet(h, Planet)
  BY <1>1, <1>2 DEF SumFunction
<1>4. SumFunctionOnSet(h, Planet) = SumFunctionOnSet(f, Planet) + h[p] - f[p]
  BY ONLY <1>1, p \in Planet, Constants, SumChange
<1>5. Total \in Nat /\ Total' \in Nat
  BY ONLY <1>1, <1>3, Constants, SumNat
<1> QED
  BY ONLY <1>1, <1>3, <1>4, <1>5

\* What a step must show that changes one planet: its goods add up, no money is gained.
LEMMA BalanceStep ==
  ASSUME QueueInv, QueueInv', PaymentsBalance, ~Late, NEW p \in Planet,
         \A q \in Planet : q # p => /\ stock'[q] = stock[q]
                                    /\ \A s \in Ship : Paid(q, s)' = Paid(q, s),
         \A g \in Good : stock'[p][g] + Spent(p, g)' = stock[p][g] + Spent(p, g),
         money' + Spent(p, "Money")' <= money + Spent(p, "Money")
  PROVE  PaymentsBalance'
<1>1. \A q \in Planet, g \in GoodOrMoney : q # p => Spent(q, g)' = Spent(q, g)
  BY SpentSame
<1>2. GoodsBalance'
  <2>1. \A q \in Planet, g \in Good : stock[q][g] + Spent(q, g) = StartStock[g]
    BY DEF PaymentsBalance, GoodsBalance
  <2>2. \A q \in Planet, g \in Good : stock'[q][g] + Spent(q, g)' = StartStock[g]
    <3> TAKE q \in Planet, g \in Good
    <3>1. CASE q = p
      BY <2>1, <3>1
    <3>2. CASE q # p
      <4>1. stock'[q] = stock[q] /\ Spent(q, g)' = Spent(q, g)
        BY <1>1, <3>2 DEF GoodOrMoney
      <4> QED
        BY ONLY <2>1, <4>1
    <3> QED
      BY <3>1, <3>2
  <2> QED
    BY <2>2 DEF GoodsBalance
<1>3. MoneyNotMinted'
  <2>1. money + Total <= StartMoney
    BY DEF PaymentsBalance, MoneyNotMinted, Total
  <2>2. /\ Total \in Nat /\ Total' \in Nat
        /\ Total' = Total + Spent(p, "Money")' - Spent(p, "Money")
    BY <1>1, TotalChange DEF GoodOrMoney
  <2>3. Spent(p, "Money") \in Nat /\ Spent(p, "Money")' \in Nat
    BY SpentIsSum, SpentIsSumAfter DEF GoodOrMoney
  <2>4. money \in Nat /\ money' \in Nat /\ StartMoney \in Nat
    BY Constants DEF QueueInv, TypeOK
  <2>5. money' + Total' <= StartMoney
    BY ONLY <2>1, <2>2, <2>3, <2>4, money' + Spent(p, "Money")' <= money + Spent(p, "Money")
  <2> QED
    BY <2>5 DEF MoneyNotMinted, Total
<1> QED
  BY <1>2, <1>3 DEF PaymentsBalance

LEMMA BalanceSame ==
  ASSUME QueueInv, QueueInv', PaymentsBalance, UNCHANGED <<mode, stock, money>>,
         \A p \in Planet, s \in Ship : Paid(p, s)' = Paid(p, s)
  PROVE  PaymentsBalance'
<1>1. \A p \in Planet, g \in GoodOrMoney : Spent(p, g)' = Spent(p, g)
  BY SpentSame
<1>2. GoodsBalance'
  BY <1>1 DEF PaymentsBalance, GoodsBalance, GoodOrMoney, Late
<1>3. Total' = Total
  <2>1. [p \in Planet |-> Spent(p, "Money")'] = [p \in Planet |-> Spent(p, "Money")]
    BY <1>1 DEF GoodOrMoney
  <2>2. Total' = SumFunction([p \in Planet |-> Spent(p, "Money")'])
    BY DEF Total
  <2> QED
    BY ONLY <2>1, <2>2 DEF Total
<1>4. MoneyNotMinted'
  <2>1. ~Late => money + Total <= StartMoney
    BY DEF PaymentsBalance, MoneyNotMinted, Total
  <2>2. ~Late' => money' + Total' <= StartMoney
    BY <1>3, <2>1 DEF Late
  <2> QED
    BY <2>2 DEF MoneyNotMinted, Total
<1> QED
  BY <1>2, <1>4 DEF PaymentsBalance

\* While nothing lags, a planet never holds more than it may.
LEMMA StockBelowCap ==
  ASSUME QueueInv, PaymentsBalance, ~Late, NEW p \in Planet, NEW g \in Good
  PROVE  /\ stock[p][g] \in Nat /\ Spent(p, g) \in Nat /\ Cap[g] \in Nat
         /\ stock[p][g] + Spent(p, g) <= Cap[g]
<1>1. stock[p][g] \in Nat /\ Spent(p, g) \in Nat
  BY SpentIsSum DEF QueueInv, TypeOK, GoodOrMoney
<1>2. stock[p][g] + Spent(p, g) = StartStock[g]
  BY DEF PaymentsBalance, GoodsBalance
<1>3. StartStock[g] \in Nat /\ Cap[g] \in Nat /\ StartStock[g] <= Cap[g]
  BY Constants
<1> QED
  BY ONLY <1>1, <1>2, <1>3

LEMMA InsertBalances ==
  ASSUME QueueInv, QueueInv', PaymentsBalance, ~Late,
         NEW p \in Planet, NEW order \in Order, Insert(p, order)
  PROVE  PaymentsBalance'
<1>1. UNCHANGED <<rows, delivered>> /\ web = None
  BY DEF Insert
<1>2. \A q \in Planet, s \in Ship :
        /\ Paid(q, s) = delivered[q][s] + Queued(q, s) + 0
        /\ Paid(q, s)' = delivered[q][s] + Queued(q, s) + NotSaved(q, s)'
  BY <1>1 DEF Paid, Queued, RowsOf, NotSaved
<1>3. \A q \in Planet, s \in Ship : delivered[q][s] \in Nat /\ Queued(q, s) \in Nat
  BY PaidIsNat
<1>4. /\ \A q \in Planet : q # p => stock'[q] = stock[q]
      /\ \/ /\ \A g \in Good : stock[p][g] = stock'[p][g] + CostOf(order, g)
            /\ money = money' + CostOf(order, "Money")
            /\ web' = [planet |-> p, todo |-> order, entries |-> <<>>]
         \/ /\ \A g \in Good : stock[p][g] <= Cap[g] => stock'[p][g] = stock[p][g]
            /\ money' = money /\ web' = None
      /\ stock' \in [Planet -> [Good -> Nat]] /\ money' \in Nat
  BY InsertPays DEF QueueInv
<1>5. \A g \in GoodOrMoney : /\ Spent(p, g) \in Nat /\ Spent(p, g)' \in Nat
                             /\ CostOf(order, g) \in Nat
  BY SpentIsSum, SpentIsSumAfter, CostIsNat DEF GoodOrMoney
<1>6. CASE /\ \A g \in Good : stock[p][g] = stock'[p][g] + CostOf(order, g)
           /\ money = money' + CostOf(order, "Money")
           /\ web' = [planet |-> p, todo |-> order, entries |-> <<>>]
  <2>1. web' # None
    <3>1. <<>> \in Seq(Entry)
      OBVIOUS
    <3>2. web' \in Request
      BY ONLY <1>6, <3>1, p \in Planet, order \in Order DEF Request
    <3> QED
      BY <3>2, Constants
  <2>2. \A s \in Ship : order[s] \in Nat
    BY ShipsAreSum
  <2>3. \A q \in Planet, s \in Ship : NotSaved(q, s)' = IF q = p THEN order[s] ELSE 0
    BY <1>6, <2>1 DEF NotSaved
  <2>4. \A s \in Ship : Paid(p, s)' = Paid(p, s) + order[s]
    BY <1>2, <1>3, <2>2, <2>3
  <2>5. \A q \in Planet : q # p => \A s \in Ship : Paid(q, s)' = Paid(q, s)
    BY <1>2, <2>3
  <2>6. \A g \in GoodOrMoney : Spent(p, g)' = Spent(p, g) + CostOf(order, g)
    BY <2>4, SpentMore
  <2>7. \A g \in Good : stock'[p][g] + Spent(p, g)' = stock[p][g] + Spent(p, g)
    <3> TAKE g \in Good
    <3>1. stock[p][g] = stock'[p][g] + CostOf(order, g) /\ stock'[p][g] \in Nat
      BY <1>4, <1>6
    <3>2. g \in GoodOrMoney
      BY DEF GoodOrMoney
    <3> QED
      BY ONLY <1>5, <2>6, <3>1, <3>2
  <2>8. money' + Spent(p, "Money")' <= money + Spent(p, "Money")
    <3>1. "Money" \in GoodOrMoney
      BY DEF GoodOrMoney
    <3> QED
      BY ONLY <1>4, <1>5, <1>6, <2>6, <3>1
  <2> QED
    BY <1>4, <2>5, <2>7, <2>8, BalanceStep
<1>7. CASE /\ \A g \in Good : stock[p][g] <= Cap[g] => stock'[p][g] = stock[p][g]
           /\ money' = money /\ web' = None
  <2>1. \A q \in Planet, s \in Ship : Paid(q, s)' = Paid(q, s)
    BY <1>2, <1>7 DEF NotSaved
  <2>2. \A g \in Good : stock'[p][g] = stock[p][g]
    <3> TAKE g \in Good
    <3>1. stock[p][g] <= Cap[g]
      BY StockBelowCap
    <3> QED
      BY <1>7, <3>1
  <2>3. \A g \in GoodOrMoney : Spent(p, g)' = Spent(p, g)
    BY <2>1, SpentSame
  <2>4. \A g \in Good : stock'[p][g] + Spent(p, g)' = stock[p][g] + Spent(p, g)
    BY <2>2, <2>3 DEF GoodOrMoney
  <2>5. money \in Nat
    BY DEF QueueInv, TypeOK
  <2>6. money' + Spent(p, "Money")' <= money + Spent(p, "Money")
    BY <1>5, <1>7, <2>3, <2>5 DEF GoodOrMoney
  <2> QED
    BY <1>4, <2>1, <2>4, <2>6, BalanceStep
<1> QED
  BY <1>4, <1>6, <1>7

\* What is still to do and what is queued: one becomes the other.
LEMMA SaveBalances ==
  ASSUME QueueInv, QueueInv', PaymentsBalance, SaveGroup
  PROVE  PaymentsBalance'
<1> DEFINE n == Len(web.entries)
           t == web.entries[1].ship
           h == web.planet
<1>1. /\ web # None /\ n \in Nat /\ n > 0 /\ DOMAIN web.entries = 1 .. n
      /\ rows' = rows \cup NewRows
      /\ UNCHANGED <<mode, stock, money, delivered>>
      /\ t \in Ship /\ n = web.todo[t] /\ StillToDo \in Order
      /\ web' \in Request \cup {None}
      /\ web' = None => Ships(StillToDo) = 0
      /\ web' # None => web'.planet = h /\ web'.todo = StillToDo
      /\ \A i \in 1 .. n : /\ NewRow(i).id = nextId + i - 1 /\ NewRow(i).planet = h
                           /\ NewRow(i).ship = t
  BY SaveEffect
<1>2. nextId \in Nat /\ h \in Planet /\ web.todo \in Order
      /\ \A r \in rows : r.id < nextId /\ r.id \in Nat
  BY <1>1, Types, Web DEF QueueInv, RowsById
<1> HIDE DEF n, t, h
<1>3. IsFiniteSet(NewRows) /\ Cardinality(NewRows) = n /\ NewRows \cap rows = {}
  <2> DEFINE f == [i \in 1 .. n |-> NewRow(i)]
  <2>1. NewRows = {f[i] : i \in 1 .. n}
    BY <1>1 DEF NewRows
  <2>2. \A i, k \in 1 .. n : f[i] = f[k] => i = k
    <3> TAKE i, k \in 1 .. n
    <3>1. NewRow(i) = NewRow(k) => nextId + i - 1 = nextId + k - 1
      BY <1>1
    <3> QED
      BY <1>2, <3>1
  <2>3. IsFiniteSet(1 .. n) /\ Cardinality(1 .. n) = n
    <3>1. n \in Nat /\ n > 0
      BY <1>1
    <3>2. IsFiniteSet(1 .. n) /\ Cardinality(1 .. n) = IF 1 > n THEN 0 ELSE n - 1 + 1
      BY ONLY <3>1, FS_Interval
    <3> QED
      BY ONLY <3>1, <3>2
  <2>4. ASSUME NEW r \in NewRows PROVE r \notin rows
    <3>1. PICK i \in 1 .. n : r = NewRow(i)
      BY <1>1 DEF NewRows
    <3>2. r.id = nextId + i - 1
      BY <1>1, <3>1
    <3> QED
      BY <1>2, <3>2
  <2> HIDE DEF f
  <2>5. IsFiniteSet({f[i] : i \in 1 .. n}) /\ Cardinality({f[i] : i \in 1 .. n}) = n
    <3>1. IsFiniteSet({f[i] : i \in 1 .. n})
      BY ONLY <2>3, FiniteImage
    <3>2. Cardinality({f[i] : i \in 1 .. n}) = Cardinality(1 .. n)
      <4> DEFINE I == 1 .. n
      <4>1. IsFiniteSet(I) /\ \A i, k \in I : f[i] = f[k] => i = k
        BY <2>2, <2>3
      <4> HIDE DEF I
      <4>2. Cardinality({f[i] : i \in I}) = Cardinality(I)
        BY ONLY <4>1, DistinctImage
      <4> QED
        BY <4>2 DEF I
    <3> QED
      BY <2>3, <3>1, <3>2
  <2> QED
    BY <2>1, <2>4, <2>5
<1>4. \A p \in Planet, s \in Ship : Queued(p, s) \in Nat /\
        Queued(p, s)' = Queued(p, s) + IF p = h /\ s = t THEN n ELSE 0
  <2> TAKE p \in Planet, s \in Ship
  <2>1. Queued(p, s) = Cardinality(RowsFor(p, s)) /\ Queued(p, s) \in Nat
        /\ IsFiniteSet(RowsFor(p, s))
    BY QueuedRows
  <2>2. Queued(p, s)' = Cardinality({r \in rows' : r.planet = p /\ r.ship = s})
    <3>1. {r \in RowsOf(p)' : r.ship = s} = {r \in rows' : r.planet = p /\ r.ship = s}
      BY DEF RowsOf
    <3> QED
      BY <3>1 DEF Queued
  <2>3. \A r \in NewRows : r.planet = h /\ r.ship = t
    BY <1>1 DEF NewRows
  <2>4. CASE p = h /\ s = t
    <3>1. {r \in rows' : r.planet = p /\ r.ship = s} = RowsFor(p, s) \cup NewRows
      BY <1>1, <2>3, <2>4 DEF RowsFor
    <3>2. RowsFor(p, s) \cap NewRows = {}
      BY <1>3 DEF RowsFor
    <3>3. Cardinality(RowsFor(p, s) \cup NewRows) =
            Cardinality(RowsFor(p, s)) + Cardinality(NewRows) - Cardinality({})
      BY <1>3, <2>1, <3>2, FS_Union
    <3>4. Cardinality({}) = 0 /\ n \in Nat /\ Cardinality(NewRows) = n
      BY <1>1, <1>3, FS_EmptySet
    <3>5. Queued(p, s)' = Queued(p, s) + n
      <4>1. Queued(p, s)' = Cardinality(RowsFor(p, s) \cup NewRows)
        BY ONLY <2>2, <3>1
      <4> QED
        BY ONLY <2>1, <3>3, <3>4, <4>1
    <3> QED
      BY ONLY <2>1, <2>4, <3>5
  <2>5. CASE ~(p = h /\ s = t)
    <3>1. {r \in rows' : r.planet = p /\ r.ship = s} = RowsFor(p, s)
      BY <1>1, <2>3, <2>5 DEF RowsFor
    <3> QED
      BY <2>1, <2>2, <2>5, <3>1
  <2> QED
    BY <2>4, <2>5
<1>5. \A p \in Planet, s \in Ship : NotSaved(p, s) \in Nat /\
        NotSaved(p, s) = NotSaved(p, s)' + IF p = h /\ s = t THEN n ELSE 0
  <2> TAKE p \in Planet, s \in Ship
  <2>1. NotSaved(p, s) = IF p = h THEN web.todo[s] ELSE 0
    BY <1>1 DEF NotSaved, h
  <2>2. /\ StillToDo[s] = IF s = t THEN 0 ELSE web.todo[s]
        /\ StillToDo[s] \in Nat /\ web.todo[s] \in Nat
    BY <1>1, <1>2, ShipsAreSum DEF StillToDo, t
  <2>3. CASE web' = None
    <3>1. StillToDo[s] <= 0
      BY <1>1, <2>3, ShipsAreSum
    <3>2. NotSaved(p, s)' = 0
      BY <2>3 DEF NotSaved
    <3> QED
      BY ONLY <1>1, <2>1, <2>2, <3>1, <3>2
  <2>4. CASE web' # None
    <3>1. NotSaved(p, s)' = IF p = h THEN StillToDo[s] ELSE 0
      BY <1>1, <2>4 DEF NotSaved
    <3> QED
      BY ONLY <1>1, <2>1, <2>2, <3>1
  <2> QED
    BY <2>3, <2>4
<1>6. \A p \in Planet, s \in Ship : Paid(p, s)' = Paid(p, s)
  <2> TAKE p \in Planet, s \in Ship
  <2>1. Paid(p, s)' = delivered[p][s] + Queued(p, s)' + NotSaved(p, s)'
    BY <1>1 DEF Paid
  <2>2. delivered[p][s] \in Nat
    BY PaidIsNat
  <2>3. NotSaved(p, s)' \in Nat
    <3>1. web' # None => web'.todo[s] \in Nat
      BY <1>1, ShipsAreSum
    <3> QED
      BY <3>1 DEF NotSaved
  <2>4. Paid(p, s) = delivered[p][s] + Queued(p, s) + NotSaved(p, s)
    BY DEF Paid
  <2>5. Queued(p, s) \in Nat /\ Queued(p, s)' = Queued(p, s) + IF p = h /\ s = t THEN n ELSE 0
    BY <1>4
  <2>6. NotSaved(p, s) = NotSaved(p, s)' + IF p = h /\ s = t THEN n ELSE 0
    BY <1>5
  <2>7. n \in Nat
    BY <1>1
  <2> QED
    BY ONLY <2>1, <2>2, <2>3, <2>4, <2>5, <2>6, <2>7
<1> QED
  BY <1>1, <1>6, BalanceSame

\* A group of jobs changes neither the order nor the rows.
LEMMA EnqueueBalances ==
  ASSUME QueueInv, QueueInv', PaymentsBalance, NEW t \in Ship, EnqueueGroup(t),
         web' # None, web'.planet = web.planet, web'.todo = web.todo
  PROVE  PaymentsBalance'
<1>1. web # None /\ UNCHANGED <<mode, rows, stock, money, delivered>>
  BY DEF EnqueueGroup
<1>2. \A p \in Planet, s \in Ship : Paid(p, s)' = Paid(p, s)
  BY <1>1 DEF Paid, Queued, RowsOf, NotSaved
<1> QED
  BY <1>1, <1>2, BalanceSame

\* The ship is delivered, the row with its qid goes away.
LEMMA AddShipBalances ==
  ASSUME QueueInv, QueueInv', PaymentsBalance, ~Late, NEW j \in DOMAIN ready, AddShip(j)
  PROVE  PaymentsBalance'
<1>1. /\ j \in Job /\ rows' = {r \in rows : r.qid # j.qid}
      /\ \A p \in Planet, s \in Ship :
           delivered'[p][s] = delivered[p][s] + IF p = j.planet /\ s = j.ship THEN 1 ELSE 0
      /\ UNCHANGED <<mode, stock, money, web>>
  BY AddShipEffect
<1>2. web = None /\ TypeOK /\ QidsIncrease /\ RowsById
  BY DEF QueueInv, Ahead
<1>3. PICK x \in rows : j = JobOf(x)
  <2>1. Count(ready, j) > 0 /\ Count(ready, j) \in Nat /\ Count(delayed, j) \in Nat
    BY <1>1, <1>2, Types, CountJobs
  <2>2. Pending(j) > 0
    BY ONLY <2>1 DEF Pending
  <2>3. j \in RowJobs \cup GroupJobs
    BY <1>1, <2>2 DEF QueueInv, JobsAreRows
  <2> QED
    BY <1>2, <2>3 DEF RowJobs, GroupJobs
<1>4. rows' = rows \ {x} /\ x.planet = j.planet /\ x.ship = j.ship
  <2>1. x.qid = j.qid /\ x.planet = j.planet /\ x.ship = j.ship
    BY <1>3 DEF JobOf
  <2>2. \A r \in rows : r.qid = j.qid => r = x
    BY <1>2, <2>1, QidsApart
  <2> QED
    BY <1>1, <2>1, <2>2
<1>5. \A p \in Planet, s \in Ship :
        Queued(p, s)' = Queued(p, s) - IF p = j.planet /\ s = j.ship THEN 1 ELSE 0
  <2> TAKE p \in Planet, s \in Ship
  <2>1. Queued(p, s) = Cardinality(RowsFor(p, s)) /\ Queued(p, s) \in Nat
        /\ IsFiniteSet(RowsFor(p, s))
    BY QueuedRows
  <2>2. Queued(p, s)' = Cardinality({r \in rows' : r.planet = p /\ r.ship = s})
    <3>1. {r \in RowsOf(p)' : r.ship = s} = {r \in rows' : r.planet = p /\ r.ship = s}
      BY DEF RowsOf
    <3> QED
      BY <3>1 DEF Queued
  <2>3. {r \in rows' : r.planet = p /\ r.ship = s} = RowsFor(p, s) \ {x}
    BY <1>4 DEF RowsFor
  <2>4. Queued(p, s)' = Cardinality(RowsFor(p, s) \ {x})
    BY ONLY <2>2, <2>3
  <2>5. Cardinality(RowsFor(p, s) \ {x}) =
          IF x \in RowsFor(p, s) THEN Cardinality(RowsFor(p, s)) - 1
          ELSE Cardinality(RowsFor(p, s))
    BY ONLY <2>1, FS_RemoveElement
  <2>6. x \in RowsFor(p, s) <=> p = j.planet /\ s = j.ship
    BY <1>4 DEF RowsFor
  <2> QED
    BY ONLY <2>1, <2>4, <2>5, <2>6
<1>6. \A p \in Planet, s \in Ship : Paid(p, s)' = Paid(p, s)
  <2> TAKE p \in Planet, s \in Ship
  <2>1. NotSaved(p, s)' = 0 /\ NotSaved(p, s) = 0
    BY <1>1, <1>2 DEF NotSaved
  <2>2. Queued(p, s) \in Nat /\ delivered[p][s] \in Nat
    BY PaidIsNat
  <2>3. Queued(p, s)' = Queued(p, s) - IF p = j.planet /\ s = j.ship THEN 1 ELSE 0
    BY <1>5
  <2>4. delivered'[p][s] = delivered[p][s] + IF p = j.planet /\ s = j.ship THEN 1 ELSE 0
    BY <1>1
  <2>5. /\ Paid(p, s) = delivered[p][s] + Queued(p, s) + NotSaved(p, s)
        /\ Paid(p, s)' = delivered'[p][s] + Queued(p, s)' + NotSaved(p, s)'
    BY DEF Paid
  <2> QED
    BY ONLY <2>1, <2>2, <2>3, <2>4, <2>5
<1> QED
  BY <1>1, <1>6, BalanceSame

LEMMA RemovePays ==
  ASSUME TypeOK, NEW r \in rows, RemoveQueue(r)
  PROVE  /\ r.planet \in Planet /\ r.ship \in Ship
         /\ \A q \in Planet : q # r.planet => stock'[q] = stock[q]
         /\ \A g \in Good : stock'[r.planet][g] = Give(stock[r.planet][g], Price[r.ship][g], Cap[g])
         /\ stock' \in [Planet -> [Good -> Nat]]
         /\ money' = money + Price[r.ship]["Crystal"] /\ money' \in Nat
<1> DEFINE p == r.planet
           given == [g \in Good |-> Give(stock[p][g], Price[r.ship][g], Cap[g])]
<1>1. p \in Planet /\ r.ship \in Ship
  BY Types
<1>2. stock \in [Planet -> [Good -> Nat]] /\ money \in Nat
  BY DEF TypeOK
<1>3. \A g \in Good : given[g] \in Nat
  <2> TAKE g \in Good
  <2>1. stock[p][g] \in Nat /\ Price[r.ship][g] \in Nat /\ Cap[g] \in Nat
    BY <1>1, <1>2, Constants
  <2>2. Give(stock[p][g], Price[r.ship][g], Cap[g]) \in Nat
    BY ONLY <2>1 DEF Give
  <2> QED
    BY <2>2
<1>4. stock' = [stock EXCEPT ![p] = given] /\ money' = money + Price[r.ship]["Crystal"]
  BY <1>1, <1>2 DEF RemoveQueue
<1>5. Price[r.ship]["Crystal"] \in Nat
  BY <1>1, Constants DEF Good
<1>6. \A g \in Good : given[g] = Give(stock[p][g], Price[r.ship][g], Cap[g])
  OBVIOUS
<1>7. DOMAIN given = Good /\ given \in [Good -> Nat]
  BY <1>3
<1> HIDE DEF given, p
<1>8. /\ stock'[p] = given /\ (\A q \in Planet : q # p => stock'[q] = stock[q])
      /\ stock' \in [Planet -> [Good -> Nat]]
  BY ONLY <1>1, <1>2, <1>4, <1>7
<1> QED
  BY <1>1, <1>2, <1>4, <1>5, <1>6, <1>8 DEF p

\* A cancellation gives back what the ship has cost, in money no more.
LEMMA RemoveBalances ==
  ASSUME QueueInv, QueueInv', PaymentsBalance, ~Late, NEW r \in rows, RemoveQueue(r)
  PROVE  PaymentsBalance'
<1> DEFINE p == r.planet
           t == r.ship
<1>1. /\ web = None /\ rows' = {MovedRow(r, q) : q \in rows \ {r}}
      /\ UNCHANGED <<mode, web, delivered>>
  BY RemoveEffect
<1>2. TypeOK
  BY DEF QueueInv
<1>3. /\ p \in Planet /\ t \in Ship
      /\ \A q \in Planet : q # p => stock'[q] = stock[q]
      /\ \A g \in Good : stock'[p][g] = Give(stock[p][g], Price[t][g], Cap[g])
      /\ money' = money + Price[t]["Crystal"]
  BY <1>2, RemovePays
<1>4. \A q \in rows : /\ MovedRow(r, q).id = q.id
                      /\ MovedRow(r, q).planet = q.planet /\ MovedRow(r, q).ship = q.ship
  BY <1>2, MovedRows
<1>5. \A h \in Planet, s \in Ship :
        Queued(h, s)' = Queued(h, s) - IF h = p /\ s = t THEN 1 ELSE 0
  <2> TAKE h \in Planet, s \in Ship
  <2> DEFINE old == RowsFor(h, s) \ {r}
             f == [q \in old |-> MovedRow(r, q)]
  <2>1. Queued(h, s) = Cardinality(RowsFor(h, s)) /\ Queued(h, s) \in Nat
        /\ IsFiniteSet(RowsFor(h, s))
    BY QueuedRows
  <2>2. Queued(h, s)' = Cardinality({q \in rows' : q.planet = h /\ q.ship = s})
    <3>1. {q \in RowsOf(h)' : q.ship = s} = {q \in rows' : q.planet = h /\ q.ship = s}
      BY DEF RowsOf
    <3> QED
      BY <3>1 DEF Queued
  <2>3. {q \in rows' : q.planet = h /\ q.ship = s} = {f[q] : q \in old}
    <3>1. {f[q] : q \in old} = {MovedRow(r, q) : q \in old}
      OBVIOUS
    <3>2. {q \in rows' : q.planet = h /\ q.ship = s} = {MovedRow(r, q) : q \in old}
      BY <1>1, <1>4 DEF RowsFor
    <3> QED
      BY ONLY <3>1, <3>2
  <2>4. \A x, y \in old : f[x] = f[y] => x = y
    BY <1>4 DEF RowsFor, QueueInv, RowsById
  <2>5. IsFiniteSet(old) /\ Cardinality(old) =
          IF r \in RowsFor(h, s) THEN Cardinality(RowsFor(h, s)) - 1
          ELSE Cardinality(RowsFor(h, s))
    BY ONLY <2>1, FS_RemoveElement
  <2>6. r \in RowsFor(h, s) <=> h = p /\ s = t
    BY DEF RowsFor
  <2> HIDE DEF f, old
  <2>7. Cardinality({f[q] : q \in old}) = Cardinality(old)
    BY ONLY <2>4, <2>5, DistinctImage
  <2>8. Queued(h, s)' = Cardinality(old)
    BY ONLY <2>2, <2>3, <2>7
  <2> QED
    BY ONLY <2>1, <2>5, <2>6, <2>8
<1>6. \A h \in Planet, s \in Ship :
        Paid(h, s)' = IF h = p /\ s = t THEN Paid(h, s) - 1 ELSE Paid(h, s)
  <2> TAKE h \in Planet, s \in Ship
  <2>1. NotSaved(h, s)' = 0 /\ NotSaved(h, s) = 0
    BY <1>1 DEF NotSaved
  <2>2. Queued(h, s) \in Nat /\ delivered[h][s] \in Nat
    BY PaidIsNat
  <2>3. Queued(h, s)' = Queued(h, s) - IF h = p /\ s = t THEN 1 ELSE 0
    BY <1>5
  <2>4. /\ Paid(h, s) = delivered[h][s] + Queued(h, s) + NotSaved(h, s)
        /\ Paid(h, s)' = delivered[h][s] + Queued(h, s)' + NotSaved(h, s)'
    BY <1>1 DEF Paid
  <2> HIDE DEF p, t
  <2> QED
    BY ONLY <2>1, <2>2, <2>3, <2>4
<1>7. \A g \in GoodOrMoney : /\ Spent(p, g) = Spent(p, g)' + Price[t][g]
                             /\ Spent(p, g) \in Nat /\ Spent(p, g)' \in Nat
                             /\ Price[t][g] \in Nat
  <2> TAKE g \in GoodOrMoney
  <2>1. \A s \in Ship : Paid(p, s)' = IF s = t THEN Paid(p, s) - 1 ELSE Paid(p, s)
    BY <1>3, <1>6
  <2>2. Spent(p, g) = Spent(p, g)' + Price[t][g]
    BY <1>3, <2>1, SpentLess
  <2>3. Spent(p, g) \in Nat /\ Spent(p, g)' \in Nat
    BY <1>3, SpentIsSum, SpentIsSumAfter
  <2> QED
    BY <1>3, <2>2, <2>3, Constants DEF GoodOrMoney
<1>8. \A g \in Good : stock'[p][g] + Spent(p, g)' = stock[p][g] + Spent(p, g)
  <2> TAKE g \in Good
  <2>1. /\ stock[p][g] \in Nat /\ Cap[g] \in Nat
        /\ stock[p][g] + Spent(p, g) <= Cap[g]
    BY <1>3, StockBelowCap
  <2>2. /\ Spent(p, g) = Spent(p, g)' + Price[t][g]
        /\ Spent(p, g) \in Nat /\ Spent(p, g)' \in Nat /\ Price[t][g] \in Nat
    BY <1>7 DEF GoodOrMoney
  <2>3. Give(stock[p][g], Price[t][g], Cap[g]) = stock[p][g] + Price[t][g]
    BY ONLY <2>1, <2>2 DEF Give
  <2>4. stock'[p][g] = stock[p][g] + Price[t][g]
    BY <1>3, <2>3
  <2> QED
    BY ONLY <2>1, <2>2, <2>4
<1>9. money' + Spent(p, "Money")' <= money + Spent(p, "Money")
  <2>1. /\ Spent(p, "Money") = Spent(p, "Money")' + Price[t]["Money"]
        /\ Spent(p, "Money") \in Nat /\ Spent(p, "Money")' \in Nat
        /\ Price[t]["Money"] \in Nat
    BY <1>7 DEF GoodOrMoney
  <2>2. Price[t]["Crystal"] <= Price[t]["Money"] /\ Price[t]["Crystal"] \in Nat
    BY <1>3, Constants DEF Good
  <2>3. money \in Nat
    BY <1>2 DEF TypeOK
  <2>4. money' = money + Price[t]["Crystal"]
    BY <1>3
  <2> QED
    BY ONLY <2>1, <2>2, <2>3, <2>4
<1>10. \A q \in Planet : q # p => /\ stock'[q] = stock[q]
                                  /\ \A s \in Ship : Paid(q, s)' = Paid(q, s)
  BY <1>3, <1>6
<1> HIDE DEF p
<1> QED
  BY <1>3, <1>8, <1>9, <1>10, BalanceStep
-----------------------------------------------------------------------------
LEMMA InitInv ==
  ASSUME Init
  PROVE  QueueInv /\ PaymentsBalance
<1>1. TypeOK
  <2>1. delivered \in [Planet -> [Ship -> Nat]] /\ stock \in [Planet -> [Good -> Nat]]
    <3>1. [s \in Ship |-> 0] \in [Ship -> Nat]
      OBVIOUS
    <3>2. StartStock \in [Good -> Nat]
      BY ShipQueueAssumption
    <3>3. delivered \in [Planet -> [Ship -> Nat]]
      BY <3>1 DEF Init
    <3>4. stock \in [Planet -> [Good -> Nat]]
      BY <3>2 DEF Init
    <3> QED
      BY <3>3, <3>4
  <2>2. DOMAIN delayed = {} /\ DOMAIN ready = {}
    BY DEF Init, EmptyBag, SetToBag
  <2> QED
    BY <2>1, <2>2, Constants DEF Init, TypeOK
<1>2. rows = {} /\ web = None /\ DOMAIN delayed = {} /\ DOMAIN ready = {}
  BY DEF Init, EmptyBag, SetToBag
<1>3. RowsById /\ QidsIncrease /\ GroupFits /\ ReadyIsDue /\ RowsAwait /\ GroupAwaits /\ Ahead
  BY <1>2, FS_EmptySet DEF RowsById, QidsIncrease, GroupFits, ReadyIsDue, RowsAwait,
     GroupAwaits, Ahead
<1>4. JobsAreRows
  BY <1>2 DEF JobsAreRows, Pending, Count, RowJobs, GroupJobs
<1>5. QueueInv
  BY <1>1, <1>3, <1>4 DEF QueueInv
<1>6. \A p \in Planet, s \in Ship : Paid(p, s) = 0
  <2> TAKE p \in Planet, s \in Ship
  <2>1. delivered[p][s] = 0 /\ NotSaved(p, s) = 0
    BY <1>2 DEF Init, NotSaved
  <2>2. RowsFor(p, s) = {}
    BY <1>2 DEF RowsFor
  <2>3. Queued(p, s) = 0
    BY <1>5, <2>2, QueuedRows, FS_EmptySet
  <2> QED
    BY <2>1, <2>3 DEF Paid
<1>7. \A p \in Planet, g \in GoodOrMoney : Spent(p, g) = 0
  <2> TAKE p \in Planet, g \in GoodOrMoney
  <2> DEFINE f == [s \in Ship |-> Paid(p, s) * Price[s][g]]
  <2>1. \A s \in Ship : f[s] = 0
    <3>1. \A s \in Ship : Price[s][g] \in Nat
      BY Constants DEF GoodOrMoney
    <3> QED
      BY <1>6, <3>1
  <2>2. Spent(p, g) = SumFunctionOnSet(f, Ship)
    BY <1>5, SpentIsSum
  <2> HIDE DEF f
  <2> QED
    BY <2>1, <2>2, Constants, SumZero
<1>8. GoodsBalance
  <2>1. \A p \in Planet, g \in Good : stock[p][g] = StartStock[g]
    BY DEF Init
  <2> QED
    BY <1>7, <2>1, Constants DEF GoodsBalance, GoodOrMoney
<1>9. MoneyNotMinted
  <2> DEFINE f == [p \in Planet |-> Spent(p, "Money")]
  <2>1. DOMAIN f = Planet /\ \A p \in Planet : f[p] = 0
    BY <1>7 DEF GoodOrMoney
  <2> HIDE DEF f
  <2>2. SumFunction(f) = 0
    BY <2>1, Constants, SumZero DEF SumFunction
  <2> QED
    BY <2>2, Constants DEF f, MoneyNotMinted, Init
<1> QED
  BY <1>5, <1>8, <1>9 DEF PaymentsBalance

LEMMA QueueStep ==
  ASSUME QueueInv, [Next]_vars
  PROVE  QueueInv'
<1>1. ASSUME NEW p \in Planet, NEW order \in Order, Insert(p, order) PROVE QueueInv'
  BY <1>1, InsertKeeps
<1>2. ASSUME NEW s \in Ship, EnqueueGroup(s) PROVE QueueInv'
  BY <1>2, EnqueueKeeps
<1>3. CASE SaveGroup
  BY <1>3, SaveKeeps
<1>4. ASSUME NEW r \in rows, RemoveQueue(r) PROVE QueueInv'
  BY <1>4, RemovePays, RemoveKeeps DEF QueueInv
<1>5. ASSUME NEW r \in rows, Destroy(r) PROVE QueueInv'
  BY <1>5, DestroyKeeps
<1>6. ASSUME NEW j \in DOMAIN ready, AddShip(j) PROVE QueueInv'
  BY <1>6, AddShipKeeps
<1>7. ASSUME NEW j \in DOMAIN delayed, Release(j) PROVE QueueInv'
  BY <1>7, ReleaseKeeps
<1>8. CASE Tick
  BY <1>8, TickKeeps
<1>9. CASE UNCHANGED vars
  BY <1>9 DEF vars, QueueInv, TypeOK, RowsById, QidsIncrease, GroupFits, ReadyIsDue, RowsAwait,
     GroupAwaits, Ahead, JobsAreRows, Pending, JobOf, JobOfEntry, RowJobs, GroupJobs, Late
<1> QED
  BY <1>1, <1>2, <1>3, <1>4, <1>5, <1>6, <1>7, <1>8, <1>9 DEF Next

LEMMA PaymentsStep ==
  ASSUME QueueInv, QueueInv', PaymentsBalance, [Next]_vars
  PROVE  PaymentsBalance'
<1>1. mode' = mode
  BY DEF Next, vars, Insert, EnqueueGroup, SaveGroup, RemoveQueue, Destroy, AddShip, Release, Tick
<1>2. CASE Late
  BY <1>1, <1>2 DEF PaymentsBalance, GoodsBalance, MoneyNotMinted, Late
<1>3. CASE ~Late
  <2>1. ASSUME NEW p \in Planet, NEW order \in Order, Insert(p, order) PROVE PaymentsBalance'
    BY <1>3, <2>1, InsertBalances
  <2>2. ASSUME NEW s \in Ship, EnqueueGroup(s) PROVE PaymentsBalance'
    BY <2>2, EnqueueKeeps, EnqueueBalances
  <2>3. CASE SaveGroup
    BY <2>3, SaveBalances
  <2>4. ASSUME NEW r \in rows, RemoveQueue(r) PROVE PaymentsBalance'
    BY <1>3, <2>4, RemoveBalances
  <2>5. ASSUME NEW r \in rows, Destroy(r) PROVE PaymentsBalance'
    BY <1>3, <2>5 DEF Destroy
  <2>6. ASSUME NEW j \in DOMAIN ready, AddShip(j) PROVE PaymentsBalance'
    BY <1>3, <2>6, AddShipBalances
  <2>7. ASSUME UNCHANGED <<mode, rows, stock, money, web, delivered>> PROVE PaymentsBalance'
    <3>1. \A p \in Planet, s \in Ship : Paid(p, s)' = Paid(p, s)
      BY <2>7 DEF Paid, Queued, RowsOf, NotSaved
    <3> QED
      BY <2>7, <3>1, BalanceSame
  <2>8. ASSUME NEW j \in DOMAIN delayed, Release(j) PROVE PaymentsBalance'
    BY <2>7, <2>8 DEF Release
  <2>9. CASE Tick
    BY <2>7, <2>9 DEF Tick
  <2>10. CASE UNCHANGED vars
    BY <2>7, <2>10 DEF vars
  <2> QED
    BY <2>1, <2>2, <2>3, <2>4, <2>5, <2>6, <2>8, <2>9, <2>10 DEF Next
<1> QED
  BY <1>2, <1>3

\* Orders, cancellations, jobs and deleted rows, late or not, keep qids apart and every
\* row at its job (ShipBuildingQueue.insert, remove_queue, AddShip.perform).
THEOREM QueueCorrect == Spec => []QueueInv
<1>1. QueueInv /\ [Next]_vars => QueueInv'
  BY QueueStep
<1> QED
  BY <1>1, InitInv, PTL DEF Spec

\* While nothing lags, orders, refusals, cancellations and ships neither make nor lose
\* a good, and make no money (insert, remove_queue, take and give of planet.rb).
THEOREM PaymentsBalanceCorrect == Spec => []PaymentsBalance
<1>1. PaymentsBalance /\ QueueInv /\ QueueInv' /\ [Next]_vars => PaymentsBalance'
  BY PaymentsStep
<1> QED
  BY <1>1, InitInv, QueueCorrect, PTL DEF Spec

\* What the run checks of jobs and rows: no row without the job that ends it, no qid
\* handed out twice, and in time exactly the jobs of the rows.
THEOREM JobsAndRowsCorrect == Spec => []JobsAndRows
<1>1. QueueInv => JobsAndRows
  <2> SUFFICES ASSUME QueueInv PROVE JobsAndRows
    OBVIOUS
  <2>1. TypeOK /\ IsJobs(delayed) /\ IsJobs(ready) /\ QidsIncrease
    BY Types DEF QueueInv
  <2>2. /\ DOMAIN (delayed (+) ready) = DOMAIN delayed \cup DOMAIN ready
        /\ IsJobs(delayed (+) ready)
        /\ \A j \in Job : Count(delayed (+) ready, j) = Pending(j)
    BY <2>1, JobsAdded DEF Pending
  <2>3. \A j \in Job : j \in DOMAIN (delayed (+) ready) <=> Pending(j) > 0
    BY <2>2, CountJobs
  <2>4. RowAwaitsShip
    <3>1. \A r \in rows : JobOf(r) \in Job /\ (r.end <= r.born \/ Pending(JobOf(r)) > 0)
      BY <2>1, Types DEF QueueInv, RowsAwait
    <3> QED
      BY <2>3, <3>1 DEF RowAwaitsShip, BagIn, BagToSet
  <2>5. RowHasItsJob
    <3> SUFFICES ASSUME ~Late, web = None
                 PROVE  delayed (+) ready = SetToBag(RowJobs)
      BY DEF RowHasItsJob, RowJobs
    <3> DEFINE jobs == delayed (+) ready
    <3>1. \A j \in Job : Pending(j) = IF j \in RowJobs THEN 1 ELSE 0
      BY DEF QueueInv, JobsAreRows, GroupJobs
    <3>2. RowJobs \subseteq Job /\ DOMAIN jobs \subseteq Job
      BY <2>1, <2>2, Types DEF RowJobs, IsJobs
    <3>3. DOMAIN jobs = RowJobs
      BY <2>3, <3>1, <3>2
    <3>4. \A j \in DOMAIN jobs : jobs[j] = 1
      <4> TAKE j \in DOMAIN jobs
      <4>1. j \in Job /\ j \in RowJobs /\ Count(jobs, j) = Pending(j)
        BY <2>2, <3>2, <3>3
      <4>2. Count(jobs, j) = jobs[j]
        BY DEF Count
      <4> QED
        BY <3>1, <4>1, <4>2
    <3>5. jobs = [j \in DOMAIN jobs |-> jobs[j]]
      BY DEF (+)
    <3> HIDE DEF jobs
    <3>6. jobs = [j \in RowJobs |-> 1]
      BY ONLY <3>3, <3>4, <3>5
    <3> QED
      BY <3>6 DEF jobs, SetToBag
  <2> QED
    BY <2>1, <2>4, <2>5 DEF JobsAndRows
<1> QED
  BY <1>1, QueueCorrect, PTL
=============================================================================
