----------------------------- MODULE ShipQueue -----------------------------
(***************************************************************************)
(* The ship building queue of the planets of one user: the table           *)
(* ship_building_queues next to the delayed AddShip jobs that build.       *)
(*                                                                         *)
(* An order takes its price from the planet, then queues one job per ship  *)
(* and creates the rows afterwards (ShipBuildingQueue.insert).  Cancelling *)
(* a row moves the later ones of the planet forward, rows and jobs alike   *)
(* (remove_queue, update_time).  A row and its job agree only by planet,   *)
(* ship and qid, and the qid is taken from the last row of the table.      *)
(*                                                                         *)
(* In mode "late" requests may arrive while jobs are overdue, that is,     *)
(* while scheduler or workers lag behind the clock, and rows may be        *)
(* deleted through the resource route.  One web process serves the         *)
(* requests; another reading the same last row is not modelled.            *)
(***************************************************************************)
EXTENDS Integers, Sequences, Bags, FiniteSets, Functions

CONSTANTS
  Planet,       \* the planets of the user
  Ship,         \* the types of ships, rows of the table ships
  ConTime,      \* ships.construction_time
  Price,        \* what a ship costs of each good and of "Money"
  Cap,          \* maxore, maxcrystal and maxpopulation of a planet
  StartStock,   \* the goods each planet holds at the start
  StartMoney,   \* the money of the user at the start
  None,         \* no request in progress
  MaxRows,      \* bound: rows ever created
  MaxCount,     \* bound: ships of one type in one order
  LastOrder,    \* bound: no order after this time
  MaxTime,      \* bound: the clock stops here
  MaxLateTime   \* bound: or here, in mode "late"

Good == {"Ore", "Crystal", "Population"}

Order == [Ship -> 0 .. MaxCount]
Entry == [ship : Ship, qid : Nat, end : Int]
Request == [planet : Planet, todo : Order, entries : Seq(Entry)]

ASSUME ShipQueueAssumption ==
  /\ IsFiniteSet(Planet) /\ IsFiniteSet(Ship)
  /\ ConTime \in [Ship -> Nat \ {0}]
  /\ Price \in [Ship -> [Good \cup {"Money"} -> Nat]]
  /\ \A s \in Ship : Price[s]["Crystal"] <= Price[s]["Money"]
  /\ Cap \in [Good -> Nat]
  /\ StartStock \in [Good -> Nat] /\ \A g \in Good : StartStock[g] <= Cap[g]
  /\ StartMoney \in Nat
  /\ None \notin Request
  /\ {MaxRows, MaxCount, LastOrder, MaxTime, MaxLateTime} \subseteq Nat

VARIABLES
  mode,         \* "prompt" or "late", fixed at the start
  now,          \* the clock
  rows,         \* the table ship_building_queues
  nextId,       \* its next primary key
  stock,        \* the goods of each planet
  money,        \* the money of the user
  web,          \* the order being saved by the web process, or None
  delayed,      \* bag of AddShip jobs in the scheduler's delayed queue
  ready,        \* bag of AddShip jobs in the queue add_ships
  delivered     \* ships added to the fleet at the planet

vars == <<mode, now, rows, nextId, stock, money, web, delayed, ready, delivered>>

Late == mode = "late"

Row == [id : Nat, planet : Planet, ship : Ship, qid : Nat, end : Int, born : Nat]
Job == [ship : Ship, planet : Planet, qid : Nat, due : Int]

TypeOK ==
  /\ mode \in {"prompt", "late"}
  /\ now \in Nat
  /\ rows \subseteq Row
  /\ nextId \in 0 .. MaxRows
  /\ stock \in [Planet -> [Good -> Nat]] /\ money \in Nat
  /\ web \in Request \cup {None}
  /\ \A jobs \in {delayed, ready} :
       DOMAIN jobs \subseteq Job /\ \A j \in DOMAIN jobs : jobs[j] \in Nat \ {0}
  /\ delivered \in [Planet -> [Ship -> Nat]]

Init ==
  /\ mode \in {"prompt", "late"}
  /\ now = 0
  /\ rows = {}
  /\ nextId = 0
  /\ stock = [p \in Planet |-> StartStock]
  /\ money = StartMoney
  /\ web = None
  /\ delayed = EmptyBag
  /\ ready = EmptyBag
  /\ delivered = [p \in Planet |-> [s \in Ship |-> 0]]
-----------------------------------------------------------------------------
\* The row an ActiveRecord query ends with by .last: the highest primary key.
LastRow(rs) == CHOOSE r \in rs : \A s \in rs : s.id <= r.id

RowsOf(p) == {r \in rows : r.planet = p}

JobOf(r) == [ship |-> r.ship, planet |-> r.planet, qid |-> r.qid, due |-> r.end]

\* Resque.remove_delayed: every delayed job with these arguments, whenever due.
RemoveDelayed(jobs, rs) ==
  LET kept == {j \in DOMAIN jobs : \A r \in rs : j # [JobOf(r) EXCEPT !.due = j.due]}
  IN [j \in kept |-> jobs[j]]

CostOf(order, g) == SumFunction([s \in Ship |-> order[s] * Price[s][g]])
Ships(order) == SumFunction(order)

\* Planet#take: the amount asked for, or all there is.
Take(old, number) == IF old < number THEN old ELSE number
\* Planet#give: what does not fit under the maximum is lost.
Give(old, number, max) ==
  IF number <= 0 THEN old ELSE IF old + number >= max THEN max ELSE old + number

\* No request overtakes the jobs when scheduler and workers keep up.
KeepsUp == Late \/ (ready = EmptyBag /\ \A j \in DOMAIN delayed : j.due > now)

\* ShipBuildingQueue.insert up to the comparison of taken and asked amounts;
\* the rest of the accepted order is in the hands of the web process.
Insert(p, order) ==
  LET taken == [g \in Good |-> Take(stock[p][g], CostOf(order, g))]
      paid  == Take(money, CostOf(order, "Money"))
      left  == [g \in Good |-> stock[p][g] - taken[g]]
  IN /\ web = None /\ KeepsUp
     /\ now <= LastOrder
     /\ Ships(order) > 0 /\ nextId + Ships(order) <= MaxRows
     /\ \/ /\ \A g \in Good : taken[g] = CostOf(order, g)
           /\ paid = CostOf(order, "Money")
           /\ stock' = [stock EXCEPT ![p] = left]
           /\ money' = money - paid
           /\ web' = [planet |-> p, todo |-> order, entries |-> <<>>]
        \/ /\ \/ \E g \in Good : taken[g] # CostOf(order, g)
              \/ paid # CostOf(order, "Money")
           /\ stock' = [stock EXCEPT ![p] =
                          [g \in Good |-> Give(left[g], taken[g], Cap[g])]]
           /\ money' = (money - paid) + paid
           /\ UNCHANGED web
     /\ UNCHANGED <<mode, now, rows, nextId, delayed, ready, delivered>>

\* The jobs of the ships of one type.  The first starts when the last row of
\* the planet ends, the next ones follow each other.
EnqueueGroup(s) ==
  LET p     == web.planet
      qid   == IF rows = {} THEN 0 ELSE LastRow(rows).qid + 1
      start == IF RowsOf(p) = {} THEN now ELSE LastRow(RowsOf(p)).end
      group == [i \in 1 .. web.todo[s] |->
                  [ship |-> s, qid |-> qid + i - 1, end |-> start + i * ConTime[s]]]
      job(e) == [ship |-> s, planet |-> p, qid |-> e.qid, due |-> e.end]
  IN /\ web # None /\ web.entries = <<>> /\ web.todo[s] > 0
     /\ web' = [web EXCEPT !.entries = group]
     /\ delayed' = delayed (+) SetToBag({job(group[i]) : i \in DOMAIN group})
     /\ UNCHANGED <<mode, now, rows, nextId, stock, money, ready, delivered>>

\* The transaction that creates the rows of the group, after their jobs.
SaveGroup ==
  LET group == web.entries
      todo  == [s \in Ship |-> IF s = group[1].ship THEN 0 ELSE web.todo[s]]
  IN /\ web # None /\ web.entries # <<>>
     /\ rows' = rows \cup {[id |-> nextId + i - 1, planet |-> web.planet,
                            ship |-> group[i].ship, qid |-> group[i].qid,
                            end |-> group[i].end, born |-> now] : i \in DOMAIN group}
     /\ nextId' = nextId + Len(group)
     /\ web' = IF Ships(todo) = 0 THEN None
               ELSE [web EXCEPT !.todo = todo, !.entries = <<>>]
     /\ UNCHANGED <<mode, now, stock, money, delayed, ready, delivered>>

\* Mutant: the later rows are moved, their jobs are not.
UpdateTimeRowsOnly(r, b) ==
  LET later == {q \in RowsOf(r.planet) : q.end > r.end}
  IN /\ rows' = (rows \ (later \cup {r})) \cup {[q EXCEPT !.end = @ - b] : q \in later}
     /\ delayed' = RemoveDelayed(delayed, {r})

\* The later rows of the planet are moved forward by what the cancelled row
\* had left, and their jobs are removed and queued again.
UpdateTime(r, b) ==
  LET later == {q \in RowsOf(r.planet) : q.end > r.end}
      moved == {[q EXCEPT !.end = @ - b] : q \in later}
  IN /\ rows' = (rows \ (later \cup {r})) \cup moved
     /\ delayed' = RemoveDelayed(delayed, later \cup {r})
                     (+) SetToBag({JobOf(q) : q \in moved})

\* Mutant: the crew is not given back.
RemoveQueueKeepsCrew(r) ==
  LET p == r.planet
  IN /\ web = None /\ KeepsUp
     /\ UpdateTime(r, r.end - now)
     /\ stock' = [stock EXCEPT ![p]["Ore"] = Give(@, Price[r.ship]["Ore"], Cap["Ore"]),
                              ![p]["Crystal"] = Give(@, Price[r.ship]["Crystal"], Cap["Crystal"])]
     /\ money' = money + Price[r.ship]["Crystal"]
     /\ UNCHANGED <<mode, now, nextId, web, ready, delivered>>

\* remove_queue: the price is given back, the money at the price in crystals.
RemoveQueue(r) ==
  LET p == r.planet
  IN /\ web = None /\ KeepsUp
     /\ UpdateTime(r, r.end - now)
     /\ stock' = [stock EXCEPT ![p] = [g \in Good |-> Give(@[g], Price[r.ship][g], Cap[g])]]
     /\ money' = money + Price[r.ship]["Crystal"]
     /\ UNCHANGED <<mode, now, nextId, web, ready, delivered>>

\* DELETE /ship_building_queues/1: the row only, neither job nor price.
Destroy(r) ==
  /\ Late
  /\ web = None /\ KeepsUp
  /\ rows' = rows \ {r}
  /\ UNCHANGED <<mode, now, nextId, stock, money, web, delayed, ready,
                 delivered>>

\* Mutant: a qid of 0 counts as none.
AddShipNonzero(j) ==
  LET mine == {r \in rows : r.qid = j.qid /\ j.qid > 0}
  IN /\ ready' = ready (-) SetToBag({j})
     /\ delivered' = [delivered EXCEPT ![j.planet][j.ship] = @ + 1]
     /\ rows' = IF mine = {} THEN rows ELSE rows \ {LastRow(mine)}
     /\ UNCHANGED <<mode, now, nextId, stock, money, web, delayed>>

\* AddShip.perform: the ship, then the last row with the qid of the job.
AddShip(j) ==
  LET mine == {r \in rows : r.qid = j.qid}
  IN /\ ready' = ready (-) SetToBag({j})
     /\ delivered' = [delivered EXCEPT ![j.planet][j.ship] = @ + 1]
     /\ rows' = IF mine = {} THEN rows ELSE rows \ {LastRow(mine)}
     /\ UNCHANGED <<mode, now, nextId, stock, money, web, delayed>>

\* resque-scheduler moves a due job to its queue.
Release(j) ==
  /\ j.due <= now
  /\ delayed' = delayed (-) SetToBag({j})
  /\ ready' = ready (+) SetToBag({j})
  /\ UNCHANGED <<mode, now, rows, nextId, stock, money, web, delivered>>

Tick ==
  /\ now < IF Late THEN MaxLateTime ELSE MaxTime
  /\ Late \/ (web = None /\ KeepsUp)
  /\ now' = now + 1
  /\ UNCHANGED <<mode, rows, nextId, stock, money, web, delayed, ready,
                 delivered>>

Next ==
  \/ \E p \in Planet, order \in Order : Insert(p, order)
  \/ \E s \in Ship : EnqueueGroup(s)
  \/ SaveGroup
  \/ \E r \in rows : RemoveQueue(r) \/ Destroy(r)
  \/ \E j \in DOMAIN ready : AddShip(j)
  \/ \E j \in DOMAIN delayed : Release(j)
  \/ Tick

Spec == Init /\ [][Next]_vars

\* The clock runs, the web process finishes its request, scheduler and
\* workers take up what is due; users need not do anything.
Fairness ==
  /\ WF_vars(Tick)
  /\ WF_vars(\E s \in Ship : EnqueueGroup(s)) /\ WF_vars(SaveGroup)
  /\ WF_vars(\E j \in DOMAIN delayed : Release(j))
  /\ WF_vars(\E j \in DOMAIN ready : AddShip(j))

FairSpec == Spec /\ Fairness
-----------------------------------------------------------------------------
\* The ships of an order, or the part of it in progress, that have no row yet.
NotSaved(p, s) == IF web = None \/ web.planet # p THEN 0 ELSE web.todo[s]
Queued(p, s) == Cardinality({r \in RowsOf(p) : r.ship = s})
Paid(p, s) == delivered[p][s] + Queued(p, s) + NotSaved(p, s)

\* What the planet's ships and rows have cost of a good.
Spent(p, g) == SumFunction([s \in Ship |-> Paid(p, s) * Price[s][g]])

\* While scheduler and workers keep up, the jobs are exactly those of the rows,
\* each at the end_time of its row: insert and update_time move both alike.
RowHasItsJob ==
  ~Late /\ web = None => delayed (+) ready = SetToBag({JobOf(r) : r \in rows})

\* While scheduler and workers keep up, every ship built or queued has been paid
\* exactly once: insert and remove_queue, take and give, cancel out.
GoodsBalance ==
  ~Late => \A p \in Planet, g \in Good : stock[p][g] + Spent(p, g) = StartStock[g]

\* The refund of remove_queue, at the price in crystals, never pays more than
\* the user has spent on the ships he no longer gets.
MoneyNotMinted ==
  ~Late => money + SumFunction([p \in Planet |-> Spent(p, "Money")]) <= StartMoney

\* However late the jobs are and whatever rows the user deletes, a row is not
\* stuck: its AddShip job is pending at its end_time, unless the row was saved
\* when it was due already (insert enqueues before it creates).
RowAwaitsShip ==
  web = None => \A r \in rows : r.end <= r.born \/ BagIn(JobOf(r), delayed (+) ready)

\* The qid by which AddShip and remove_queue find row and job is never shared by
\* two rows, and grows with the primary key, however rows come and go (insert).
QidsIncrease == \A r, q \in rows : r.id < q.id => r.qid < q.qid

\* The page counts a ship down from its construction time once the ship before
\* it is built (starport/index.html.erb): no ship ends before its construction
\* time has passed since its order.  Cancellations break this (see the README).
NoRushedShip == \A r \in rows : r.end >= r.born + ConTime[r.ship]

\* With jobs that run in time the queue drains: every row goes away (AddShip).
RowLeaves ==
  ~Late => \A i \in 0 .. MaxRows - 1 : (\E r \in rows : r.id = i) ~> (\A r \in rows : r.id # i)

\* Orders, cancellations, late jobs and deleted rows leave rows and jobs matched by qid: no row
\* is left without the job that ends it, and no qid is handed out twice.
JobsAndRows == TypeOK /\ RowHasItsJob /\ RowAwaitsShip /\ QidsIncrease

\* While nothing lags, every good paid is in a ship, a row or an order, and refused orders and
\* cancellations give back no more money than was taken.
PaymentsBalance == GoodsBalance /\ MoneyNotMinted
=============================================================================
