---------------------------- MODULE Construction ----------------------------
(***************************************************************************)
(* The buildings of one planet: claim, orders and their cancellation, the  *)
(* BuildBuildings jobs, and the production job that puts itself into the   *)
(* queue again and again (planet.rb, planets_controller.rb).               *)
(*                                                                         *)
(* Durations are the freedom of the scheduler to release any delayed job;  *)
(* the jobs of a claim take no time.  In mode "late" requests may come     *)
(* while due jobs wait, and the button of an old page may cancel what is   *)
(* no longer under construction.  In mode "overlap" requests and jobs also *)
(* run between the load and the save of a production job.                  *)
(***************************************************************************)
EXTENDS Integers, SequencesExt

CONSTANTS
  BType,        \* the names in the table buildingtypes
  MaxLevel,     \* the highest level of each
  Initial,      \* those every claimed planet gets
  Oremine, Headquarter, Depot, \* the names of those with an effect here
  OreCost, MoneyCost,          \* build_cost_ore, build_cost_money
  Requires,     \* buildingtype_requires
  MaxOre,       \* maxore by the level of the depot, 0 without one
  StartOre, StartMoney,
  None,         \* under_construction = 0, no production job at work
  MaxOrders,    \* bound: orders of the player
  MaxMoney      \* bound: no production above this

Job == UNION {[type : {t}, level : 1 .. MaxLevel[t]] : t \in BType}
LevelOne(t) == [type |-> t, level |-> 1]
DepotLevel == 0 .. (IF Depot \in BType THEN MaxLevel[Depot] ELSE 0)

ASSUME ConstructionAssumption ==
  /\ IsFiniteSet(BType)
  /\ MaxLevel \in [BType -> Nat \ {0}]
  /\ Initial \subseteq BType \ {Depot}
  /\ OreCost \in [Job -> Nat] /\ MoneyCost \in [Job -> Nat]
  /\ Requires \in [Job -> SUBSET Job]
  /\ \A t \in Initial : /\ OreCost[LevelOne(t)] = 0 /\ MoneyCost[LevelOne(t)] = 0
                        /\ Requires[LevelOne(t)] = {}
  /\ MaxOre \in [DepotLevel -> Nat]
  /\ StartOre \in 0 .. MaxOre[0] /\ {StartMoney, MaxOrders, MaxMoney} \subseteq Nat
  /\ None \notin Job /\ None \notin [ore : Nat, maxore : Nat, money : Nat]

VARIABLES
  mode,         \* one of Mode, fixed at the start
  claimed,      \* whether planets.user_id is set
  rows,         \* the planet's rows of the table buildings, by id
  constr,       \* planets.under_construction
  ore, maxore,  \* of the planet
  money,        \* users.money of its owner
  delayed,      \* BuildBuildings jobs in the scheduler's delayed queue
  ready,        \* BuildBuildings jobs in the buildqueue
  chain,        \* ProduceResources jobs, delayed or queued
  producing,    \* what the production job at work has loaded
  seen,         \* history: what some page has shown under construction
  orders        \* history: number of orders

vars == <<mode, claimed, rows, constr, ore, maxore, money, delayed, ready,
          chain, producing, seen, orders>>

Mode == {"prompt", "late", "overlap"}
Late == mode # "prompt"
Overlap == mode = "overlap"

Loaded == [ore : Nat, maxore : Nat, money : Nat]

TypeOK ==
  /\ mode \in Mode
  /\ claimed \in BOOLEAN
  /\ rows \in Seq(Job)
  /\ constr \in Job \cup {None}
  /\ ore \in Nat /\ maxore \in Nat /\ money \in Nat
  /\ delayed \in [Job -> Nat] /\ ready \in [Job -> Nat]
  /\ chain \in Nat
  /\ producing \in Loaded \cup {None}
  /\ seen \subseteq Job
  /\ orders \in 0 .. MaxOrders

Init ==
  /\ mode \in Mode
  /\ claimed = FALSE
  /\ rows = <<>>
  /\ constr = None
  /\ ore = StartOre /\ maxore = MaxOre[0] /\ money = StartMoney
  /\ delayed = [j \in Job |-> 0]
  /\ ready = [j \in Job |-> 0]
  /\ chain = 0
  /\ producing = None
  /\ seen = {}
  /\ orders = 0
-----------------------------------------------------------------------------
Instant == {LevelOne(t) : t \in Initial}
Alone == Overlap \/ producing = None
KeepsUp ==
  /\ Alone
  /\ \/ Late
     \/ (\A j \in Job : ready[j] = 0) /\ (\A j \in Instant : delayed[j] = 0)

RowsOf(t) == {i \in DOMAIN rows : rows[i].type = t}
FirstRow(t) == CHOOSE i \in RowsOf(t) : \A k \in RowsOf(t) : i <= k
LastRow(t) == CHOOSE i \in RowsOf(t) : \A k \in RowsOf(t) : k <= i

\* buildings_to_hash: the last row of a name counts.
Level(t) == IF RowsOf(t) = {} THEN 0 ELSE rows[LastRow(t)].level

\* What an order of this name would build: of several rows the first is upgraded.
NextLevel(t) == IF RowsOf(t) = {} THEN 1 ELSE rows[FirstRow(t)].level + 1

\* verifies_new_building?, verifies_upgrade_requirements?
Verifies(t) ==
  /\ NextLevel(t) <= MaxLevel[t]
  /\ \A req \in Requires[[type |-> t, level |-> NextLevel(t)]] :
       req.level <= Level(req.type)

Affordable(j) == OreCost[j] <= ore /\ MoneyCost[j] <= money

\* Planet#claim: an order of each first building, without payment as it costs
\* nothing, and the first production job.
Claim ==
  /\ ~claimed
  /\ claimed' = TRUE
  /\ delayed' = [j \in Job |-> IF j \in Instant THEN delayed[j] + 1 ELSE delayed[j]]
  /\ constr' = None
  /\ chain' = chain + 1
  /\ UNCHANGED <<mode, rows, ore, maxore, money, ready, producing, seen, orders>>

\* Planet#create_building_job by upgrade_building; a refusal changes nothing.
CreateBuildingJob(t) ==
  LET j == [type |-> t, level |-> NextLevel(t)]
  IN /\ claimed /\ KeepsUp /\ orders < MaxOrders
     /\ constr = None
     /\ Verifies(t)
     /\ Affordable(j)
     /\ ore' = ore - OreCost[j]
     /\ money' = money - MoneyCost[j]
     /\ constr' = j
     /\ delayed' = [delayed EXCEPT ![j] = @ + 1]
     /\ seen' = seen \cup {j}
     /\ orders' = orders + 1
     /\ UNCHANGED <<mode, claimed, rows, maxore, ready, chain, producing>>

\* Planet#give: what does not fit is lost.
GivenOre(n) == IF n <= 0 THEN ore ELSE IF ore + n >= maxore THEN maxore ELSE ore + n

\* Mutant: half the price is paid back whatever was removed.
AbortRefunds(j) ==
  /\ claimed /\ KeepsUp
  /\ IF Late THEN j \in seen ELSE j = constr
  /\ constr' = None
  /\ delayed' = [delayed EXCEPT ![j] = 0]
  /\ ore' = GivenOre(OreCost[j] \div 2)
  /\ money' = money + MoneyCost[j] \div 2
  /\ UNCHANGED <<mode, claimed, rows, maxore, ready, chain, producing, seen, orders>>
\* Mutant: without a job to remove, nothing is done.
AbortNoReset(j) ==
  /\ claimed /\ KeepsUp
  /\ IF Late THEN j \in seen ELSE j = constr
  /\ delayed' = [delayed EXCEPT ![j] = 0]
  /\ IF delayed[j] = 1
     THEN /\ constr' = None
          /\ ore' = GivenOre(OreCost[j] \div 2)
          /\ money' = money + MoneyCost[j] \div 2
     ELSE UNCHANGED <<constr, ore, money>>
  /\ UNCHANGED <<mode, claimed, rows, maxore, ready, chain, producing, seen, orders>>
\* abort_upgrade: every equal delayed job is removed, half the price paid back if
\* that was exactly one ("== 1"); the planet is free in any case ("hardreset").
Abort(j) ==
  /\ claimed /\ KeepsUp
  /\ IF Late THEN j \in seen ELSE j = constr
  /\ constr' = None
  /\ delayed' = [delayed EXCEPT ![j] = 0]
  /\ IF delayed[j] = 1
     THEN /\ ore' = GivenOre(OreCost[j] \div 2)
          /\ money' = money + MoneyCost[j] \div 2
     ELSE UNCHANGED <<ore, money>>
  /\ UNCHANGED <<mode, claimed, rows, maxore, ready, chain, producing, seen, orders>>

\* The row that build_building upgrades, if any.
Matching(j) == {i \in RowsOf(j.type) : rows[i].level + 1 = j.level}
FirstMatching(j) == CHOOSE i \in Matching(j) : \A k \in Matching(j) : i <= k

\* Mutant: the first row of the name takes the level.
BuiltAnyLevel(j) ==
  IF RowsOf(j.type) # {} THEN [rows EXCEPT ![FirstRow(j.type)] = j] ELSE Append(rows, j)
\* Planet#build_building: a row one level below is upgraded, else a building of
\* level 1 is created, else the job has no effect.
Built(j) ==
  IF Matching(j) # {} THEN [rows EXCEPT ![FirstMatching(j)] = j]
  ELSE IF j.level = 1 THEN Append(rows, j) ELSE rows

\* BuildBuildings.perform: whatever is under construction has ended.
BuildBuilding(j) ==
  /\ ready[j] > 0 /\ Alone
  /\ ready' = [ready EXCEPT ![j] = @ - 1]
  /\ constr' = None
  /\ rows' = Built(j)
  /\ maxore' = IF j.type = Depot /\ rows' # rows THEN MaxOre[j.level] ELSE maxore
  /\ UNCHANGED <<mode, claimed, ore, money, delayed, chain, producing, seen, orders>>

\* resque-scheduler moves a due job to its queue.
Release(j) ==
  /\ delayed[j] > 0
  /\ delayed' = [delayed EXCEPT ![j] = @ - 1]
  /\ ready' = [ready EXCEPT ![j] = @ + 1]
  /\ UNCHANGED <<mode, claimed, rows, constr, ore, maxore, money, chain, producing, seen, orders>>

\* ProduceResources.perform: the rows are loaded.
ProduceLoad ==
  /\ chain > 0 /\ producing = None
  /\ money < MaxMoney
  /\ chain' = chain - 1
  /\ producing' = [ore |-> ore, maxore |-> maxore, money |-> money]
  /\ UNCHANGED <<mode, claimed, rows, constr, ore, maxore, money, delayed, ready, seen, orders>>

\* get_production: 1 stands for what a building yields.
Production(t) == IF RowsOf(t) = {} THEN 0 ELSE 1

\* update_resources and save: absolute values, of the columns that changed; only
\* with energy is anything produced.
ProducedOre ==
  IF producing.ore + Production(Oremine) < producing.maxore
  THEN producing.ore + Production(Oremine) ELSE producing.maxore
ProduceSave(energy) ==
  /\ producing # None
  /\ IF energy
     THEN /\ ore' = IF ProducedOre = producing.ore THEN ore ELSE ProducedOre
          /\ money' = IF Production(Headquarter) = 0 THEN money
                      ELSE producing.money + Production(Headquarter)
     ELSE UNCHANGED <<ore, money>>
  /\ chain' = chain + 1
  /\ producing' = None
  /\ UNCHANGED <<mode, claimed, rows, constr, maxore, delayed, ready, seen, orders>>

Next ==
  \/ Claim
  \/ \E t \in BType : CreateBuildingJob(t)
  \/ \E j \in Job : Abort(j)
  \/ \E j \in Job : BuildBuilding(j)
  \/ \E j \in Job : Release(j)
  \/ ProduceLoad
  \/ \E energy \in BOOLEAN : ProduceSave(energy)

Spec == Init /\ [][Next]_vars

\* Scheduler and workers take up what is due, and finish what they have begun.
Fairness ==
  /\ \A j \in Job : WF_vars(Release(j)) /\ WF_vars(BuildBuilding(j))
  /\ WF_vars(\E energy \in BOOLEAN : ProduceSave(energy))

FairSpec == Spec /\ Fairness
-----------------------------------------------------------------------------
Pending(j) == delayed[j] + ready[j]

\* The ore and money in stock, in pending jobs and in buildings.
Upto(r) == {[type |-> r.type, level |-> l] : l \in 1 .. r.level}
InJobs(cost) == SumFunction([j \in Job |-> Pending(j) * cost[j]])
InRows(cost) == SumFunction([i \in DOMAIN rows |-> SumFunctionOnSet(cost, Upto(rows[i]))])
Worth(stock, cost) == stock + InJobs(cost) + InRows(cost)

\* While nothing lags, the jobs of the player are exactly the construction that
\* the planet shows: create_building_job, abort_upgrade and build_building agree.
JobOfConstruction ==
  ~Late => \A j \in Job \ Instant : Pending(j) = IF j = constr THEN 1 ELSE 0

\* While nothing lags, no building stands twice on a planet: build_building
\* creates a row for each job of level 1 and relies on the orders.
OneKind == ~Late => \A i, k \in DOMAIN rows : rows[i].type = rows[k].type => i = k

\* Orders, cancellations, and jobs with or without an effect: none leaves more
\* than there was.  Only production does.
NothingMinted ==
  [][\/ Overlap
     \/ \E energy \in BOOLEAN : ProduceSave(energy)
     \/ /\ Worth(ore, OreCost)' <= Worth(ore, OreCost)
        /\ Worth(money, MoneyCost)' <= Worth(money, MoneyCost)]_vars

\* However jobs and pages lag: while the planet shows a construction and refuses
\* orders, the job that ends it is pending; the buttons never block a planet.
ConstructionHasJob == constr # None => Pending(constr) > 0

\* "Repeat Job imediately": a claimed planet has one production job, pending or
\* at work, with energy or without; never none, never two.
OneChain == claimed => chain + (IF producing = None THEN 0 ELSE 1) = 1

\* A standing building has what it requires on the planet, though jobs come in
\* any order after the check and what they find may be built twice.
RequirementsMet ==
  \A i \in DOMAIN rows : \A req \in Requires[rows[i]] :
    \E k \in DOMAIN rows : rows[k].type = req.type /\ req.level <= rows[k].level

\* A step that takes no building and no level away, nor builds two.
Changed == {i \in DOMAIN rows' : i \notin DOMAIN rows \/ rows'[i] # rows[i]}
RowsGrow ==
  /\ \A i \in DOMAIN rows : /\ i \in DOMAIN rows' /\ rows'[i].type = rows[i].type
                             /\ rows'[i].level \in {rows[i].level, rows[i].level + 1}
  /\ Cardinality(Changed) <= 1

\* Late, repeated and useless jobs included, build_building never takes a level
\* away and never builds two at once.
BuildingsGrow == [][RowsGrow]_vars

\* Every construction ends, by its job or by the player, so that the planet takes
\* orders again (build_building), also with production running at the same time.
ConstructionEnds == Overlap => \A j \in Job : constr = j ~> constr # j

\* Jobs, the construction shown, production and requirements agree: while nothing lags exactly,
\* and in the part that blocks or frees a planet whatever lags.
ConstructionAgrees ==
  TypeOK /\ JobOfConstruction /\ OneKind /\ ConstructionHasJob /\ OneChain /\ RequirementsMet
=============================================================================
