------------------------- MODULE Development_proofs -------------------------
(***************************************************************************)
(* Proofs about Construction, for any buildings, costs and requirements,   *)
(* whatever lags or overlaps, and, in the second part, about Research, for *)
(* any technologies, requirements and number of web processes.             *)
(***************************************************************************)
EXTENDS Construction, Research, SumTheorems, SequenceTheorems

\* What the proofs need of the constants.
LEMMA Constants ==
  /\ OreCost \in [Job -> Nat] /\ MoneyCost \in [Job -> Nat]
  /\ MaxLevel \in [BType -> Nat \ {0}]
  /\ MaxOre \in [DepotLevel -> Nat] /\ MaxOre[0] \in Nat
  /\ StartOre \in Nat /\ StartMoney \in Nat /\ MaxOrders \in Nat
  /\ None \notin Job /\ None \notin Loaded
<1>1. 0 \in DepotLevel
  BY ConstructionAssumption DEF DepotLevel
<1> QED
  BY <1>1, ConstructionAssumption DEF Loaded

\* A set of row numbers has a first one, the one that `first` takes.
LEMMA FirstExists ==
  ASSUME NEW T, T \subseteq Nat, T # {}
  PROVE  \E i \in T : \A k \in T : i <= k
<1>1. PICK x \in T : \A y \in T : ~ (<<y, x>> \in OpToRel(<, Nat))
  BY NatLessThanWellFounded, WFMin, Zenon
<1>2. \A y \in T : ~ (y < x)
  BY <1>1 DEF OpToRel
<1> QED
  BY <1>2

LEMMA RowNumbers ==
  ASSUME TypeOK
  PROVE  /\ rows \in Seq(Job) /\ DOMAIN rows = 1 .. Len(rows) /\ Len(rows) \in Nat
         /\ DOMAIN rows \subseteq Nat
         /\ \A i \in DOMAIN rows : rows[i] \in Job
  BY DEF TypeOK

\* What is ordered exists in the table buildingtypes.
LEMMA OrderIsJob ==
  ASSUME TypeOK, NEW t \in BType, NextLevel(t) <= MaxLevel[t]
  PROVE  [type |-> t, level |-> NextLevel(t)] \in Job
<1>1. NextLevel(t) \in Nat \ {0}
  <2>1. CASE RowsOf(t) = {}
    BY <2>1 DEF NextLevel
  <2>2. CASE RowsOf(t) # {}
    <3>1. RowsOf(t) \subseteq DOMAIN rows /\ RowsOf(t) \subseteq Nat
      BY RowNumbers DEF RowsOf
    <3>2. FirstRow(t) \in RowsOf(t)
      BY <2>2, <3>1, FirstExists DEF FirstRow
    <3>3. rows[FirstRow(t)] \in Job
      BY <3>1, <3>2, RowNumbers
    <3> QED
      BY <2>2, <3>3, Constants DEF NextLevel, Job
  <2> QED
    BY <2>1, <2>2
<1> QED
  BY <1>1 DEF Job

\* A cancellation or a job leaves the table of buildings well formed.
LEMMA BuiltIsRows ==
  ASSUME TypeOK, NEW j \in Job
  PROVE  Built(j) \in Seq(Job)
<1>1. CASE Matching(j) # {}
  <2>1. Matching(j) \subseteq DOMAIN rows /\ Matching(j) \subseteq Nat
    BY RowNumbers DEF Matching, RowsOf
  <2>2. FirstMatching(j) \in DOMAIN rows
    BY <1>1, <2>1, FirstExists DEF FirstMatching
  <2> QED
    BY <1>1, <2>2, RowNumbers, ExceptSeq DEF Built
<1>2. CASE Matching(j) = {} /\ j.level = 1
  BY <1>2, RowNumbers DEF Built
<1>3. CASE Matching(j) = {} /\ j.level # 1
  BY <1>3, RowNumbers DEF Built
<1> QED
  BY <1>1, <1>2, <1>3

LEMMA GivenOreIsNat ==
  ASSUME TypeOK, NEW j \in Job
  PROVE  /\ GivenOre(OreCost[j] \div 2) \in Nat
         /\ money + MoneyCost[j] \div 2 \in Nat
<1>1. OreCost[j] \div 2 \in Nat /\ MoneyCost[j] \div 2 \in Nat
  BY Constants
<1> QED
  BY <1>1 DEF GivenOre, TypeOK

\* Type correctness: claim, orders, cancellations, jobs and production keep every
\* table in shape, and the stock and the money from becoming negative.
THEOREM TypeCorrect == Spec => []TypeOK
<1>1. Init => TypeOK
  <2> SUFFICES ASSUME Init PROVE TypeOK
    OBVIOUS
  <2>1. rows \in Seq(Job) /\ constr \in Job \cup {None} /\ producing \in Loaded \cup {None}
    BY DEF Init
  <2>2. ore \in Nat /\ maxore \in Nat /\ money \in Nat /\ orders \in 0 .. MaxOrders
    BY Constants DEF Init
  <2> QED
    BY <2>1, <2>2 DEF Init, TypeOK
<1>2. TypeOK /\ [Next]_vars => TypeOK'
  <2> SUFFICES ASSUME TypeOK, [Next]_vars PROVE TypeOK'
    OBVIOUS
  <2>1. CASE Claim
    BY <2>1 DEF Claim, TypeOK
  <2>2. ASSUME NEW t \in BType, CreateBuildingJob(t) PROVE TypeOK'
    <3> DEFINE j == [type |-> t, level |-> NextLevel(t)]
    <3>1. j \in Job
      BY <2>2, OrderIsJob DEF CreateBuildingJob, Verifies
    <3>2. ore' \in Nat /\ money' \in Nat
      <4>1. OreCost[j] \in Nat /\ MoneyCost[j] \in Nat /\ ore \in Nat /\ money \in Nat
        BY <3>1, Constants DEF TypeOK
      <4>2. /\ OreCost[j] <= ore /\ MoneyCost[j] <= money
            /\ ore' = ore - OreCost[j] /\ money' = money - MoneyCost[j]
        BY <2>2 DEF CreateBuildingJob, Affordable
      <4> HIDE DEF j
      <4> QED
        BY <4>1, <4>2
    <3>3. delayed' \in [Job -> Nat]
      BY <2>2, <3>1 DEF CreateBuildingJob, TypeOK
    <3>4. constr' \in Job /\ seen' \subseteq Job
      BY <2>2, <3>1 DEF CreateBuildingJob, TypeOK
    <3>5. orders' \in 0 .. MaxOrders
      BY <2>2, Constants DEF CreateBuildingJob, TypeOK
    <3> QED
      BY <2>2, <3>2, <3>3, <3>4, <3>5 DEF CreateBuildingJob, TypeOK
  <2>3. ASSUME NEW j \in Job, Abort(j) PROVE TypeOK'
    <3>1. ore' \in Nat /\ money' \in Nat
      BY <2>3, GivenOreIsNat DEF Abort, TypeOK
    <3> QED
      BY <2>3, <3>1 DEF Abort, TypeOK
  <2>4. ASSUME NEW j \in Job, BuildBuilding(j) PROVE TypeOK'
    <3>1. rows' \in Seq(Job)
      BY <2>4, BuiltIsRows DEF BuildBuilding
    <3>2. maxore' \in Nat
      <4>1. CASE j.type = Depot
        <5>1. j.level \in DepotLevel
            BY <4>1, Constants DEF Job, DepotLevel
        <5> QED
          BY <2>4, <5>1, Constants DEF BuildBuilding, TypeOK
      <4>2. CASE j.type # Depot
        BY <2>4, <4>2 DEF BuildBuilding, TypeOK
      <4> QED
        BY <4>1, <4>2
    <3>3. ready' \in [Job -> Nat]
      BY <2>4 DEF BuildBuilding, TypeOK
    <3> QED
      BY <2>4, <3>1, <3>2, <3>3 DEF BuildBuilding, TypeOK
  <2>5. ASSUME NEW j \in Job, Release(j) PROVE TypeOK'
    BY <2>5 DEF Release, TypeOK
  <2>6. CASE ProduceLoad
    BY <2>6 DEF ProduceLoad, TypeOK, Loaded
  <2>7. ASSUME NEW energy \in BOOLEAN, ProduceSave(energy) PROVE TypeOK'
    <3>1. producing \in Loaded
      BY <2>7 DEF ProduceSave, TypeOK
    <3>2. ore' \in Nat /\ money' \in Nat
      BY <2>7, <3>1 DEF ProduceSave, ProducedOre, Production, Loaded, TypeOK
    <3> QED
      BY <2>7, <3>2 DEF ProduceSave, TypeOK
  <2>8. CASE UNCHANGED vars
    BY <2>8 DEF vars, TypeOK
  <2> QED
    BY <2>1, <2>2, <2>3, <2>4, <2>5, <2>6, <2>7, <2>8 DEF Next
<1> QED
  BY <1>1, <1>2, PTL DEF Spec

\* A planet that shows a construction has the job that ends it: no order of late
\* jobs, cancellations and buttons of old pages blocks the planet for ever.
THEOREM ConstructionHasJobCorrect == Spec => []ConstructionHasJob
<1>1. Init => ConstructionHasJob
  BY DEF Init, ConstructionHasJob
<1>2. TypeOK /\ ConstructionHasJob /\ [Next]_vars => ConstructionHasJob'
  <2> SUFFICES ASSUME TypeOK, ConstructionHasJob, [Next]_vars, constr' # None
               PROVE  Pending(constr)' > 0
    BY DEF ConstructionHasJob
  <2>1. CASE Claim
    BY <2>1 DEF Claim
  <2>2. ASSUME NEW t \in BType, CreateBuildingJob(t) PROVE Pending(constr)' > 0
    <3> DEFINE j == [type |-> t, level |-> NextLevel(t)]
    <3>1. j \in Job
      BY <2>2, OrderIsJob DEF CreateBuildingJob, Verifies
    <3>2. constr' = j /\ delayed'[j] = delayed[j] + 1 /\ ready'[j] = ready[j]
      BY <2>2, <3>1 DEF CreateBuildingJob, TypeOK
    <3> QED
      BY <3>1, <3>2 DEF Pending, TypeOK
  <2>3. ASSUME NEW j \in Job, Abort(j) PROVE Pending(constr)' > 0
    BY <2>3 DEF Abort
  <2>4. ASSUME NEW j \in Job, BuildBuilding(j) PROVE Pending(constr)' > 0
    BY <2>4 DEF BuildBuilding
  <2>5. ASSUME NEW j \in Job, Release(j) PROVE Pending(constr)' > 0
    <3>1. constr' = constr /\ constr \in Job /\ delayed[constr] + ready[constr] > 0
      BY <2>5 DEF Release, ConstructionHasJob, Pending, TypeOK
    <3>2. delayed'[constr] + ready'[constr] = delayed[constr] + ready[constr]
      BY <2>5, <3>1 DEF Release, TypeOK
    <3> QED
      BY <3>1, <3>2 DEF Pending
  <2>6. CASE ProduceLoad
    BY <2>6 DEF ProduceLoad, ConstructionHasJob, Pending
  <2>7. ASSUME NEW energy \in BOOLEAN, ProduceSave(energy) PROVE Pending(constr)' > 0
    BY <2>7 DEF ProduceSave, ConstructionHasJob, Pending
  <2>8. CASE UNCHANGED vars
    BY <2>8 DEF vars, ConstructionHasJob, Pending
  <2> QED
    BY <2>1, <2>2, <2>3, <2>4, <2>5, <2>6, <2>7, <2>8 DEF Next
<1> QED
  BY <1>1, <1>2, TypeCorrect, PTL DEF Spec

\* Before the claim nothing is produced.
Idle == ~claimed => chain = 0 /\ producing = None

\* The production of a claimed planet never stops and never doubles: claim starts
\* it once and each job queues the next.
THEOREM OneChainCorrect == Spec => []OneChain
<1> DEFINE IInv == OneChain /\ Idle
<1>1. Init => IInv
  BY DEF Init, OneChain, Idle
<1>2. TypeOK /\ IInv /\ [Next]_vars => IInv'
  <2> SUFFICES ASSUME TypeOK, IInv, [Next]_vars PROVE IInv'
    OBVIOUS
  <2> USE DEF OneChain, Idle, TypeOK
  <2>1. CASE Claim
    BY <2>1 DEF Claim
  <2>2. ASSUME NEW t \in BType, CreateBuildingJob(t) PROVE IInv'
    BY <2>2 DEF CreateBuildingJob
  <2>3. ASSUME NEW j \in Job, Abort(j) PROVE IInv'
    BY <2>3 DEF Abort
  <2>4. ASSUME NEW j \in Job, BuildBuilding(j) PROVE IInv'
    BY <2>4 DEF BuildBuilding
  <2>5. ASSUME NEW j \in Job, Release(j) PROVE IInv'
    BY <2>5 DEF Release
  <2>6. CASE ProduceLoad
    <3>1. producing' # None
      BY <2>6, Constants DEF ProduceLoad, Loaded
    <3>2. chain = 1 /\ chain' = 0 /\ claimed' = claimed /\ claimed
      BY <2>6 DEF ProduceLoad
    <3> QED
      BY <3>1, <3>2
  <2>7. ASSUME NEW energy \in BOOLEAN, ProduceSave(energy) PROVE IInv'
    BY <2>7 DEF ProduceSave
  <2>8. CASE UNCHANGED vars
    BY <2>8 DEF vars
  <2> QED
    BY <2>1, <2>2, <2>3, <2>4, <2>5, <2>6, <2>7, <2>8 DEF Next
<1>3. IInv => OneChain
  OBVIOUS
<1> QED
  BY <1>1, <1>2, <1>3, TypeCorrect, PTL DEF Spec

-----------------------------------------------------------------------------
\* The last row of a name exists when there is one.
LEMMA LastRowOf ==
  ASSUME TypeOK, NEW t, RowsOf(t) # {}
  PROVE  LastRow(t) \in RowsOf(t)
<1> DEFINE T == RowsOf(t)
<1> DEFINE n == Len(rows)
<1> DEFINE Back == {n - i : i \in T}
<1>1. T \subseteq 1 .. n /\ n \in Nat
  BY RowNumbers DEF RowsOf
<1>2. Back \subseteq Nat /\ Back # {}
  BY <1>1
<1>3. PICK b \in Back : \A c \in Back : b <= c
  BY <1>2, FirstExists
<1>4. PICK i \in T : b = n - i
  BY <1>3
<1>5. \A k \in T : k <= i
  <2> SUFFICES ASSUME NEW k \in T PROVE k <= i
    OBVIOUS
  <2>1. n - k \in Back
    OBVIOUS
  <2>2. n - i <= n - k
    BY <1>3, <1>4, <2>1
  <2> QED
    BY <1>1, <2>2
<1> QED
  BY <1>4, <1>5 DEF LastRow

\* One job changes one row or adds one; types stay and levels rise by one.
LEMMA BuiltGrows ==
  ASSUME TypeOK, NEW j \in Job
  PROVE  \E x \in Nat :
           /\ \A i \in DOMAIN rows :
                /\ i \in DOMAIN Built(j) /\ Built(j)[i].type = rows[i].type
                /\ Built(j)[i].level \in {rows[i].level, rows[i].level + 1}
                /\ i # x => Built(j)[i] = rows[i]
           /\ \A i \in DOMAIN Built(j) :
                \/ i \in DOMAIN rows /\ Built(j)[i] = rows[i]
                \/ i = x /\ Built(j)[i] = j
<1>1. CASE Matching(j) # {}
  <2>1. Matching(j) \subseteq DOMAIN rows /\ Matching(j) \subseteq Nat
    BY RowNumbers DEF Matching, RowsOf
  <2>2. FirstMatching(j) \in Matching(j)
    BY <1>1, <2>1, FirstExists DEF FirstMatching
  <2> DEFINE x == FirstMatching(j)
  <2>3. rows[x].type = j.type /\ rows[x].level + 1 = j.level /\ x \in DOMAIN rows /\ x \in Nat
    BY <2>1, <2>2 DEF Matching, RowsOf
  <2>4. Built(j) = [rows EXCEPT ![x] = j]
    BY <1>1 DEF Built
  <2> HIDE DEF x
  <2>5. DOMAIN Built(j) = DOMAIN rows /\ Built(j)[x] = j
        /\ \A i \in DOMAIN rows : i # x => Built(j)[i] = rows[i]
    BY <2>3, <2>4, RowNumbers
  <2>6. \A i \in DOMAIN rows : /\ Built(j)[i].type = rows[i].type
                               /\ Built(j)[i].level \in {rows[i].level, rows[i].level + 1}
    BY <2>3, <2>5
  <2> QED
    BY <2>3, <2>5, <2>6
<1>2. CASE Matching(j) = {} /\ j.level = 1
  <2> DEFINE x == Len(rows) + 1
  <2>1. Built(j) = Append(rows, j)
    BY <1>2 DEF Built
  <2>2. DOMAIN Built(j) = 1 .. x /\ Built(j)[x] = j
        /\ \A i \in DOMAIN rows : Built(j)[i] = rows[i]
    BY <2>1, RowNumbers, AppendProperties
  <2>3. DOMAIN rows = 1 .. Len(rows) /\ Len(rows) \in Nat
    BY RowNumbers
  <2> QED
    BY <2>2, <2>3
<1>3. CASE Matching(j) = {} /\ j.level # 1
  <2>1. Built(j) = rows
    BY <1>3 DEF Built
  <2> QED
    BY <2>1
<1> QED
  BY <1>1, <1>2, <1>3

\* What a job requires stands among the rows.
Met(j, rs) ==
  \A req \in Requires[j] :
    \E k \in DOMAIN rs : rs[k].type = req.type /\ req.level <= rs[k].level

\* Rows only grow, so what stands keeps standing.
LEMMA MetStays ==
  ASSUME TypeOK, NEW j \in Job, NEW job \in Job, Met(job, rows)
  PROVE  Met(job, Built(j))
<1> SUFFICES ASSUME NEW req \in Requires[job]
             PROVE  \E k \in DOMAIN Built(j) :
                      Built(j)[k].type = req.type /\ req.level <= Built(j)[k].level
  BY DEF Met
<1>1. PICK k \in DOMAIN rows : rows[k].type = req.type /\ req.level <= rows[k].level
  BY DEF Met
<1>2. /\ k \in DOMAIN Built(j) /\ Built(j)[k].type = rows[k].type
      /\ Built(j)[k].level \in {rows[k].level, rows[k].level + 1}
  BY BuiltGrows
<1>3. rows[k].level \in Nat /\ req.level \in Nat
  <2>1. rows[k] \in Job
    BY RowNumbers
  <2>2. req \in Job
    BY ConstructionAssumption
  <2> QED
    BY <2>1, <2>2, Constants DEF Job
<1> QED
  BY <1>1, <1>2, <1>3

\* verifies_new_building?, verifies_upgrade_requirements?: the check is right.
LEMMA VerifiesMet ==
  ASSUME TypeOK, NEW t \in BType, Verifies(t)
  PROVE  Met([type |-> t, level |-> NextLevel(t)], rows)
<1> DEFINE j == [type |-> t, level |-> NextLevel(t)]
<1>1. j \in Job
  BY OrderIsJob DEF Verifies
<1> SUFFICES ASSUME NEW req \in Requires[j]
             PROVE  \E k \in DOMAIN rows : rows[k].type = req.type /\ req.level <= rows[k].level
  BY DEF Met
<1>2. req.level <= Level(req.type)
  BY DEF Verifies
<1>3. req.level \in Nat \ {0}
  BY <1>1, ConstructionAssumption, Constants DEF Job
<1>4. RowsOf(req.type) # {}
  BY <1>2, <1>3 DEF Level
<1>5. LastRow(req.type) \in RowsOf(req.type)
  BY <1>4, LastRowOf
<1> QED
  BY <1>2, <1>4, <1>5 DEF Level, RowsOf

\* Every job that is pending found what it requires when it was ordered.
JobsMet == \A j \in Job : Pending(j) > 0 => Met(j, rows)

\* No building stands without what it requires: checked at the order, it still
\* stands when the job comes, in whatever order the jobs come.
THEOREM RequirementsMetCorrect == Spec => []RequirementsMet
<1> DEFINE RowsMet == \A i \in DOMAIN rows : Met(rows[i], rows)
<1> DEFINE IInv == RowsMet /\ JobsMet
<1>1. Init => IInv
  BY DEF Init, JobsMet, Pending
<1>2. TypeOK /\ IInv /\ [Next]_vars => IInv'
  <2> SUFFICES ASSUME TypeOK, IInv, [Next]_vars PROVE IInv'
    OBVIOUS
  <2>1. ASSUME UNCHANGED rows,
               \A j \in Job : Pending(j)' > 0 => Pending(j) > 0 \/ Met(j, rows)
        PROVE  IInv'
    BY <2>1 DEF JobsMet, Met
  <2>2. CASE Claim
    <3>1. \A j \in Instant : Met(j, rows)
      BY ConstructionAssumption DEF Instant, Met
    <3>2. \A j \in Job \ Instant : Pending(j)' = Pending(j)
      BY <2>2 DEF Claim, Pending, TypeOK
    <3> QED
      BY <2>1, <2>2, <3>1, <3>2 DEF Claim
  <2>3. ASSUME NEW t \in BType, CreateBuildingJob(t) PROVE IInv'
    <3> DEFINE j == [type |-> t, level |-> NextLevel(t)]
    <3>1. Met(j, rows)
      BY <2>3, VerifiesMet DEF CreateBuildingJob
    <3>2. \A k \in Job : k # j => Pending(k)' = Pending(k)
      BY <2>3 DEF CreateBuildingJob, Pending, TypeOK
    <3> QED
      BY <2>1, <2>3, <3>1, <3>2 DEF CreateBuildingJob
  <2>4. ASSUME NEW j \in Job, Abort(j) PROVE IInv'
    <3>1. \A k \in Job : Pending(k)' <= Pending(k) /\ Pending(k) \in Nat /\ Pending(k)' \in Nat
      BY <2>4 DEF Abort, Pending, TypeOK
    <3>2. \A k \in Job : Pending(k)' > 0 => Pending(k) > 0
      BY <3>1
    <3> QED
      BY <2>1, <2>4, <3>2 DEF Abort
  <2>5. ASSUME NEW j \in Job, BuildBuilding(j) PROVE IInv'
    <3>1. rows' = Built(j)
      BY <2>5 DEF BuildBuilding
    <3>2. Pending(j) > 0 /\ \A k \in Job : Pending(k)' > 0 => Pending(k) > 0
      <4>1. \A k \in Job : delayed[k] \in Nat /\ ready[k] \in Nat
        BY DEF TypeOK
      <4>2. /\ ready[j] > 0 /\ delayed' = delayed
            /\ \A k \in Job : ready'[k] = IF k = j THEN ready[k] - 1 ELSE ready[k]
        BY <2>5 DEF BuildBuilding, TypeOK
      <4> QED
        BY <4>1, <4>2 DEF Pending
    <3>3. \A k \in Job : Met(k, rows) => Met(k, Built(j))
      BY MetStays
    <3>4. JobsMet'
      BY <3>1, <3>2, <3>3 DEF JobsMet
    <3>5. Met(j, rows)
      BY <3>2 DEF JobsMet
    <3>6. ASSUME NEW i \in DOMAIN Built(j) PROVE Met(Built(j)[i], Built(j))
      <4>1. \/ i \in DOMAIN rows /\ Built(j)[i] = rows[i]
            \/ Built(j)[i] = j
        BY BuiltGrows
      <4>2. Built(j)[i] \in Job /\ Met(Built(j)[i], rows)
        BY <3>5, <4>1, RowNumbers
      <4> QED
        BY <3>3, <4>2
    <3> QED
      BY <3>1, <3>4, <3>6
  <2>6. ASSUME NEW j \in Job, Release(j) PROVE IInv'
    <3>1. ASSUME NEW k \in Job PROVE Pending(k)' = Pending(k)
      <4>1. /\ delayed[k] \in Nat /\ ready[k] \in Nat
            /\ delayed \in [Job -> Nat] /\ ready \in [Job -> Nat]
        BY DEF TypeOK
      <4>2. delayed'[k] = IF k = j THEN delayed[k] - 1 ELSE delayed[k]
        BY <2>6, <4>1 DEF Release
      <4>3. ready'[k] = IF k = j THEN ready[k] + 1 ELSE ready[k]
        BY <2>6, <4>1 DEF Release
      <4> QED
        BY <4>1, <4>2, <4>3 DEF Pending
    <3> QED
      BY <2>1, <2>6, <3>1 DEF Release
  <2>7. CASE ProduceLoad
    BY <2>1, <2>7 DEF ProduceLoad, Pending
  <2>8. ASSUME NEW energy \in BOOLEAN, ProduceSave(energy) PROVE IInv'
    BY <2>1, <2>8 DEF ProduceSave, Pending
  <2>9. CASE UNCHANGED vars
    BY <2>1, <2>9 DEF vars, Pending
  <2> QED
    BY <2>2, <2>3, <2>4, <2>5, <2>6, <2>7, <2>8, <2>9 DEF Next
<1>3. IInv => RequirementsMet
  BY DEF RequirementsMet, Met
<1> QED
  BY <1>1, <1>2, <1>3, TypeCorrect, PTL DEF Spec

\* Late, repeated and useless jobs included: no step takes a building or a level
\* away, and none builds two.
THEOREM BuildingsGrowCorrect == Spec => BuildingsGrow
<1>1. TypeOK /\ [Next]_vars => [RowsGrow]_vars
  <2> SUFFICES ASSUME TypeOK, [Next]_vars PROVE RowsGrow
    OBVIOUS
  <2>1. CASE rows' = rows
    <3>1. Changed = {}
      BY <2>1 DEF Changed
    <3>2. \A i \in DOMAIN rows : rows'[i].level \in {rows[i].level, rows[i].level + 1}
      BY <2>1
    <3> QED
      BY <2>1, <3>1, <3>2, FS_EmptySet DEF RowsGrow
  <2>2. ASSUME NEW j \in Job, BuildBuilding(j) PROVE RowsGrow
    <3>1. rows' = Built(j)
      BY <2>2 DEF BuildBuilding
    <3>2. PICK x \in Nat :
            /\ \A i \in DOMAIN rows :
                 /\ i \in DOMAIN rows' /\ rows'[i].type = rows[i].type
                 /\ rows'[i].level \in {rows[i].level, rows[i].level + 1}
            /\ \A i \in DOMAIN rows' :
                 \/ i \in DOMAIN rows /\ rows'[i] = rows[i]
                 \/ i = x
      BY <3>1, BuiltGrows
    <3>3. Changed \subseteq {x}
      BY <3>2 DEF Changed
    <3>4. Cardinality(Changed) <= 1
      <4>1. IsFiniteSet({x}) /\ Cardinality({x}) = 1
        BY FS_Singleton
      <4>2. IsFiniteSet(Changed) /\ Cardinality(Changed) <= Cardinality({x})
        BY <3>3, <4>1, FS_Subset
      <4> QED
        BY <4>1, <4>2
    <3> QED
      BY <3>2, <3>4 DEF RowsGrow
  <2> QED
    BY <2>1, <2>2 DEF Next, Claim, CreateBuildingJob, Abort, Release, ProduceLoad,
                      ProduceSave, vars
<1> QED
  BY <1>1, TypeCorrect, PTL DEF Spec, BuildingsGrow
-----------------------------------------------------------------------------
\* A job of level 1 adds a row, every other one leaves the row numbers alone.
LEMMA BuiltAdds ==
  ASSUME TypeOK, NEW j \in Job
  PROVE  /\ j.level # 1 => DOMAIN Built(j) = DOMAIN rows
         /\ j.level = 1 => \E x : /\ x \notin DOMAIN rows
                                  /\ DOMAIN Built(j) = DOMAIN rows \cup {x}
                                  /\ Built(j)[x] = j
<1>1. CASE Matching(j) # {}
  <2>1. Matching(j) \subseteq DOMAIN rows /\ Matching(j) \subseteq Nat
    BY RowNumbers DEF Matching, RowsOf
  <2>2. FirstMatching(j) \in Matching(j)
    BY <1>1, <2>1, FirstExists DEF FirstMatching
  <2>3. rows[FirstMatching(j)] \in Job /\ rows[FirstMatching(j)].level + 1 = j.level
    BY <2>1, <2>2, RowNumbers DEF Matching
  <2>4. j.level # 1
    BY <2>3, Constants DEF Job
  <2>5. DOMAIN Built(j) = DOMAIN rows
    BY <1>1 DEF Built
  <2> QED
    BY <2>4, <2>5
<1>2. CASE Matching(j) = {} /\ j.level = 1
  <2> DEFINE x == Len(rows) + 1
  <2>1. Built(j) = Append(rows, j)
    BY <1>2 DEF Built
  <2>2. DOMAIN Built(j) = 1 .. x /\ Built(j)[x] = j
    BY <2>1, RowNumbers, AppendProperties
  <2>3. x \notin DOMAIN rows /\ DOMAIN Built(j) = DOMAIN rows \cup {x}
    BY <2>2, RowNumbers
  <2> QED
    BY <1>2, <2>2, <2>3
<1>3. CASE Matching(j) = {} /\ j.level # 1
  BY <1>3 DEF Built
<1> QED
  BY <1>1, <1>2, <1>3

\* While nothing lags: before the claim there is nothing; the jobs of a claim come before any
\* order, each once and for a building that is not there; what is ordered at level 1 is not there.
PromptInv ==
  ~Late =>
    /\ ~claimed => constr = None /\ rows = <<>> /\ \A j \in Job : Pending(j) = 0
    /\ claimed => \A t \in Initial : RowsOf(t) # {} \/ Pending(LevelOne(t)) > 0
    /\ \A j \in Instant : /\ Pending(j) <= 1
                          /\ Pending(j) > 0 => RowsOf(j.type) = {} /\ constr = None
    /\ constr # None => constr \notin Instant /\ (constr.level = 1 => RowsOf(constr.type) = {})
    /\ JobOfConstruction
    /\ OneKind

LEMMA InstantJobs ==
  /\ Instant \subseteq Job
  /\ \A t \in Initial : LevelOne(t) \in Instant
  /\ \A j \in Instant : j.type \in Initial /\ j = LevelOne(j.type) /\ j.level = 1
<1>1. \A t \in Initial : LevelOne(t) \in Job
  BY ConstructionAssumption DEF LevelOne, Job
<1> QED
  BY <1>1 DEF Instant, LevelOne

LEMMA PendingIsNat ==
  ASSUME TypeOK
  PROVE  \A j \in Job : delayed[j] \in Nat /\ ready[j] \in Nat /\ Pending(j) \in Nat
  BY DEF TypeOK, Pending

\* An order is for what the planet does not have yet: not for a first building.
LEMMA OrderIsNew ==
  ASSUME TypeOK, PromptInv, ~Late, NEW t \in BType, CreateBuildingJob(t)
  PROVE  LET j == [type |-> t, level |-> NextLevel(t)]
         IN  /\ j \in Job \ Instant
             /\ j.level = 1 => RowsOf(t) = {}
             /\ \A i \in Instant : Pending(i) = 0
<1> DEFINE j == [type |-> t, level |-> NextLevel(t)]
<1>1. j \in Job
  BY OrderIsJob DEF CreateBuildingJob, Verifies
<1>2. \A i \in Instant : Pending(i) = 0
  BY InstantJobs DEF CreateBuildingJob, KeepsUp, Pending
<1>3. NextLevel(t) = 1 => RowsOf(t) = {}
  <2> SUFFICES ASSUME RowsOf(t) # {} PROVE NextLevel(t) # 1
    OBVIOUS
  <2>1. RowsOf(t) \subseteq DOMAIN rows /\ RowsOf(t) \subseteq Nat
    BY RowNumbers DEF RowsOf
  <2>2. FirstRow(t) \in DOMAIN rows
    BY <2>1, FirstExists DEF FirstRow
  <2>3. rows[FirstRow(t)].level \in Nat \ {0}
    BY <2>2, RowNumbers, Constants DEF Job
  <2> QED
    BY <2>3 DEF NextLevel
<1>4. j \notin Instant
  <2> SUFFICES ASSUME j \in Instant PROVE FALSE
    OBVIOUS
  <2>1. t \in Initial /\ NextLevel(t) = 1
    BY InstantJobs
  <2>2. Pending(LevelOne(t)) = 0
    BY <1>2, <2>1, InstantJobs
  <2>3. RowsOf(t) # {}
    BY <2>1, <2>2 DEF PromptInv, CreateBuildingJob
  <2> QED
    BY <1>3, <2>1, <2>3
<1> QED
  BY <1>1, <1>2, <1>3, <1>4

\* What a job does to the rows of each type.
LEMMA BuiltRows ==
  ASSUME TypeOK, NEW j \in Job, rows' = Built(j)
  PROVE  /\ \A t : RowsOf(t) # {} => RowsOf(t)' # {}
         /\ \A t : t # j.type => (RowsOf(t)' = {} <=> RowsOf(t) = {})
         /\ j.level = 1 => RowsOf(j.type)' # {}
         /\ OneKind /\ ~Late /\ mode' = mode /\ (j.level = 1 => RowsOf(j.type) = {}) => OneKind'
<1>1. \A i \in DOMAIN rows : i \in DOMAIN rows' /\ rows'[i].type = rows[i].type
  BY BuiltGrows
<1>2. CASE j.level # 1
  <2>1. DOMAIN rows' = DOMAIN rows
    BY <1>2, BuiltAdds
  <2>2. \A t : RowsOf(t)' = RowsOf(t)
    BY <1>1, <2>1 DEF RowsOf
  <2>3. OneKind /\ ~Late /\ mode' = mode => OneKind'
    BY <1>1, <2>1 DEF OneKind, Late
  <2> QED
    BY <1>2, <2>2, <2>3
<1>3. CASE j.level = 1
  <2>1. PICK x : /\ x \notin DOMAIN rows
                 /\ DOMAIN rows' = DOMAIN rows \cup {x}
                 /\ rows'[x] = j
    BY <1>3, BuiltAdds
  <2>2. \A t : RowsOf(t)' = IF t = j.type THEN RowsOf(t) \cup {x} ELSE RowsOf(t)
    BY <1>1, <2>1 DEF RowsOf
  <2>3. OneKind /\ ~Late /\ mode' = mode /\ RowsOf(j.type) = {} => OneKind'
    <3> SUFFICES ASSUME OneKind, ~Late, RowsOf(j.type) = {},
                        NEW i \in DOMAIN rows', NEW k \in DOMAIN rows', rows'[i].type = rows'[k].type
                 PROVE  i = k
      BY DEF OneKind
    <3>1. \A l \in DOMAIN rows : rows[l].type # j.type
      BY DEF RowsOf
    <3> QED
      BY <1>1, <2>1, <3>1 DEF OneKind
  <2> QED
    BY <1>3, <2>2, <2>3
<1> QED
  BY <1>2, <1>3

\* While nothing lags, jobs and the construction shown are the same thing, and no building
\* stands twice: the claim's jobs are done before the first order, and the orders come one by one.
THEOREM PromptCorrect == Spec => [](JobOfConstruction /\ OneKind)
<1>1. Init => PromptInv
  <2> SUFFICES ASSUME Init PROVE PromptInv
    OBVIOUS
  <2>1. ~claimed /\ rows = <<>> /\ DOMAIN rows = {} /\ constr = None
    BY DEF Init
  <2>2. \A j \in Job : Pending(j) = 0
    BY DEF Init, Pending
  <2>3. \A j \in Job : j # None
    BY Constants
  <2> QED
    BY <2>1, <2>2, <2>3, InstantJobs DEF PromptInv, JobOfConstruction, OneKind
<1>2. TypeOK /\ PromptInv /\ [Next]_vars => PromptInv'
  <2> SUFFICES ASSUME TypeOK, PromptInv, [Next]_vars, ~Late PROVE PromptInv'
    BY DEF PromptInv, Late, Next, Claim, CreateBuildingJob, Abort, BuildBuilding, Release,
           ProduceLoad, ProduceSave, vars
  <2>a. mode' = mode
    BY DEF Next, Claim, CreateBuildingJob, Abort, BuildBuilding, Release, ProduceLoad, ProduceSave, vars
  <2>1. ASSUME UNCHANGED <<claimed, rows, constr>>, \A j \in Job : Pending(j)' = Pending(j)
        PROVE  PromptInv'
    BY <2>1, <2>a, InstantJobs DEF PromptInv, JobOfConstruction, OneKind, RowsOf, Late
  <2>2. CASE Claim
    <3>1. \A j \in Job : Pending(j)' = IF j \in Instant THEN 1 ELSE 0
      <4>1. \A j \in Job : Pending(j) = 0 /\ delayed[j] \in Nat /\ ready[j] \in Nat
        BY <2>2, PendingIsNat DEF Claim, PromptInv
      <4>2. \A j \in Job : delayed'[j] = (IF j \in Instant THEN delayed[j] + 1 ELSE delayed[j]) /\ ready'[j] = ready[j]
        BY <2>2 DEF Claim
      <4> QED
        BY <4>1, <4>2 DEF Pending
    <3>2. claimed' /\ rows' = rows /\ rows = <<>> /\ constr' = None
      BY <2>2 DEF Claim, PromptInv
    <3>3. \A t : RowsOf(t)' = {}
      BY <3>2 DEF RowsOf
    <3>4. None \notin Job
      BY Constants
    <3> QED
      BY <2>a, <3>1, <3>2, <3>3, <3>4, InstantJobs DEF PromptInv, JobOfConstruction, OneKind, Late
  <2>3. ASSUME NEW t \in BType, CreateBuildingJob(t) PROVE PromptInv'
    <3> DEFINE j == [type |-> t, level |-> NextLevel(t)]
    <3>1. /\ j \in Job \ Instant /\ j.type = t
          /\ j.level = 1 => RowsOf(t) = {}
          /\ \A i \in Instant : Pending(i) = 0
      BY <2>3, OrderIsNew
    <3>2. /\ claimed /\ claimed' /\ rows' = rows /\ constr = None /\ constr' = j
          /\ delayed' = [delayed EXCEPT ![j] = @ + 1] /\ ready' = ready
      BY <2>3 DEF CreateBuildingJob
    <3> HIDE DEF j
    <3>3. \A i \in Job : Pending(i)' = IF i = j THEN Pending(i) + 1 ELSE Pending(i)
      <4>1. \A i \in Job : delayed'[i] = IF i = j THEN delayed[i] + 1 ELSE delayed[i]
        BY <3>1, <3>2 DEF TypeOK
      <4> QED
        BY <3>2, <4>1, PendingIsNat DEF Pending
    <3>4. \A i \in Job \ Instant : Pending(i) = 0
      BY <3>2, Constants DEF PromptInv, JobOfConstruction
    <3>5. \A u : RowsOf(u)' = RowsOf(u)
      BY <3>2 DEF RowsOf
    <3>6. \A i \in Instant : Pending(i)' = 0
      BY <3>1, <3>3, InstantJobs
    <3>7. JobOfConstruction'
      BY <3>2, <3>3, <3>4 DEF JobOfConstruction
    <3>8. OneKind'
      BY <2>a, <3>2 DEF PromptInv, OneKind, Late
    <3>9. \A u \in Initial : RowsOf(u)' # {} \/ Pending(LevelOne(u))' > 0
      BY <3>1, <3>2, <3>5, InstantJobs DEF PromptInv
    <3> QED
      BY <3>1, <3>2, <3>5, <3>6, <3>7, <3>8, <3>9 DEF PromptInv
  <2>4. ASSUME NEW j \in Job, Abort(j) PROVE PromptInv'
    <3>1. /\ claimed /\ claimed' /\ rows' = rows /\ constr = j /\ constr' = None
          /\ delayed' = [delayed EXCEPT ![j] = 0] /\ ready' = ready /\ ready[j] = 0
      BY <2>4 DEF Abort, KeepsUp
    <3>2. \A i \in Job : Pending(i)' = IF i = j THEN 0 ELSE Pending(i)
      BY <3>1, PendingIsNat DEF Pending, TypeOK
    <3>3. j \notin Instant
      BY <3>1, Constants DEF PromptInv
    <3>4. \A u : RowsOf(u)' = RowsOf(u)
      BY <3>1 DEF RowsOf
    <3>5. \A i \in Instant : Pending(i)' = Pending(i)
      BY <3>2, <3>3, InstantJobs
    <3>6. JobOfConstruction'
      BY <2>a, <3>1, <3>2, Constants DEF PromptInv, JobOfConstruction, Late
    <3>7. OneKind'
      BY <2>a, <3>1 DEF PromptInv, OneKind, Late
    <3> QED
      BY <3>1, <3>4, <3>5, <3>6, <3>7, InstantJobs DEF PromptInv
  <2>5. ASSUME NEW j \in Job, BuildBuilding(j) PROVE PromptInv'
    <3>1. /\ ready[j] > 0 /\ claimed' = claimed /\ rows' = Built(j) /\ constr' = None
          /\ ready' = [ready EXCEPT ![j] = @ - 1] /\ delayed' = delayed
      BY <2>5 DEF BuildBuilding
    <3>2. \A i \in Job : Pending(i)' = IF i = j THEN Pending(i) - 1 ELSE Pending(i)
      <4>1. \A i \in Job : ready'[i] = IF i = j THEN ready[i] - 1 ELSE ready[i]
        BY <3>1 DEF TypeOK
      <4> QED
        BY <3>1, <4>1, PendingIsNat DEF Pending
    <3>3. Pending(j) > 0 /\ Pending(j) <= 1 /\ Pending(j)' = 0
      <4>1. Pending(j) > 0 /\ Pending(j) \in Nat
        BY <3>1, PendingIsNat DEF Pending
      <4>2. Pending(j) <= 1
        BY <4>1 DEF PromptInv, JobOfConstruction
      <4> QED
        BY <3>2, <4>1, <4>2
    <3>4. claimed /\ j \in Job
      BY <3>3 DEF PromptInv
    <3>5. j \notin Instant => constr = j
      BY <3>3 DEF PromptInv, JobOfConstruction
    <3>6. j.level = 1 => RowsOf(j.type) = {}
      BY <3>3, <3>5, Constants DEF PromptInv
    <3>7. OneKind'
      BY <2>a, <3>1, <3>6, BuiltRows DEF PromptInv
    <3>8. \A i \in Job \ Instant : Pending(i)' = 0
      <4> SUFFICES ASSUME NEW i \in Job \ Instant, i # j PROVE Pending(i)' = 0
        BY <3>3
      <4>1. constr # i
        BY <3>3, <3>5, Constants DEF PromptInv
      <4> QED
        BY <3>2, <4>1 DEF PromptInv, JobOfConstruction
    <3>9. JobOfConstruction'
      BY <3>1, <3>8, Constants DEF JobOfConstruction
    <3>10. ASSUME NEW i \in Instant
           PROVE  Pending(i)' <= 1 /\ (Pending(i)' > 0 => RowsOf(i.type)' = {})
      <4>1. CASE i = j
        BY <3>3, <4>1
      <4>2. CASE i # j
        <5>1. Pending(i)' = Pending(i)
          BY <3>2, <4>2, InstantJobs
        <5>2. Pending(i) > 0 => j \in Instant
          BY <3>5, Constants DEF PromptInv
        <5>3. j \in Instant => i.type # j.type
          BY <4>2, InstantJobs
        <5> QED
          BY <3>1, <5>1, <5>2, <5>3, BuiltRows DEF PromptInv
      <4> QED
        BY <4>1, <4>2
    <3>11. ASSUME NEW u \in Initial
           PROVE  RowsOf(u)' # {} \/ Pending(LevelOne(u))' > 0
      <4>1. CASE LevelOne(u) = j
        BY <3>1, <4>1, BuiltRows DEF LevelOne
      <4>2. CASE LevelOne(u) # j
        <5>1. RowsOf(u) # {} \/ Pending(LevelOne(u)) > 0
          BY <3>4 DEF PromptInv
        <5> QED
          BY <3>1, <3>2, <4>2, <5>1, BuiltRows, InstantJobs
      <4> QED
        BY <4>1, <4>2
    <3> QED
      BY <3>1, <3>4, <3>7, <3>9, <3>10, <3>11 DEF PromptInv
  <2>6. ASSUME NEW j \in Job, Release(j) PROVE PromptInv'
    <3>1. \A k \in Job : /\ delayed'[k] = IF k = j THEN delayed[k] - 1 ELSE delayed[k]
                         /\ ready'[k] = IF k = j THEN ready[k] + 1 ELSE ready[k]
      BY <2>6 DEF Release, TypeOK
    <3>2. \A k \in Job : Pending(k)' = Pending(k)
      BY <3>1, PendingIsNat DEF Pending
    <3> QED
      BY <2>1, <2>6, <3>2 DEF Release
  <2>7. CASE ProduceLoad
    BY <2>1, <2>7 DEF ProduceLoad, Pending
  <2>8. ASSUME NEW energy \in BOOLEAN, ProduceSave(energy) PROVE PromptInv'
    BY <2>1, <2>8 DEF ProduceSave, Pending
  <2>9. CASE UNCHANGED vars
    BY <2>1, <2>9 DEF vars, Pending
  <2> QED
    BY <2>2, <2>3, <2>4, <2>5, <2>6, <2>7, <2>8, <2>9 DEF Next
<1>3. PromptInv => JobOfConstruction /\ OneKind
  BY DEF PromptInv, JobOfConstruction, OneKind
<1> QED
  BY <1>1, <1>2, <1>3, TypeCorrect, PTL DEF Spec

\* What the run checks of jobs, construction, production and requirements, in every mode.
THEOREM ConstructionAgreesCorrect == Spec => []ConstructionAgrees
<1>1. TypeOK /\ JobOfConstruction /\ OneKind /\ ConstructionHasJob /\ OneChain /\ RequirementsMet
      => ConstructionAgrees
  BY DEF ConstructionAgrees
<1> QED
  BY <1>1, TypeCorrect, PromptCorrect, ConstructionHasJobCorrect, OneChainCorrect,
     RequirementsMetCorrect, PTL
-----------------------------------------------------------------------------
LEMMA JobsFinite ==
  /\ IsFiniteSet(Job)
  /\ \A j \in Job : Upto(j) \subseteq Job /\ IsFiniteSet(Upto(j))
<1>1. ASSUME NEW t \in BType, NEW l \in Nat
      PROVE  IsFiniteSet({[type |-> t, level |-> k] : k \in 1 .. l})
  <2> DEFINE f == [k \in 1 .. l |-> [type |-> t, level |-> k]]
  <2>1. {[type |-> t, level |-> k] : k \in 1 .. l} = {f[k] : k \in 1 .. l}
    OBVIOUS
  <2>2. IsFiniteSet({f[k] : k \in 1 .. l})
    <3> HIDE DEF f
    <3>1. IsFiniteSet(1 .. l)
      BY FS_Interval
    <3> QED
      BY ONLY <3>1, FiniteImage
  <2> QED
    BY <2>1, <2>2
<1>2. \A t \in BType : MaxLevel[t] \in Nat
  BY Constants
<1>3. \A j \in Job : /\ j.type \in BType /\ j.level \in 1 .. MaxLevel[j.type]
                     /\ j = [type |-> j.type, level |-> j.level]
  BY DEF Job
<1>4. \A j \in Job : Upto(j) \subseteq Job /\ IsFiniteSet(Upto(j))
  <2> TAKE j \in Job
  <2>1. j.type \in BType /\ j.level \in Nat /\ j.level <= MaxLevel[j.type]
        /\ MaxLevel[j.type] \in Nat
    BY <1>2, <1>3
  <2>2. IsFiniteSet(Upto(j))
    BY <1>1, <2>1 DEF Upto
  <2>3. Upto(j) \subseteq Job
    BY <2>1 DEF Upto, Job
  <2> QED
    BY <2>2, <2>3
<1>5. IsFiniteSet(Job)
  <2> DEFINE kind == [t \in BType |-> [type : {t}, level : 1 .. MaxLevel[t]]]
  <2>1. \A t \in BType : kind[t] = {[type |-> t, level |-> k] : k \in 1 .. MaxLevel[t]}
    <3> TAKE t \in BType
    <3>1. ASSUME NEW r \in kind[t] PROVE \E k \in 1 .. MaxLevel[t] : r = [type |-> t, level |-> k]
      <4>1. r \in [type : {t}, level : 1 .. MaxLevel[t]]
        OBVIOUS
      <4>2. r.level \in 1 .. MaxLevel[t] /\ r = [type |-> t, level |-> r.level]
        BY ONLY <4>1
      <4> QED
        BY <4>2
    <3>2. \A k \in 1 .. MaxLevel[t] : [type |-> t, level |-> k] \in kind[t]
      OBVIOUS
    <3> QED
      BY ONLY <3>1, <3>2
  <2>2. \A t \in BType : IsFiniteSet(kind[t])
    BY <1>1, <1>2, <2>1
  <2>3. Job = UNION {kind[t] : t \in BType}
    BY DEF Job
  <2> HIDE DEF kind
  <2>4. IsFiniteSet({kind[t] : t \in BType})
    BY FiniteImage, ConstructionAssumption
  <2> QED
    BY <2>2, <2>3, <2>4, FS_UNION
<1> QED
  BY <1>4, <1>5

\* What jobs and rows are worth, of one good.
LEMMA WorthTyped ==
  ASSUME TypeOK, NEW cost \in [Job -> Nat]
  PROVE  /\ InJobs(cost) \in Nat /\ InRows(cost) \in Nat
         /\ \A j \in Job : SumFunctionOnSet(cost, Upto(j)) \in Nat
<1>1. \A j \in Job : SumFunctionOnSet(cost, Upto(j)) \in Nat
  <2> TAKE j \in Job
  <2>1. IsFiniteSet(Upto(j)) /\ \A k \in Upto(j) : cost[k] \in Nat
    BY JobsFinite
  <2> QED
    BY <2>1, SumNat
<1>2. InJobs(cost) \in Nat
  <2> DEFINE f == [j \in Job |-> Pending(j) * cost[j]]
  <2>1. DOMAIN f = Job /\ \A j \in Job : f[j] \in Nat
    BY PendingIsNat
  <2> HIDE DEF f
  <2>2. SumFunction(f) \in Nat
    BY <2>1, JobsFinite, SumNat DEF SumFunction
  <2> QED
    BY <2>2 DEF f, InJobs
<1>3. InRows(cost) \in Nat
  <2> DEFINE f == [i \in DOMAIN rows |-> SumFunctionOnSet(cost, Upto(rows[i]))]
  <2>1. DOMAIN f = DOMAIN rows /\ \A i \in DOMAIN rows : f[i] \in Nat
    BY <1>1, RowNumbers
  <2>2. IsFiniteSet(DOMAIN rows)
    BY RowNumbers, FS_Interval
  <2> HIDE DEF f
  <2>3. SumFunction(f) \in Nat
    BY <2>1, <2>2, SumNat DEF SumFunction
  <2> QED
    BY <2>3 DEF f, InRows
<1> QED
  BY <1>1, <1>2, <1>3

\* Only the jobs for one building change in number.
LEMMA InJobsChange ==
  ASSUME TypeOK, TypeOK', NEW cost \in [Job -> Nat], NEW j \in Job,
         \A k \in Job : k # j => Pending(k)' = Pending(k)
  PROVE  InJobs(cost)' = InJobs(cost) + Pending(j)' * cost[j] - Pending(j) * cost[j]
<1> DEFINE f == [k \in Job |-> Pending(k) * cost[k]]
           g == [k \in Job |-> Pending(k)' * cost[k]]
<1>1. \A k \in Job : Pending(k) \in Nat /\ Pending(k)' \in Nat /\ cost[k] \in Nat
  <2>1. \A k \in Job : delayed[k] \in Nat /\ ready[k] \in Nat
    BY DEF TypeOK
  <2>2. \A k \in Job : delayed'[k] \in Nat /\ ready'[k] \in Nat
    BY DEF TypeOK
  <2> QED
    BY ONLY <2>1, <2>2, cost \in [Job -> Nat] DEF Pending
<1>2. /\ DOMAIN f = Job /\ DOMAIN g = Job
      /\ \A k \in Job : f[k] \in Int /\ g[k] \in Int
      /\ \A k \in Job \ {j} : f[k] = g[k]
      /\ f[j] = Pending(j) * cost[j] /\ g[j] = Pending(j)' * cost[j]
  BY <1>1
<1> HIDE DEF f, g
<1>3. SumFunctionOnSet(g, Job) = SumFunctionOnSet(f, Job) + g[j] - f[j]
  BY ONLY <1>2, j \in Job, JobsFinite, SumChange
<1>4. InJobs(cost) = SumFunctionOnSet(f, Job) /\ InJobs(cost)' = SumFunctionOnSet(g, Job)
  BY DEF InJobs, SumFunction, f, g
<1> QED
  BY ONLY <1>2, <1>3, <1>4

LEMMA InJobsSame ==
  ASSUME TypeOK, NEW cost \in [Job -> Nat],
         \A k \in Job : Pending(k)' * cost[k] = Pending(k) * cost[k]
  PROVE  InJobs(cost)' = InJobs(cost)
<1>1. [k \in Job |-> Pending(k)' * cost[k]] = [k \in Job |-> Pending(k) * cost[k]]
  OBVIOUS
<1>2. InJobs(cost)' = SumFunction([k \in Job |-> Pending(k)' * cost[k]])
  BY DEF InJobs
<1> QED
  BY ONLY <1>1, <1>2 DEF InJobs

\* A job adds what it has cost to the rows, or, without effect, nothing.
LEMMA InRowsBuilt ==
  ASSUME TypeOK, NEW cost \in [Job -> Nat], NEW j \in Job, rows' = Built(j)
  PROVE  InRows(cost)' \in {InRows(cost), InRows(cost) + cost[j]}
<1> DEFINE w(r) == SumFunctionOnSet(cost, Upto(r))
           f == [i \in DOMAIN rows |-> w(rows[i])]
           g == [i \in DOMAIN rows' |-> w(rows'[i])]
<1>1. InRows(cost) = SumFunctionOnSet(f, DOMAIN rows)
      /\ InRows(cost)' = SumFunctionOnSet(g, DOMAIN rows')
  BY DEF InRows, SumFunction
<1>2. /\ IsFiniteSet(DOMAIN rows) /\ (\A k \in Job : w(k) \in Nat)
      /\ InRows(cost) \in Nat /\ cost[j] \in Nat
      /\ \A i \in DOMAIN rows : rows[i] \in Job
  <2>1. IsFiniteSet(DOMAIN rows)
    <3>1. DOMAIN rows = 1 .. Len(rows) /\ Len(rows) \in Nat
      BY RowNumbers
    <3> QED
      BY <3>1, FS_Interval
  <2>2. (\A k \in Job : w(k) \in Nat) /\ InRows(cost) \in Nat
    BY WorthTyped
  <2>3. \A i \in DOMAIN rows : rows[i] \in Job
    BY RowNumbers
  <2> QED
    BY <2>1, <2>2, <2>3
<1> HIDE DEF w
<1>3. CASE Matching(j) # {}
  <2> DEFINE i == FirstMatching(j)
  <2>1. i \in DOMAIN rows /\ rows[i].type = j.type /\ rows[i].level + 1 = j.level
    <3>1. Matching(j) \subseteq DOMAIN rows /\ Matching(j) \subseteq Nat
      BY RowNumbers DEF Matching, RowsOf
    <3>2. i \in Matching(j)
      BY <1>3, <3>1, FirstExists DEF FirstMatching
    <3> QED
      BY <3>1, <3>2 DEF Matching, RowsOf
  <2> HIDE DEF i
  <2>2. rows' = [rows EXCEPT ![i] = j]
    BY <1>3 DEF Built, i
  <2>3. w(j) = w(rows[i]) + cost[j]
    <3>1. rows[i] \in Job /\ rows[i].level \in Nat /\ j = [type |-> j.type, level |-> j.level]
          /\ j.level \in Nat
      BY <1>2, <2>1 DEF Job
    <3>2. Upto(j) = Upto(rows[i]) \cup {j} /\ j \notin Upto(rows[i])
      BY <2>1, <3>1 DEF Upto
    <3>3. IsFiniteSet(Upto(rows[i])) /\ \A k \in Upto(rows[i]) \cup {j} : cost[k] \in Int
      BY <3>1, JobsFinite
    <3>4. SumFunctionOnSet(cost, Upto(rows[i]) \cup {j}) =
            cost[j] + SumFunctionOnSet(cost, Upto(rows[i]))
      BY ONLY <3>2, <3>3, SumWith
    <3>5. w(rows[i]) \in Nat /\ cost[j] \in Nat
      BY <1>2, <3>1
    <3> QED
      BY <3>2, <3>4, <3>5 DEF w
  <2>4. DOMAIN rows' = DOMAIN rows /\ rows'[i] = j
        /\ \A k \in DOMAIN rows \ {i} : rows'[k] = rows[k]
    BY <2>1, <2>2
  <2>5. /\ \A k \in DOMAIN rows : f[k] \in Int /\ g[k] \in Int
        /\ \A k \in DOMAIN rows \ {i} : f[k] = g[k]
        /\ f[i] = w(rows[i]) /\ g[i] = w(j) /\ f[i] \in Nat
    <3>1. \A k \in DOMAIN rows : rows'[k] \in Job
      BY <1>2, <2>4
    <3> QED
      BY <1>2, <2>1, <2>4, <3>1
  <2> HIDE DEF f, g
  <2>6. SumFunctionOnSet(g, DOMAIN rows) = SumFunctionOnSet(f, DOMAIN rows) + g[i] - f[i]
    BY ONLY <1>2, <2>1, <2>5, SumChange
  <2>7. InRows(cost)' = InRows(cost) + g[i] - f[i]
    BY ONLY <1>1, <2>4, <2>6
  <2> QED
    BY ONLY <1>2, <2>3, <2>5, <2>7
<1>4. CASE Matching(j) = {} /\ j.level = 1
  <2> DEFINE x == Len(rows) + 1
  <2>1. rows' = Append(rows, j)
    BY <1>4 DEF Built
  <2>2. /\ DOMAIN rows' = DOMAIN rows \cup {x} /\ x \notin DOMAIN rows /\ rows'[x] = j
        /\ \A k \in DOMAIN rows : rows'[k] = rows[k]
    BY <2>1, RowNumbers, AppendProperties
  <2> HIDE DEF x
  <2>3. w(j) = cost[j]
    <3>1. Upto(j) = {j}
      <4>1. j = [type |-> j.type, level |-> 1] /\ 1 .. 1 = {1}
        BY <1>4 DEF Job
      <4> QED
        BY <1>4, <4>1 DEF Upto
    <3>2. cost[j] \in Int
      BY <1>2
    <3> QED
      BY <3>1, <3>2, SumOne DEF w
  <2>4. /\ \A k \in DOMAIN rows \cup {x} : g[k] \in Int
        /\ \A k \in DOMAIN rows : f[k] = g[k]
        /\ g[x] = w(j)
    BY <1>2, <2>2
  <2> HIDE DEF f, g
  <2>5. SumFunctionOnSet(g, DOMAIN rows \cup {x}) = g[x] + SumFunctionOnSet(g, DOMAIN rows)
    BY ONLY <1>2, <2>2, <2>4, SumWith
  <2>6. SumFunctionOnSet(g, DOMAIN rows) = SumFunctionOnSet(f, DOMAIN rows)
    BY ONLY <1>2, <2>4, SumSame
  <2>7. InRows(cost)' = cost[j] + InRows(cost)
    BY ONLY <1>1, <2>2, <2>3, <2>4, <2>5, <2>6
  <2> QED
    BY ONLY <1>2, <2>7
<1>5. CASE Matching(j) = {} /\ j.level # 1
  <2>1. rows' = rows
    BY <1>5 DEF Built
  <2> QED
    BY <2>1 DEF InRows
<1> QED
  BY <1>3, <1>4, <1>5

\* An order pays with what it takes: its job is worth its price.
LEMMA OneJobMore ==
  ASSUME TypeOK, TypeOK', NEW cost \in [Job -> Nat], NEW j \in Job,
         delayed' = [delayed EXCEPT ![j] = @ + 1], UNCHANGED ready
  PROVE  InJobs(cost)' = InJobs(cost) + cost[j]
<1>1. /\ \A k \in Job : k # j => Pending(k)' = Pending(k)
      /\ Pending(j)' = Pending(j) + 1 /\ Pending(j) \in Nat /\ cost[j] \in Nat
  <2>1. \A k \in Job : delayed[k] \in Nat /\ ready[k] \in Nat
    BY DEF TypeOK
  <2>2. /\ ready' = ready /\ delayed'[j] = delayed[j] + 1
        /\ \A k \in Job : k # j => delayed'[k] = delayed[k]
    BY DEF TypeOK
  <2>3. cost[j] \in Nat
    OBVIOUS
  <2> QED
    BY ONLY <2>1, <2>2, <2>3, j \in Job DEF Pending
<1>2. (Pending(j) + 1) * cost[j] = Pending(j) * cost[j] + cost[j]
  BY <1>1
<1>3. InJobs(cost)' = InJobs(cost) + Pending(j)' * cost[j] - Pending(j) * cost[j]
  BY <1>1, InJobsChange
<1>4. InJobs(cost) \in Nat /\ Pending(j) * cost[j] \in Nat
  BY <1>1, WorthTyped
<1> QED
  BY ONLY <1>1, <1>2, <1>3, <1>4

LEMMA OneJobLess ==
  ASSUME TypeOK, TypeOK', NEW cost \in [Job -> Nat], NEW j \in Job,
         ready[j] > 0, ready' = [ready EXCEPT ![j] = @ - 1], UNCHANGED delayed
  PROVE  InJobs(cost)' = InJobs(cost) - cost[j]
<1>1. /\ \A k \in Job : k # j => Pending(k)' = Pending(k)
      /\ Pending(j)' = Pending(j) - 1 /\ Pending(j) \in Nat /\ cost[j] \in Nat
  <2>1. \A k \in Job : delayed[k] \in Nat /\ ready[k] \in Nat
    BY DEF TypeOK
  <2>2. /\ delayed' = delayed /\ ready'[j] = ready[j] - 1
        /\ \A k \in Job : k # j => ready'[k] = ready[k]
    BY DEF TypeOK
  <2>3. cost[j] \in Nat
    OBVIOUS
  <2> QED
    BY ONLY <2>1, <2>2, <2>3, j \in Job DEF Pending
<1>2. (Pending(j) - 1) * cost[j] = Pending(j) * cost[j] - cost[j]
  BY <1>1
<1>3. InJobs(cost)' = InJobs(cost) + Pending(j)' * cost[j] - Pending(j) * cost[j]
  BY <1>1, InJobsChange
<1>4. InJobs(cost) \in Nat /\ Pending(j) * cost[j] \in Nat
  BY <1>1, WorthTyped
<1> QED
  BY ONLY <1>1, <1>2, <1>3, <1>4

\* An abort takes every delayed job for the building: the one it may pay for, at least.
LEMMA JobsAborted ==
  ASSUME TypeOK, TypeOK', NEW cost \in [Job -> Nat], NEW j \in Job,
         delayed' = [delayed EXCEPT ![j] = 0], UNCHANGED ready
  PROVE  /\ InJobs(cost)' <= InJobs(cost) /\ InJobs(cost)' \in Int
         /\ delayed[j] = 1 => InJobs(cost)' = InJobs(cost) - cost[j]
<1>1. /\ \A k \in Job : k # j => Pending(k)' = Pending(k)
      /\ Pending(j) = delayed[j] + ready[j] /\ Pending(j)' = ready[j]
      /\ delayed[j] \in Nat /\ ready[j] \in Nat /\ cost[j] \in Nat
  BY DEF TypeOK, Pending
<1>2. /\ (delayed[j] + ready[j]) * cost[j] = delayed[j] * cost[j] + ready[j] * cost[j]
      /\ delayed[j] * cost[j] \in Nat /\ ready[j] * cost[j] \in Nat
      /\ delayed[j] = 1 => delayed[j] * cost[j] = cost[j]
  BY <1>1
<1>3. InJobs(cost)' = InJobs(cost) + Pending(j)' * cost[j] - Pending(j) * cost[j]
  BY <1>1, InJobsChange
<1>4. InJobs(cost) \in Nat
  BY WorthTyped
<1> QED
  BY ONLY <1>1, <1>2, <1>3, <1>4

\* What an abort gives back, half the price, is less than the job was worth.
LEMMA Refund ==
  ASSUME TypeOK, NEW c \in Nat
  PROVE  GivenOre(c \div 2) <= ore + c /\ GivenOre(c \div 2) \in Nat /\ money + c \div 2 <= money + c
<1>1. c \div 2 \in Nat /\ c \div 2 <= c
  OBVIOUS
<1>2. ore \in Nat /\ maxore \in Nat /\ money \in Nat
  BY DEF TypeOK
<1> QED
  BY <1>1, <1>2 DEF GivenOre

LEMMA WorthStep ==
  ASSUME TypeOK, TypeOK', Next, ~Overlap
  PROVE  \/ \E energy \in BOOLEAN : ProduceSave(energy)
         \/ /\ Worth(ore, OreCost)' <= Worth(ore, OreCost)
            /\ Worth(money, MoneyCost)' <= Worth(money, MoneyCost)
<1> DEFINE Kept == /\ Worth(ore, OreCost)' <= Worth(ore, OreCost)
                   /\ Worth(money, MoneyCost)' <= Worth(money, MoneyCost)
<1>0. /\ OreCost \in [Job -> Nat] /\ MoneyCost \in [Job -> Nat]
      /\ ore \in Nat /\ money \in Nat
      /\ InJobs(OreCost) \in Nat /\ InRows(OreCost) \in Nat
      /\ InJobs(MoneyCost) \in Nat /\ InRows(MoneyCost) \in Nat
  BY Constants, WorthTyped DEF TypeOK
<1>1. ASSUME ore' = ore, money' = money, InJobs(OreCost)' = InJobs(OreCost), rows' = rows,
             InJobs(MoneyCost)' = InJobs(MoneyCost)
      PROVE  Kept
  <2>1. InRows(OreCost)' = InRows(OreCost) /\ InRows(MoneyCost)' = InRows(MoneyCost)
    BY <1>1 DEF InRows
  <2> QED
    BY <1>0, <1>1, <2>1 DEF Worth
<1>2. ASSUME Claim PROVE Kept
  <2>1. \A j \in Instant : OreCost[j] = 0 /\ MoneyCost[j] = 0
    BY ConstructionAssumption DEF Instant
  <2>2. \A j \in Job : \/ Pending(j)' = Pending(j)
                       \/ Pending(j)' = Pending(j) + 1 /\ OreCost[j] = 0 /\ MoneyCost[j] = 0
    BY <1>2, <2>1 DEF Claim, TypeOK, Pending
  <2>3. \A j \in Job : /\ Pending(j) \in Nat
                       /\ Pending(j)' * OreCost[j] = Pending(j) * OreCost[j]
                       /\ Pending(j)' * MoneyCost[j] = Pending(j) * MoneyCost[j]
    BY <2>2, PendingIsNat
  <2>4. InJobs(OreCost)' = InJobs(OreCost) /\ InJobs(MoneyCost)' = InJobs(MoneyCost)
    BY <1>0, <2>3, InJobsSame
  <2> QED
    BY <1>1, <1>2, <2>4 DEF Claim
<1>3. ASSUME NEW t \in BType, CreateBuildingJob(t) PROVE Kept
  <2> DEFINE j == [type |-> t, level |-> NextLevel(t)]
  <2>1. j \in Job
    BY <1>3, OrderIsJob DEF CreateBuildingJob, Verifies
  <2>2. /\ ore' = ore - OreCost[j] /\ money' = money - MoneyCost[j]
        /\ delayed' = [delayed EXCEPT ![j] = @ + 1] /\ ready' = ready /\ rows' = rows
    BY <1>3 DEF CreateBuildingJob
  <2> HIDE DEF j
  <2>3. /\ InJobs(OreCost)' = InJobs(OreCost) + OreCost[j]
        /\ InJobs(MoneyCost)' = InJobs(MoneyCost) + MoneyCost[j]
    BY <1>0, <2>1, <2>2, OneJobMore
  <2>4. InRows(OreCost)' = InRows(OreCost) /\ InRows(MoneyCost)' = InRows(MoneyCost)
    BY <2>2 DEF InRows
  <2>5. OreCost[j] \in Nat /\ MoneyCost[j] \in Nat
    BY <1>0, <2>1
  <2> QED
    BY <1>0, <2>2, <2>3, <2>4, <2>5 DEF Worth
<1>4. ASSUME NEW j \in Job, Abort(j) PROVE Kept
  <2>1. /\ delayed' = [delayed EXCEPT ![j] = 0] /\ ready' = ready /\ rows' = rows
        /\ \/ /\ delayed[j] = 1 /\ ore' = GivenOre(OreCost[j] \div 2)
              /\ money' = money + MoneyCost[j] \div 2
           \/ ore' = ore /\ money' = money
    BY <1>4 DEF Abort
  <2>2. /\ InJobs(OreCost)' <= InJobs(OreCost) /\ InJobs(MoneyCost)' <= InJobs(MoneyCost)
        /\ delayed[j] = 1 => /\ InJobs(OreCost)' = InJobs(OreCost) - OreCost[j]
                             /\ InJobs(MoneyCost)' = InJobs(MoneyCost) - MoneyCost[j]
    BY <1>0, <2>1, JobsAborted
  <2>3. InRows(OreCost)' = InRows(OreCost) /\ InRows(MoneyCost)' = InRows(MoneyCost)
    BY <2>1 DEF InRows
  <2>4. OreCost[j] \in Nat /\ MoneyCost[j] \in Nat
    BY <1>0
  <2>5. /\ GivenOre(OreCost[j] \div 2) <= ore + OreCost[j] /\ GivenOre(OreCost[j] \div 2) \in Nat
        /\ money + MoneyCost[j] \div 2 <= money + MoneyCost[j]
        /\ MoneyCost[j] \div 2 \in Nat
    BY <2>4, Refund
  <2>6. InJobs(OreCost)' \in Int /\ InJobs(MoneyCost)' \in Int
    BY <1>0, <2>1, JobsAborted
  <2>7. CASE delayed[j] = 1 /\ ore' = GivenOre(OreCost[j] \div 2)
             /\ money' = money + MoneyCost[j] \div 2
    BY <1>0, <2>2, <2>3, <2>4, <2>5, <2>7 DEF Worth
  <2>8. CASE ore' = ore /\ money' = money
    BY <1>0, <2>2, <2>3, <2>6, <2>8 DEF Worth
  <2> QED
    BY <2>1, <2>7, <2>8
<1>5. ASSUME NEW j \in Job, BuildBuilding(j) PROVE Kept
  <2>1. /\ ready[j] > 0 /\ ready' = [ready EXCEPT ![j] = @ - 1] /\ delayed' = delayed
        /\ rows' = Built(j) /\ ore' = ore /\ money' = money
    BY <1>5 DEF BuildBuilding
  <2>2. /\ InJobs(OreCost)' = InJobs(OreCost) - OreCost[j]
        /\ InJobs(MoneyCost)' = InJobs(MoneyCost) - MoneyCost[j]
    BY <1>0, <2>1, OneJobLess
  <2>3. /\ InRows(OreCost)' \in {InRows(OreCost), InRows(OreCost) + OreCost[j]}
        /\ InRows(MoneyCost)' \in {InRows(MoneyCost), InRows(MoneyCost) + MoneyCost[j]}
    BY <1>0, <2>1, InRowsBuilt
  <2>4. OreCost[j] \in Nat /\ MoneyCost[j] \in Nat
    BY <1>0
  <2> QED
    BY ONLY <1>0, <2>1, <2>2, <2>3, <2>4 DEF Worth
<1>6. ASSUME NEW j \in Job, Release(j) PROVE Kept
  <2>1. \A k \in Job : Pending(k)' = Pending(k)
    BY <1>6 DEF Release, TypeOK, Pending
  <2>2. InJobs(OreCost)' = InJobs(OreCost) /\ InJobs(MoneyCost)' = InJobs(MoneyCost)
    BY <1>0, <2>1, InJobsSame
  <2> QED
    BY <1>1, <1>6, <2>2 DEF Release
<1>7. ASSUME ProduceLoad PROVE Kept
  <2>1. \A k \in Job : Pending(k)' = Pending(k)
    BY <1>7 DEF ProduceLoad, Pending
  <2>2. InJobs(OreCost)' = InJobs(OreCost) /\ InJobs(MoneyCost)' = InJobs(MoneyCost)
    BY <1>0, <2>1, InJobsSame
  <2> QED
    BY <1>1, <1>7, <2>2 DEF ProduceLoad
<1> QED
  BY <1>2, <1>3, <1>4, <1>5, <1>6, <1>7 DEF Next

\* Unless production overlaps a request or a job (planet.rb), no order, no abort and no
\* finished job leaves more ore or money, in stock, in jobs and in buildings, than there was.
THEOREM NothingMintedCorrect == Spec => NothingMinted
<1> DEFINE Step == \/ Overlap
                   \/ \E energy \in BOOLEAN : ProduceSave(energy)
                   \/ /\ Worth(ore, OreCost)' <= Worth(ore, OreCost)
                      /\ Worth(money, MoneyCost)' <= Worth(money, MoneyCost)
<1>1. TypeOK /\ TypeOK' /\ [Next]_vars => [Step]_vars
  BY WorthStep
<1>2. Spec => [][Step]_vars
  <2> HIDE DEF Step
  <2> QED
    BY <1>1, TypeCorrect, PTL DEF Spec
<1> QED
  BY <1>2 DEF NothingMinted

-----------------------------------------------------------------------------
\* Research.
BagOfTechs(jobs) ==
  DOMAIN jobs \subseteq Tech /\ \A t \in DOMAIN jobs : jobs[t] \in Nat \ {0}

UpgradeTyped(w) ==
  \/ w = NoUpgrade
  \/ /\ w = [tech |-> w.tech, loaded |-> w.loaded, stage |-> w.stage]
     /\ w.tech \in Tech /\ w.stage \in {"checked", "written"}

\* The types of all but money, of which nothing here is said.
Typed ==
  /\ pace \in {"prompt", "late"}
  /\ researching \in Tech \cup {NoTech}
  /\ rank \in [Tech -> Nat]
  /\ web = [r \in Request |-> web[r]] /\ \A r \in Request : UpgradeTyped(web[r])
  /\ BagOfTechs(delayedJobs) /\ BagOfTechs(readyJobs)

\* The pending jobs of a technology, delayed or due.
Copies(t, jobs) == IF t \in DOMAIN jobs THEN jobs[t] ELSE 0
Jobs(t) == Copies(t, delayedJobs) + Copies(t, readyJobs)

NoJobs == \A t \in Tech : Jobs(t) = 0

\* While nothing lags: one request at a time, and its stages between no job
\* before it and one job after it.  A technology in research, or about to be,
\* has not reached its highest rank.
Prompt ==
  /\ \A r, q \in Request : web[r] # NoUpgrade /\ web[q] # NoUpgrade => r = q
  /\ \A r \in Request : web[r] # NoUpgrade =>
       /\ NoJobs
       /\ rank[web[r].tech] # MaxRank[web[r].tech]
       /\ web[r].stage = "checked" => researching = NoTech
       /\ web[r].stage = "written" => researching = web[r].tech
  /\ (\A r \in Request : web[r] = NoUpgrade) =>
       \A t \in Tech : Jobs(t) = IF researching = t THEN 1 ELSE 0
  /\ researching # NoTech => rank[researching] # MaxRank[researching]
  /\ RankBounded

ResearchInv == Typed /\ ResearchHasJob /\ (~Lagging => Prompt)
-----------------------------------------------------------------------------
LEMMA ResearchConstants ==
  /\ NoTech \notin Tech
  /\ MaxRank \in [Tech -> Nat \ {0}]
  BY ResearchAssumption

\* The recursive function Factor is one: 1.5 ** n has positive parts.
LEMMA FactorPositive ==
  \A n \in Nat : Factor[n].num \in Nat \ {0} /\ Factor[n].den \in Nat \ {0}
<1> DEFINE One == [num |-> 1, den |-> 1]
           Step(p) == [num |-> 3 * p.num, den |-> 2 * p.den]
           Chained(g, k) == \A i \in 0 .. k : g[i] = IF i = 0 THEN One ELSE Step(g[i - 1])
           G(k) == CHOOSE g : Chained(g, k)
           F == [n \in Nat |-> G(n)[n]]
<1> HIDE DEF One, Step
<1>1. \A k \in Nat : \E g : Chained(g, k)
  <2> DEFINE P == {k \in Nat : \E g : Chained(g, k)}
  <2>1. 0 \in P
    <3>1. Chained([i \in 0 .. 0 |-> One], 0)
      OBVIOUS
    <3> QED
      BY <3>1
  <2>2. ASSUME NEW k \in Nat, k \in P PROVE k + 1 \in P
    <3>1. PICK g : Chained(g, k)
      BY <2>2
    <3> DEFINE h == [i \in 0 .. k + 1 |-> IF i = 0 THEN One ELSE Step(g[i - 1])]
    <3>2. \A i \in 0 .. k : h[i] = g[i]
      BY <3>1
    <3>3. Chained(h, k + 1)
      <4> SUFFICES ASSUME NEW i \in 0 .. k + 1, i # 0 PROVE h[i] = Step(h[i - 1])
        OBVIOUS
      <4>1. h[i - 1] = g[i - 1] /\ h[i] = Step(g[i - 1])
        BY <3>2
      <4> HIDE DEF h
      <4> QED
        BY <4>1
    <3> HIDE DEF h, Chained
    <3> QED
      BY <3>3
  <2> HIDE DEF P
  <2>3. Nat \subseteq P
    BY <2>1, <2>2, NatSetInduction
  <2> QED
    BY <2>3 DEF P
<1>2. \A k \in Nat : Chained(G(k), k)
  BY <1>1
<1>3. ASSUME NEW k \in Nat PROVE G(k + 1)[k] = G(k)[k]
  <2> DEFINE P == {i \in Nat : i <= k => G(k + 1)[i] = G(k)[i]}
             a == G(k + 1)
             b == G(k)
  <2>1. Chained(a, k + 1) /\ Chained(b, k)
    BY <1>2
  <2> HIDE DEF G
  <2>2. 0 \in P
    BY <2>1
  <2>3. ASSUME NEW i \in Nat, i \in P PROVE i + 1 \in P
    <3>1. CASE i + 1 <= k
      <4>1. a[i] = b[i]
        BY <2>3, <3>1
      <4>2. a[i + 1] = Step(a[i]) /\ b[i + 1] = Step(b[i])
        BY <2>1, <3>1
      <4> QED
        BY <4>1, <4>2
    <3>2. CASE ~ (i + 1 <= k)
      BY <3>2
    <3> QED
      BY <3>1, <3>2
  <2> HIDE DEF P
  <2>4. k \in P
    BY <2>2, <2>3, NatSetInduction
  <2> QED
    BY <2>4 DEF P
<1>4. F = [n \in Nat |-> IF n = 0 THEN One ELSE Step(F[n - 1])]
  <2>1. ASSUME NEW n \in Nat PROVE F[n] = IF n = 0 THEN One ELSE Step(F[n - 1])
    <3>1. CASE n = 0
      BY <1>2, <3>1
    <3>2. CASE n # 0
      <4>1. n - 1 \in Nat /\ (n - 1) + 1 = n
        BY <3>2
      <4>2. G(n)[n] = Step(G(n)[n - 1])
        <5>1. Chained(G(n), n)
          BY <1>2
        <5> HIDE DEF G
        <5> QED
          BY <3>2, <5>1
      <4>3. G(n)[n - 1] = G(n - 1)[n - 1]
        <5> HIDE DEF G
        <5>1. G((n - 1) + 1)[n - 1] = G(n - 1)[n - 1]
          BY <1>3, <4>1
        <5> QED
          BY <4>1, <5>1
      <4>4. F[n] = G(n)[n] /\ F[n - 1] = G(n - 1)[n - 1]
        BY <4>1
      <4> HIDE DEF F, G
      <4> QED
        BY <3>2, <4>2, <4>3, <4>4
    <3> QED
      BY <3>1, <3>2
  <2> QED
    BY <2>1
<1>5. Factor = [n \in Nat |-> IF n = 0 THEN One ELSE Step(Factor[n - 1])]
  <2> HIDE DEF F
  <2> QED
    BY <1>4 DEF Factor, One, Step
<1> DEFINE P == {n \in Nat : Factor[n].num \in Nat \ {0} /\ Factor[n].den \in Nat \ {0}}
<1>6. 0 \in P
  BY <1>5 DEF One
<1>7. ASSUME NEW n \in Nat, n \in P PROVE n + 1 \in P
  <2>1. Factor[n + 1] = Step(Factor[n])
    BY <1>5
  <2> QED
    BY <1>7, <2>1 DEF Step
<1> HIDE DEF P
<1>8. Nat \subseteq P
  BY <1>6, <1>7, NatSetInduction
<1> QED
  BY <1>8 DEF P

\* Every rank has its price.
LEMMA CostTyped ==
  \A t \in Tech, n \in Nat : CostAt(t, n) \in Nat
<1> SUFFICES ASSUME NEW t \in Tech, NEW n \in Nat PROVE CostAt(t, n) \in Nat
  OBVIOUS
<1> DEFINE num == Factor[n].num
           den == Factor[n].den
<1>1. num \in Nat /\ den \in Nat \ {0} /\ BaseCost[t] \in Nat
  BY FactorPositive, ResearchAssumption
<1>2. 2 * BaseCost[t] * num + den \in Nat /\ 2 * den \in Nat \ {0}
  <2> HIDE DEF num, den
  <2>1. 2 * BaseCost[t] \in Nat
    BY <1>1
  <2>2. 2 * BaseCost[t] * num \in Nat
    BY <1>1, <2>1
  <2> QED
    BY <1>1, <2>2
<1>3. (2 * BaseCost[t] * num + den) \div (2 * den) \in Nat
  <2> DEFINE a == 2 * BaseCost[t] * num + den
             b == 2 * den
  <2>1. a \in Nat /\ b \in Nat \ {0}
    BY <1>2
  <2> HIDE DEF a, b
  <2>2. a \div b \in Nat
    BY <2>1
  <2> QED
    BY <2>2 DEF a, b
<1> QED
  BY <1>3 DEF CostAt

\* One job more, one job less.
LEMMA AddJob ==
  ASSUME NEW B, NEW C, BagOfTechs(B), NEW t \in Tech, C = B (+) SetToBag({t})
  PROVE  /\ BagOfTechs(C)
         /\ \A s \in Tech : Copies(s, C) = Copies(s, B) + IF s = t THEN 1 ELSE 0
<1> DEFINE D == B (+) SetToBag({t})
<1>1. /\ DOMAIN D = DOMAIN B \cup {t}
      /\ \A s \in DOMAIN D : D[s] = (IF s \in DOMAIN B THEN B[s] ELSE 0) + IF s = t THEN 1 ELSE 0
  BY DEF (+), SetToBag
<1>2. C = D
  OBVIOUS
<1> HIDE DEF D
<1>3. BagOfTechs(D)
  BY ONLY BagOfTechs(B), t \in Tech, <1>1 DEF BagOfTechs
<1>4. \A s \in Tech : Copies(s, D) = Copies(s, B) + IF s = t THEN 1 ELSE 0
  BY ONLY BagOfTechs(B), t \in Tech, <1>1 DEF BagOfTechs, Copies
<1> QED
  BY ONLY <1>2, <1>3, <1>4

LEMMA RemoveJob ==
  ASSUME NEW B, NEW C, BagOfTechs(B), NEW t \in DOMAIN B, C = B (-) SetToBag({t})
  PROVE  /\ BagOfTechs(C)
         /\ \A s \in Tech : Copies(s, C) = Copies(s, B) - IF s = t THEN 1 ELSE 0
<1> DEFINE D == B (-) SetToBag({t})
<1>1. DOMAIN D = {s \in DOMAIN B : B[s] - (IF s = t THEN 1 ELSE 0) > 0}
  BY DEF (-), SetToBag, BagOfTechs
<1>2. \A s \in DOMAIN D : D[s] = B[s] - IF s = t THEN 1 ELSE 0
  BY DEF (-), SetToBag, BagOfTechs
<1>3. C = D
  OBVIOUS
<1> HIDE DEF D
<1>4. BagOfTechs(D)
  BY ONLY BagOfTechs(B), t \in DOMAIN B, <1>1, <1>2 DEF BagOfTechs
<1>5. \A s \in Tech : Copies(s, D) = Copies(s, B) - IF s = t THEN 1 ELSE 0
  BY ONLY BagOfTechs(B), t \in DOMAIN B, <1>1, <1>2 DEF BagOfTechs, Copies
<1> QED
  BY ONLY <1>3, <1>4, <1>5

\* The pending jobs D and R, counted, and as the bag of the properties.
LEMMA PendingBag ==
  ASSUME NEW D, NEW R, BagOfTechs(D), BagOfTechs(R)
  PROVE  /\ \A t \in Tech : /\ Copies(t, D) \in Nat /\ Copies(t, R) \in Nat
                            /\ t \in DOMAIN D \cup DOMAIN R <=> Copies(t, D) + Copies(t, R) > 0
                            /\ BagIn(t, D (+) R) <=> Copies(t, D) + Copies(t, R) > 0
         /\ D (+) R = EmptyBag <=> \A t \in Tech : Copies(t, D) + Copies(t, R) = 0
         /\ \A s \in Tech :
              (\A t \in Tech : Copies(t, D) + Copies(t, R) = IF t = s THEN 1 ELSE 0)
                => D (+) R = SetToBag({s})
<1> DEFINE B == D (+) R
<1> DEFINE N(t) == Copies(t, D) + Copies(t, R)
<1>0. \A t \in Tech : Copies(t, D) \in Nat /\ Copies(t, R) \in Nat
  BY DEF BagOfTechs, Copies
<1>1. /\ DOMAIN B = DOMAIN D \cup DOMAIN R
      /\ B = [t \in DOMAIN B |-> N(t)]
  BY DEF (+), Copies
<1>2. DOMAIN B \subseteq Tech
  BY <1>1 DEF BagOfTechs
<1>3. \A t \in Tech : t \in DOMAIN B <=> N(t) > 0
  BY <1>1 DEF BagOfTechs, Copies
<1> HIDE DEF B, N
<1>4. \A t \in Tech : BagIn(t, B) <=> N(t) > 0
  BY <1>3 DEF BagIn, BagToSet
<1>5. B = EmptyBag <=> \A t \in Tech : N(t) = 0
  <2>1. (\A t \in Tech : N(t) = 0) => DOMAIN B = {}
    <3>1. \A t \in Tech : N(t) = 0 => ~ (N(t) > 0)
      BY SMT
    <3> QED
      BY <1>2, <1>3, <3>1
  <2>2. DOMAIN B = {} => B = EmptyBag
    BY <1>1 DEF EmptyBag, SetToBag
  <2>3. B = EmptyBag => DOMAIN B = {}
    BY DEF EmptyBag, SetToBag
  <2>4. DOMAIN B = {} => \A t \in Tech : N(t) = 0
    BY <1>0, <1>3 DEF N
  <2> QED
    BY <2>1, <2>2, <2>3, <2>4
<1>6. ASSUME NEW s \in Tech, \A t \in Tech : N(t) = IF t = s THEN 1 ELSE 0
      PROVE  B = SetToBag({s})
  <2>1. DOMAIN B = {s}
    BY <1>2, <1>3, <1>6
  <2>2. B = [t \in {s} |-> 1]
    BY <1>1, <1>6, <2>1
  <2> QED
    BY <2>2 DEF SetToBag
<1> QED
  BY <1>0, <1>1, <1>3, <1>4, <1>5, <1>6 DEF B, N

LEMMA JobsAre ==
  ASSUME Typed
  PROVE  /\ \A t \in Tech : /\ Jobs(t) \in Nat
                            /\ t \in DOMAIN delayedJobs \cup DOMAIN readyJobs <=> Jobs(t) > 0
         /\ delayedJobs (+) readyJobs = EmptyBag <=> NoJobs
<1>1. BagOfTechs(delayedJobs) /\ BagOfTechs(readyJobs)
  BY DEF Typed
<1>2. /\ \A t \in Tech : /\ Copies(t, delayedJobs) \in Nat /\ Copies(t, readyJobs) \in Nat
                         /\ t \in DOMAIN delayedJobs \cup DOMAIN readyJobs
                              <=> Copies(t, delayedJobs) + Copies(t, readyJobs) > 0
      /\ delayedJobs (+) readyJobs = EmptyBag
           <=> \A t \in Tech : Copies(t, delayedJobs) + Copies(t, readyJobs) = 0
  BY <1>1, PendingBag
<1> QED
  BY <1>2 DEF Jobs, NoJobs

\* The properties are what the invariant says of the jobs.
LEMMA InvGives == ResearchInv => JobOfResearch /\ ResearchHasJob /\ PromptRankBounded
<1> SUFFICES ASSUME ResearchInv PROVE JobOfResearch /\ PromptRankBounded
  BY DEF ResearchInv
<1>1. PromptRankBounded
  BY DEF ResearchInv, Prompt, PromptRankBounded
<1>2. ASSUME ~Lagging, \A r \in Request : web[r] = NoUpgrade
      PROVE  delayedJobs (+) readyJobs = IF researching = NoTech THEN EmptyBag ELSE SetToBag({researching})
  <2>1. \A t \in Tech : Jobs(t) = IF researching = t THEN 1 ELSE 0
    BY <1>2 DEF ResearchInv, Prompt
  <2>2. CASE researching = NoTech
    BY <2>1, <2>2, ResearchConstants, PendingBag DEF ResearchInv, Typed, Jobs
  <2>3. CASE researching \in Tech
    <3>1. \A t \in Tech : Copies(t, delayedJobs) + Copies(t, readyJobs) = IF t = researching THEN 1 ELSE 0
      BY <2>1 DEF Jobs
    <3> QED
      BY <2>3, <3>1, ResearchConstants, PendingBag DEF ResearchInv, Typed
  <2> QED
    BY <2>2, <2>3 DEF ResearchInv, Typed
<1> QED
  BY <1>1, <1>2 DEF JobOfResearch
-----------------------------------------------------------------------------
\* Neither the research, the ranks, the requests nor the number of jobs changes.
LEMMA SameResearch ==
  ASSUME ResearchInv, UNCHANGED <<pace, researching, rank, web>>,
         BagOfTechs(delayedJobs'), BagOfTechs(readyJobs'),
         \A t \in Tech : Jobs(t)' = Jobs(t)
  PROVE  ResearchInv'
<1>1. Typed'
  BY DEF ResearchInv, Typed, BagOfTechs
<1>2. \A t \in Tech : BagIn(t, delayedJobs (+) readyJobs) <=> Jobs(t) > 0
  BY PendingBag DEF ResearchInv, Typed, Jobs
<1>3. \A t \in Tech : BagIn(t, delayedJobs' (+) readyJobs') <=> Jobs(t)' > 0
  BY PendingBag DEF Jobs
<1>4. ResearchHasJob'
  BY <1>2, <1>3 DEF ResearchInv, ResearchHasJob, Typed
<1>5. ~Lagging => Prompt'
  BY DEF ResearchInv, Lagging, Prompt, NoJobs, RankBounded
<1> QED
  BY <1>1, <1>4, <1>5 DEF ResearchInv, Lagging

LEMMA ResearchStep == ResearchInv /\ [ResearchNext]_researchVars => ResearchInv'
<1> SUFFICES ASSUME ResearchInv, [ResearchNext]_researchVars PROVE ResearchInv'
  OBVIOUS
<1>0. Typed /\ ResearchHasJob /\ (~Lagging => Prompt) /\ pace' = pace
  BY DEF ResearchInv, ResearchNext, researchVars, Check, Write, Enqueue, AbortTechnology, UpdateUservalues, ReleaseResearch,
     Income, BuildLab
<1>1. Lagging' <=> Lagging
  BY <1>0 DEF Lagging
<1>2. \A t \in Tech : /\ Jobs(t) \in Nat
                      /\ t \in DOMAIN delayedJobs \cup DOMAIN readyJobs <=> Jobs(t) > 0
  BY <1>0, JobsAre
<1>3. \A t \in Tech : BagIn(t, delayedJobs (+) readyJobs) <=> Jobs(t) > 0
  BY <1>0, PendingBag DEF Typed, Jobs
<1>4. SUFFICES Typed' /\ ResearchHasJob' /\ (~Lagging => Prompt')
  BY <1>1 DEF ResearchInv
<1>5. ASSUME NEW r \in Request, NEW t \in Tech, Check(r, t)
      PROVE  Typed' /\ ResearchHasJob' /\ (~Lagging => Prompt')
  <2> DEFINE new == [tech |-> t, loaded |-> balance, stage |-> "checked"]
  <2>1. /\ web[r] = NoUpgrade /\ rank[t] # MaxRank[t] /\ researching = NoTech
        /\ web' = [web EXCEPT ![r] = new]
        /\ UNCHANGED <<pace, researching, rank, delayedJobs, readyJobs>>
        /\ RequestsKeepUp
    BY <1>5 DEF Check, TechnologyRequire
  <2>2. UpgradeTyped(new) /\ new # NoUpgrade /\ new.tech = t /\ new.stage = "checked"
    BY DEF UpgradeTyped, NoUpgrade
  <2> HIDE DEF new
  <2>3. web'[r] = new /\ DOMAIN web' = Request /\ \A q \in Request : q # r => web'[q] = web[q]
    BY <1>0, <2>1 DEF Typed
  <2>4. Typed'
    BY <1>0, <2>1, <2>2, <2>3 DEF Typed
  <2>5. ResearchHasJob'
    BY <2>1 DEF ResearchHasJob
  <2>6. ASSUME ~Lagging PROVE Prompt'
    <3>1. Prompt /\ \A q \in Request : web[q] = NoUpgrade
      BY <1>0, <2>1, <2>6 DEF RequestsKeepUp
    <3>2. NoJobs
      BY <2>1, <3>1, ResearchConstants DEF Prompt, NoJobs
    <3>3. NoJobs' /\ RankBounded'
      BY <2>1, <3>1, <3>2 DEF NoJobs, Jobs, RankBounded, Prompt
    <3> QED
      BY <2>1, <2>2, <2>3, <3>1, <3>3 DEF Prompt
  <2> QED
    BY <2>4, <2>5, <2>6
<1>6. ASSUME NEW r \in Request, Write(r)
      PROVE  Typed' /\ ResearchHasJob' /\ (~Lagging => Prompt')
  <2> DEFINE new == [web[r] EXCEPT !.stage = "written"]
  <2>1. /\ web[r].stage = "checked" /\ researching' = web[r].tech
        /\ web' = [web EXCEPT ![r] = new]
        /\ UNCHANGED <<pace, rank, delayedJobs, readyJobs>>
    BY <1>6 DEF Write
  <2>2. web[r] # NoUpgrade
    BY <2>1 DEF NoUpgrade
  <2>3. web[r].tech \in Tech /\ web[r] = [tech |-> web[r].tech, loaded |-> web[r].loaded,
                                          stage |-> web[r].stage]
    BY <1>0, <2>2 DEF Typed, UpgradeTyped
  <2>4. new = [tech |-> web[r].tech, loaded |-> web[r].loaded, stage |-> "written"]
    BY <2>3
  <2>5. UpgradeTyped(new) /\ new # NoUpgrade /\ new.tech = web[r].tech /\ new.stage = "written"
    BY <2>3, <2>4 DEF UpgradeTyped, NoUpgrade
  <2> HIDE DEF new
  <2>6. web'[r] = new /\ DOMAIN web' = Request /\ \A q \in Request : q # r => web'[q] = web[q]
    BY <1>0, <2>1 DEF Typed
  <2>7. Typed'
    BY <1>0, <2>1, <2>3, <2>5, <2>6 DEF Typed
  <2>8. ResearchHasJob'
    BY <2>1, <2>5, <2>6 DEF ResearchHasJob
  <2>9. ASSUME ~Lagging PROVE Prompt'
    <3>1. Prompt
      BY <1>0, <2>9
    <3>2. NoJobs' /\ RankBounded' /\ rank'[web[r].tech] # MaxRank[web[r].tech]
      BY <2>1, <2>2, <3>1 DEF NoJobs, Jobs, RankBounded, Prompt
    <3>3. \A q \in Request : q # r => web'[q] = NoUpgrade
      BY <2>2, <2>6, <3>1 DEF Prompt
    <3> QED
      BY <2>1, <2>5, <2>6, <3>2, <3>3 DEF Prompt
  <2> QED
    BY <2>7, <2>8, <2>9
<1>7. ASSUME NEW r \in Request, Enqueue(r)
      PROVE  Typed' /\ ResearchHasJob' /\ (~Lagging => Prompt')
  <2> DEFINE t == web[r].tech
  <2>1. /\ web[r].stage = "written" /\ delayedJobs' = delayedJobs (+) SetToBag({t})
        /\ web' = [web EXCEPT ![r] = NoUpgrade]
        /\ UNCHANGED <<pace, researching, rank, readyJobs>>
    BY <1>7 DEF Enqueue
  <2>2. web[r] # NoUpgrade
    BY <2>1 DEF NoUpgrade
  <2>3. t \in Tech
    BY <1>0, <2>2 DEF Typed, UpgradeTyped
  <2> HIDE DEF t
  <2>4. BagOfTechs(delayedJobs') /\ \A s \in Tech : Jobs(s)' = Jobs(s) + IF s = t THEN 1 ELSE 0
    <3>1. /\ BagOfTechs(delayedJobs')
          /\ \A s \in Tech : Copies(s, delayedJobs') = Copies(s, delayedJobs) + IF s = t THEN 1 ELSE 0
      <4>1. BagOfTechs(delayedJobs)
        BY <1>0 DEF Typed
      <4>2. delayedJobs' = delayedJobs (+) SetToBag({t})
        BY <2>1
      <4> QED
        BY ONLY <4>1, <4>2, <2>3, AddJob
    <3>2. \A s \in Tech : Copies(s, delayedJobs) \in Nat /\ Copies(s, readyJobs) \in Nat
      BY <1>0, PendingBag DEF Typed
    <3>3. readyJobs' = readyJobs
      BY <2>1
    <3> QED
      BY ONLY <3>1, <3>2, <3>3 DEF Jobs
  <2>5. web'[r] = NoUpgrade /\ DOMAIN web' = Request /\ \A q \in Request : q # r => web'[q] = web[q]
    BY <1>0, <2>1 DEF Typed
  <2>6. Typed'
    <3>1. BagOfTechs(readyJobs')
      BY <1>0, <2>1 DEF Typed
    <3> QED
      BY <1>0, <2>1, <2>4, <2>5, <3>1 DEF Typed, UpgradeTyped
  <2>7. \A s \in Tech : BagIn(s, delayedJobs' (+) readyJobs') <=> Jobs(s)' > 0
    BY <2>6, PendingBag DEF Typed, Jobs
  <2>8. ResearchHasJob'
    <3> SUFFICES ASSUME researching # NoTech
                 PROVE  \/ BagIn(researching, delayedJobs' (+) readyJobs')
                        \/ \E q \in Request : web'[q].stage = "written" /\ web'[q].tech = researching
      BY <2>1 DEF ResearchHasJob
    <3>1. researching \in Tech
      BY <1>0 DEF Typed
    <3>2. CASE BagIn(researching, delayedJobs (+) readyJobs)
      BY <1>2, <1>3, <2>4, <2>7, <3>1, <3>2
    <3>3. ASSUME NEW q \in Request, web[q].stage = "written", web[q].tech = researching, q # r
          PROVE  \E k \in Request : web'[k].stage = "written" /\ web'[k].tech = researching
      BY <2>5, <3>3
    <3>4. CASE t = researching
      BY <1>2, <2>4, <2>7, <3>1, <3>4
    <3> QED
      BY <1>0, <3>2, <3>3, <3>4 DEF ResearchHasJob, t
  <2>9. ASSUME ~Lagging PROVE Prompt'
    <3>1. Prompt
      BY <1>0, <2>9
    <3>2. \A q \in Request : web'[q] = NoUpgrade
      BY <2>2, <2>5, <3>1 DEF Prompt
    <3>3. NoJobs /\ researching = t /\ rank[t] # MaxRank[t]
      BY <2>1, <2>2, <3>1 DEF Prompt, t
    <3>4. \A s \in Tech : Jobs(s)' = IF researching = s THEN 1 ELSE 0
      BY <2>4, <3>3 DEF NoJobs
    <3>5. RankBounded'
      BY <2>1, <3>1 DEF Prompt, RankBounded
    <3> QED
      BY <2>1, <3>2, <3>3, <3>4, <3>5 DEF Prompt
  <2> QED
    BY <2>6, <2>8, <2>9
<1>8. ASSUME NEW t \in Tech, AbortTechnology(t)
      PROVE  Typed' /\ ResearchHasJob' /\ (~Lagging => Prompt')
  <2>1. /\ RequestsKeepUp /\ (~Lagging => t = researching) /\ researching' = NoTech
        /\ delayedJobs' = [s \in DOMAIN delayedJobs \ {t} |-> delayedJobs[s]]
        /\ UNCHANGED <<pace, rank, web, readyJobs>>
    BY <1>8 DEF AbortTechnology
  <2>2. BagOfTechs(delayedJobs') /\ BagOfTechs(readyJobs')
    BY <1>0, <2>1 DEF Typed, BagOfTechs
  <2>3. Typed' /\ ResearchHasJob'
    BY <1>0, <2>1, <2>2 DEF Typed, ResearchHasJob
  <2>4. ASSUME ~Lagging PROVE Prompt'
    <3>1. Prompt /\ readyJobs = EmptyBag /\ \A q \in Request : web[q] = NoUpgrade
      BY <1>0, <2>1, <2>4 DEF RequestsKeepUp
    <3>2. \A s \in Tech : s # t => Jobs(s) = 0
      BY <2>1, <2>4, <3>1 DEF Prompt
    <3>3. \A s \in Tech : Jobs(s)' = 0
      <4>1. DOMAIN readyJobs = {}
        BY <3>1 DEF EmptyBag, SetToBag
      <4>2. \A s \in Tech : s # t => s \notin DOMAIN delayedJobs
        BY <1>2, <3>2
      <4>3. DOMAIN delayedJobs' = {}
        BY <1>0, <2>1, <4>2 DEF Typed, BagOfTechs
      <4> QED
        BY <2>1, <4>1, <4>3 DEF Jobs, Copies
    <3>4. RankBounded'
      BY <2>1, <3>1 DEF Prompt, RankBounded
    <3> QED
      BY <2>1, <3>1, <3>3, <3>4, ResearchConstants DEF Prompt
  <2> QED
    BY <2>3, <2>4
<1>9. ASSUME NEW t \in DOMAIN readyJobs, UpdateUservalues(t)
      PROVE  Typed' /\ ResearchHasJob' /\ (~Lagging => Prompt')
  <2>1. /\ t \in Tech /\ readyJobs' = readyJobs (-) SetToBag({t})
        /\ rank' = [rank EXCEPT ![t] = @ + 1] /\ researching' = NoTech
        /\ UNCHANGED <<pace, web, delayedJobs>>
    BY <1>0, <1>9 DEF UpdateUservalues, Typed, BagOfTechs
  <2>2. BagOfTechs(readyJobs') /\ \A s \in Tech : Jobs(s)' = Jobs(s) - IF s = t THEN 1 ELSE 0
    <3>1. /\ BagOfTechs(readyJobs')
          /\ \A s \in Tech : Copies(s, readyJobs') = Copies(s, readyJobs) - IF s = t THEN 1 ELSE 0
      <4>1. BagOfTechs(readyJobs)
        BY <1>0 DEF Typed
      <4>2. readyJobs' = readyJobs (-) SetToBag({t})
        BY <2>1
      <4> QED
        BY ONLY <4>1, <4>2, t \in DOMAIN readyJobs, RemoveJob
    <3>2. \A s \in Tech : Copies(s, delayedJobs) \in Nat /\ Copies(s, readyJobs) \in Nat
      BY <1>0, PendingBag DEF Typed
    <3>3. delayedJobs' = delayedJobs
      BY <2>1
    <3> QED
      BY ONLY <3>1, <3>2, <3>3 DEF Jobs
  <2>3. Typed' /\ ResearchHasJob'
    <3>1. BagOfTechs(delayedJobs')
      BY <1>0, <2>1 DEF Typed
    <3>2. rank' \in [Tech -> Nat]
      BY <1>0, <2>1 DEF Typed
    <3> QED
      BY <1>0, <2>1, <2>2, <3>1, <3>2 DEF Typed, ResearchHasJob
  <2>4. ASSUME ~Lagging PROVE Prompt'
    <3>1. Prompt /\ Jobs(t) > 0
      BY <1>0, <1>2, <2>1, <2>4
    <3>2. \A q \in Request : web[q] = NoUpgrade
      BY <1>2, <2>1, <3>1 DEF Prompt, NoJobs
    <3>3. researching = t /\ \A s \in Tech : Jobs(s) = IF s = t THEN 1 ELSE 0
      BY <2>1, <3>1, <3>2 DEF Prompt
    <3>4. \A s \in Tech : Jobs(s)' = 0
      BY <2>2, <3>3
    <3>5. RankBounded'
      <4>1. rank[t] <= MaxRank[t] /\ rank[t] # MaxRank[t] /\ rank[t] \in Nat /\ MaxRank[t] \in Nat
        BY <1>0, <2>1, <3>1, <3>3, ResearchConstants DEF Prompt, RankBounded, Typed
      <4>2. rank'[t] <= MaxRank[t]
        BY <1>0, <2>1, <4>1 DEF Typed
      <4> QED
        BY <1>0, <2>1, <3>1, <4>2 DEF Typed, Prompt, RankBounded
    <3> QED
      BY <2>1, <3>2, <3>4, <3>5, ResearchConstants DEF Prompt
  <2> QED
    BY <2>3, <2>4
<1>10. ASSUME NEW t \in DOMAIN delayedJobs, ReleaseResearch(t) PROVE ResearchInv'
  <2>1. /\ t \in Tech /\ delayedJobs' = delayedJobs (-) SetToBag({t}) /\ readyJobs' = readyJobs (+) SetToBag({t})
        /\ UNCHANGED <<pace, researching, rank, web>>
    BY <1>0, <1>10 DEF ReleaseResearch, Typed, BagOfTechs
  <2>2. /\ BagOfTechs(delayedJobs') /\ BagOfTechs(readyJobs')
        /\ \A s \in Tech : /\ Copies(s, delayedJobs') = Copies(s, delayedJobs) - IF s = t THEN 1 ELSE 0
                           /\ Copies(s, readyJobs') = Copies(s, readyJobs) + IF s = t THEN 1 ELSE 0
    BY <1>0, <2>1, AddJob, RemoveJob DEF Typed
  <2>3. \A s \in Tech : Copies(s, delayedJobs) \in Nat /\ Copies(s, readyJobs) \in Nat
    BY <1>0, PendingBag DEF Typed
  <2>4. \A s \in Tech : Jobs(s)' = Jobs(s)
    BY <2>2, <2>3 DEF Jobs
  <2> QED
    BY <2>1, <2>2, <2>4, SameResearch
<1>11. ASSUME UNCHANGED <<pace, researching, rank, web, delayedJobs, readyJobs>> PROVE ResearchInv'
  <2>1. BagOfTechs(delayedJobs') /\ BagOfTechs(readyJobs') /\ \A s \in Tech : Jobs(s)' = Jobs(s)
    BY <1>0, <1>11 DEF Typed, Jobs
  <2> QED
    BY <1>11, <2>1, SameResearch
<1>12. CASE Income \/ BuildLab \/ UNCHANGED researchVars
  BY <1>11, <1>12 DEF Income, BuildLab, researchVars, ResearchInv, Lagging
<1>13. ResearchInv' => Typed' /\ ResearchHasJob' /\ (~Lagging => Prompt')
  BY <1>1 DEF ResearchInv
<1>14. CASE ResearchNext
  <2>1. CASE \E r \in Request : \E t \in Tech : Check(r, t)
    BY <1>5, <2>1
  <2>2. CASE \E r \in Request : Write(r) \/ Enqueue(r)
    BY <1>6, <1>7, <2>2
  <2>3. CASE \E t \in Tech : AbortTechnology(t)
    BY <1>8, <2>3
  <2>4. CASE \E t \in DOMAIN readyJobs : UpdateUservalues(t)
    BY <1>9, <2>4
  <2>5. CASE \E t \in DOMAIN delayedJobs : ReleaseResearch(t)
    BY <1>10, <1>13, <2>5
  <2>6. CASE Income \/ BuildLab
    BY <1>12, <1>13, <2>6
  <2> QED
    BY <1>14, <2>1, <2>2, <2>3, <2>4, <2>5, <2>6 DEF ResearchNext
<1> QED
  BY <1>12, <1>13, <1>14

LEMMA ResearchInvInit == ResearchInit => ResearchInv
<1> SUFFICES ASSUME ResearchInit PROVE ResearchInv
  OBVIOUS
<1>1. DOMAIN delayedJobs = {} /\ DOMAIN readyJobs = {}
  BY DEF ResearchInit, EmptyBag, SetToBag
<1>2. Typed
  BY <1>1 DEF ResearchInit, Typed, BagOfTechs, UpgradeTyped
<1>3. \A t \in Tech : Jobs(t) = 0
  BY <1>1 DEF Jobs, Copies
<1>4. Prompt
  BY <1>3, ResearchConstants DEF ResearchInit, Prompt, RankBounded
<1> QED
  BY <1>2, <1>4 DEF ResearchInit, ResearchInv, ResearchHasJob

LEMMA ResearchInvCorrect == ResearchSpec => []ResearchInv
  BY ResearchInvInit, ResearchStep, PTL DEF ResearchSpec

\* However jobs, pages and requests lag, the research of a user has a job, or a request
\* about to queue it, that ends it (upgrade_technology, abort_technology).
THEOREM ResearchHasJobCorrect == ResearchSpec => []ResearchHasJob
<1>1. ResearchInv => ResearchHasJob
  BY DEF ResearchInv
<1> QED
  BY <1>1, ResearchInvCorrect, PTL

\* While nothing lags, the pending job is that of the research shown, and no technology
\* goes beyond its highest rank (technology_require?, update_uservalues).
THEOREM PromptResearchCorrect == ResearchSpec => [](JobOfResearch /\ PromptRankBounded)
<1>1. ResearchInv => JobOfResearch /\ PromptRankBounded
  BY InvGives
<1> QED
  BY <1>1, ResearchInvCorrect, PTL
-----------------------------------------------------------------------------
\* What the ranks reached have cost, without the research in progress.
RanksWorth == SumFunction([t \in Tech |-> RanksCost(t)])

\* Types of the rest, and the balance.  While nothing lags, a request that has
\* checked has loaded no more money than there is, and enough for the price.
MoneyInv ==
  /\ balance \in IF Lagging THEN Int ELSE Nat
  /\ lab \in 0 .. MaxLab /\ shown \subseteq Tech /\ earned \in 0 .. MaxEarned
  /\ \A r \in Request : web[r] # NoUpgrade => web[r].loaded \in Int
  /\ RanksPaid
  /\ ~Lagging => \A r \in Request : web[r].stage = "checked" =>
                /\ web[r].loaded <= balance
                /\ CostAt(web[r].tech, rank[web[r].tech]) <= web[r].loaded

LEMMA RanksCostTyped ==
  ASSUME NEW t \in Tech, NEW n \in Nat
  PROVE  SumFunction([i \in 0 .. n - 1 |-> CostAt(t, i)]) \in Nat
<1> DEFINE f == [i \in 0 .. n - 1 |-> CostAt(t, i)]
<1>1. IsFiniteSet(DOMAIN f) /\ \A i \in DOMAIN f : f[i] \in Nat
  BY CostTyped, FS_Interval
<1> HIDE DEF f
<1>2. SumFunction(f) \in Nat
  BY <1>1, SumNat DEF SumFunction
<1> QED
  BY <1>2 DEF f

LEMMA RanksWorthTyped ==
  ASSUME Typed
  PROVE  /\ \A t \in Tech : RanksCost(t) \in Nat /\ CostAt(t, rank[t]) \in Nat
         /\ RanksWorth \in Nat
<1>1. \A t \in Tech : RanksCost(t) \in Nat /\ CostAt(t, rank[t]) \in Nat
  BY RanksCostTyped, CostTyped DEF Typed, RanksCost
<1> DEFINE f == [t \in Tech |-> RanksCost(t)]
<1>2. DOMAIN f = Tech /\ \A t \in Tech : f[t] \in Nat
  BY <1>1
<1> HIDE DEF f
<1>3. SumFunction(f) \in Nat
  BY <1>2, SumNat, ResearchAssumption DEF SumFunction
<1> QED
  BY <1>1, <1>3 DEF f, RanksWorth

LEMMA PaidIs ==
  /\ Paid = RanksWorth + (IF researching = NoTech THEN 0
                          ELSE CostAt(researching, rank[researching]))
  /\ Paid' = RanksWorth' + (IF researching' = NoTech THEN 0
                            ELSE CostAt(researching', rank'[researching']))
  BY DEF Paid, RanksWorth, Cost

LEMMA WorthSame ==
  ASSUME rank' = rank
  PROVE  RanksWorth' = RanksWorth
  BY DEF RanksWorth, RanksCost

\* One rank more is worth its price.
LEMMA WorthOfRank ==
  ASSUME Typed, NEW t \in Tech, rank' = [rank EXCEPT ![t] = @ + 1]
  PROVE  RanksWorth' = RanksWorth + CostAt(t, rank[t])
<1> DEFINE f == [s \in Tech |-> RanksCost(s)]
           g == [s \in Tech |-> RanksCost(s)']
           n == rank[t]
           old == [i \in 0 .. n - 1 |-> CostAt(t, i)]
           new == [i \in 0 .. n |-> CostAt(t, i)]
<1>1. rank'[t] = n + 1 /\ n \in Nat /\ \A s \in Tech : s # t => rank'[s] = rank[s]
  BY DEF Typed
<1>2. \A s \in Tech : s # t => RanksCost(s)' = RanksCost(s)
  BY <1>1 DEF RanksCost
<1>3. RanksCost(t) = SumFunction(old) /\ RanksCost(t)' = SumFunction(new)
  <2>1. 0 .. rank'[t] - 1 = 0 .. n
    BY <1>1
  <2> QED
    BY <2>1 DEF RanksCost
<1>4. SumFunction(new) = CostAt(t, n) + SumFunction(old)
  <2>1. /\ DOMAIN old = 0 .. n - 1 /\ DOMAIN new = 0 .. n
        /\ IsFiniteSet(0 .. n) /\ IsFiniteSet(0 .. n - 1)
        /\ n \in 0 .. n /\ (0 .. n) \ {n} = 0 .. n - 1
    <3>1. DOMAIN old = 0 .. n - 1 /\ DOMAIN new = 0 .. n
      OBVIOUS
    <3>2. n \in Nat
      BY <1>1
    <3> HIDE DEF n, old, new
    <3>3. n \in 0 .. n /\ (0 .. n) \ {n} = 0 .. n - 1 /\ n - 1 \in Int
      BY <3>2
    <3>4. IsFiniteSet(0 .. n) /\ IsFiniteSet(0 .. n - 1)
      BY <3>2, <3>3, FS_Interval
    <3> QED
      BY <3>1, <3>3, <3>4
  <2>2. /\ \A i \in 0 .. n : new[i] \in Int
        /\ \A i \in 0 .. n - 1 : new[i] = old[i]
        /\ new[n] = CostAt(t, n)
    BY <1>1, CostTyped
  <2> HIDE DEF new, old, n
  <2>3. SumFunctionOnSet(new, 0 .. n) = new[n] + SumFunctionOnSet(new, (0 .. n) \ {n})
    BY ONLY <2>1, <2>2, SumWithout
  <2>4. SumFunctionOnSet(new, 0 .. n - 1) = SumFunctionOnSet(old, 0 .. n - 1)
    BY ONLY <2>1, <2>2, SumSame
  <2> QED
    BY <2>1, <2>2, <2>3, <2>4 DEF SumFunction
<1>5. /\ RanksCost(t)' = RanksCost(t) + CostAt(t, n)
      /\ RanksCost(t) \in Nat /\ CostAt(t, n) \in Nat
  <2>1. RanksCost(t) \in Nat /\ CostAt(t, n) \in Nat
    BY RanksWorthTyped
  <2> HIDE DEF old, new, n
  <2> QED
    BY ONLY <1>3, <1>4, <2>1
<1>6. SumFunctionOnSet(g, Tech) = SumFunctionOnSet(f, Tech) + g[t] - f[t]
  <2>1. /\ \A s \in Tech : f[s] \in Int /\ g[s] \in Int
        /\ \A s \in Tech \ {t} : f[s] = g[s]
    BY <1>2, <1>5, RanksWorthTyped
  <2> HIDE DEF f, g
  <2> QED
    BY ONLY <2>1, t \in Tech, ResearchAssumption, SumChange
<1>7. RanksWorth = SumFunctionOnSet(f, Tech) /\ RanksWorth' = SumFunctionOnSet(g, Tech)
  BY DEF RanksWorth, SumFunction
<1>8. RanksWorth \in Nat
  BY RanksWorthTyped
<1>9. g[t] = RanksCost(t)' /\ f[t] = RanksCost(t)
  OBVIOUS
<1> HIDE DEF f, g
<1> QED
  BY ONLY <1>5, <1>6, <1>7, <1>8, <1>9

\* While nothing lags, a technology with a job is the one in research, and no
\* request is in progress.
LEMMA PromptJob ==
  ASSUME ResearchInv, ~Lagging, NEW t \in DOMAIN readyJobs
  PROVE  t \in Tech /\ researching = t /\ \A r \in Request : web[r] = NoUpgrade
<1>1. Typed /\ Prompt
  BY DEF ResearchInv
<1>2. t \in Tech /\ Jobs(t) > 0
  BY <1>1, JobsAre DEF Typed, BagOfTechs
<1>3. \A r \in Request : web[r] = NoUpgrade
  BY <1>1, <1>2 DEF Prompt, NoJobs
<1> QED
  BY <1>1, <1>2, <1>3 DEF Prompt

LEMMA MoneyStep == ResearchInv /\ MoneyInv /\ [ResearchNext]_researchVars => MoneyInv'
<1> SUFFICES ASSUME ResearchInv, MoneyInv, [ResearchNext]_researchVars PROVE MoneyInv'
  OBVIOUS
<1>0. /\ Typed /\ (~Lagging => Prompt) /\ pace' = pace /\ (Lagging' <=> Lagging)
      /\ StartBalance \in Nat /\ balance \in Int /\ earned \in Nat /\ (~Lagging => balance \in Nat)
      /\ NoTech \notin Tech
  <2>1. pace' = pace
    BY DEF ResearchInv, ResearchNext, researchVars, Check, Write, Enqueue, AbortTechnology, UpdateUservalues, ReleaseResearch,
       Income, BuildLab
  <2> QED
    BY <2>1, ResearchAssumption DEF ResearchInv, MoneyInv, Lagging
<1>w. /\ RanksWorth \in Nat /\ \A t \in Tech : CostAt(t, rank[t]) \in Nat
      /\ Paid = RanksWorth + (IF researching = NoTech THEN 0
                              ELSE CostAt(researching, rank[researching]))
      /\ Paid' = RanksWorth' + (IF researching' = NoTech THEN 0
                                ELSE CostAt(researching', rank'[researching']))
  BY <1>0, RanksWorthTyped, PaidIs
<1>b. ~Lagging => balance + Paid <= StartBalance + earned
  BY DEF MoneyInv, RanksPaid
<1>p. /\ researching \in Tech \cup {NoTech} /\ Paid \in Nat
  BY <1>0, <1>w DEF Typed
<1>1. ASSUME NEW r \in Request, NEW t \in Tech, Check(r, t) PROVE MoneyInv'
  <2> DEFINE new == [tech |-> t, loaded |-> balance, stage |-> "checked"]
  <2>1. /\ web[r] = NoUpgrade /\ RequestsKeepUp /\ balance >= CostAt(t, rank[t])
        /\ web' = [web EXCEPT ![r] = new]
        /\ UNCHANGED <<pace, researching, rank, balance, lab, shown, earned>>
    BY <1>1 DEF Check, TechnologyRequire, Cost
  <2>2. web'[r] = new /\ \A q \in Request : q # r => web'[q] = web[q]
    BY <1>0, <2>1 DEF Typed
  <2>3. /\ new.loaded = balance /\ new.tech = t /\ new.stage = "checked"
        /\ RanksWorth' = RanksWorth
    BY <2>1, WorthSame
  <2> HIDE DEF new
  <2>4. \A q \in Request : web'[q] # NoUpgrade => web'[q].loaded \in Int
    BY <1>0, <2>2, <2>3 DEF MoneyInv
  <2>5. RanksPaid'
    BY <1>0, <1>w, <2>1, <2>3, WorthSame DEF MoneyInv, RanksPaid
  <2>6. ASSUME ~Lagging, NEW q \in Request, web'[q].stage = "checked"
        PROVE  web'[q].loaded <= balance' /\ CostAt(web'[q].tech, rank'[web'[q].tech]) <= web'[q].loaded
    <3>1. q = r
      BY <2>1, <2>2, <2>6 DEF RequestsKeepUp, NoUpgrade
    <3> QED
      BY <1>0, <1>w, <2>1, <2>2, <2>3, <3>1
  <2> QED
    BY <1>0, <2>1, <2>4, <2>5, <2>6 DEF MoneyInv
<1>2. ASSUME NEW r \in Request, Write(r) PROVE MoneyInv'
  <2> DEFINE t == web[r].tech
  <2>1. /\ web[r].stage = "checked" /\ web[r] # NoUpgrade /\ t \in Tech /\ web[r].loaded \in Int
        /\ researching' = t /\ balance' = web[r].loaded - CostAt(t, rank[t])
        /\ web' = [web EXCEPT ![r].stage = "written"] /\ shown' = shown \cup {t}
        /\ UNCHANGED <<pace, rank, lab, earned>>
    BY <1>0, <1>2 DEF Write, Cost, Typed, UpgradeTyped, NoUpgrade, MoneyInv
  <2>2. /\ web'[r].stage = "written" /\ web'[r].loaded = web[r].loaded
        /\ \A q \in Request : q # r => web'[q] = web[q]
    BY <1>0, <2>1 DEF Typed, UpgradeTyped
  <2>3. RanksWorth' = RanksWorth /\ Paid' = RanksWorth + CostAt(t, rank[t])
    BY <1>0, <1>w, <2>1, WorthSame
  <2> HIDE DEF t
  <2>4. \A q \in Request : web'[q] # NoUpgrade => web'[q].loaded \in Int
    BY <1>0, <2>1, <2>2 DEF MoneyInv
  <2>5. ASSUME ~Lagging PROVE web[r].loaded <= balance /\ CostAt(t, rank[t]) <= web[r].loaded /\ researching = NoTech
    BY <1>0, <2>1, <2>5 DEF MoneyInv, Prompt, t
  <2>6. balance' \in IF Lagging THEN Int ELSE Nat
    BY <1>0, <1>w, <2>1, <2>5
  <2>7. RanksPaid'
    <3> SUFFICES ASSUME ~Lagging PROVE balance' + Paid' <= StartBalance + earned'
      BY <1>0 DEF RanksPaid
    <3>1. balance' = web[r].loaded - CostAt(t, rank[t]) /\ web[r].loaded \in Int /\ earned' = earned
          /\ CostAt(t, rank[t]) \in Nat
      BY <1>w, <2>1
    <3>2. Paid = RanksWorth
      BY <1>w, <2>5
    <3>3. web[r].loaded <= balance
      BY <2>5
    <3> QED
      BY ONLY <1>0, <1>w, <1>b, <2>3, <3>1, <3>2, <3>3, ~Lagging
  <2>8. ASSUME ~Lagging, NEW q \in Request, web'[q].stage = "checked" PROVE FALSE
    <3>1. q # r /\ web[q].stage = "checked" /\ web[q] # NoUpgrade
      BY <2>2, <2>8 DEF NoUpgrade
    <3> QED
      BY <1>0, <2>1, <2>8, <3>1 DEF Prompt
  <2>9. shown' \subseteq Tech /\ lab' \in 0 .. MaxLab /\ earned' \in 0 .. MaxEarned
    BY <2>1 DEF MoneyInv
  <2> QED
    BY <1>0, <2>4, <2>6, <2>7, <2>8, <2>9 DEF MoneyInv
\* The research, the ranks and the requests in progress stay, or fewer are.
<1>3. ASSUME UNCHANGED <<researching, rank, shown>>, lab' \in 0 .. MaxLab,
             earned' \in 0 .. MaxEarned,
             NEW d \in Nat, earned' = earned + d, balance' = balance + d,
             \A q \in Request : web'[q] = web[q] \/ web'[q] = NoUpgrade
      PROVE  MoneyInv'
  <2>1. RanksWorth' = RanksWorth /\ Paid' = Paid
    BY <1>3, <1>w, WorthSame
  <2>2. RanksPaid'
    <3> SUFFICES ASSUME ~Lagging PROVE balance' + Paid' <= StartBalance + earned'
      BY <1>0 DEF RanksPaid
    <3>1. Paid' = Paid /\ balance' = balance + d /\ earned' = earned + d /\ d \in Nat
      BY <1>3, <2>1
    <3>2. /\ balance + Paid <= StartBalance + earned /\ StartBalance \in Nat
          /\ balance \in Int /\ earned \in Nat /\ Paid \in Nat
      BY <1>0, <1>b, <1>p
    <3> QED
      BY ONLY <3>1, <3>2
  <2>3. \A q \in Request : web'[q] # NoUpgrade => web'[q].loaded \in Int
    BY <1>3 DEF MoneyInv
  <2>4. ASSUME ~Lagging, NEW q \in Request, web'[q].stage = "checked"
        PROVE  web'[q].loaded <= balance' /\ CostAt(web'[q].tech, rank'[web'[q].tech]) <= web'[q].loaded
    <3>1. web'[q] = web[q] /\ web[q] # NoUpgrade
      BY <1>3, <2>4 DEF NoUpgrade
    <3>2. web[q].loaded \in Int /\ web[q].loaded <= balance /\ CostAt(web[q].tech, rank[web[q].tech]) <= web[q].loaded
      BY <2>4, <3>1 DEF MoneyInv
    <3>3. web'[q].loaded <= balance'
      BY <1>0, <1>3, <3>1, <3>2
    <3> QED
      BY <1>3, <3>1, <3>2, <3>3
  <2>5. balance' \in IF Lagging THEN Int ELSE Nat
    BY <1>0, <1>3
  <2> QED
    BY <1>0, <1>3, <2>2, <2>3, <2>4, <2>5 DEF MoneyInv
<1>z. balance + 0 = balance /\ earned + 0 = earned
  BY <1>0
<1>4. ASSUME NEW r \in Request, Enqueue(r) PROVE MoneyInv'
  <2>1. \A q \in Request : web'[q] = web[q] \/ web'[q] = NoUpgrade
    BY <1>0, <1>4 DEF Enqueue, Typed
  <2> QED
    BY <1>0, <1>z, <1>3, <1>4, <2>1 DEF Enqueue, MoneyInv
<1>5. ASSUME UNCHANGED <<researching, rank, balance, lab, web, shown, earned>> PROVE MoneyInv'
  BY <1>0, <1>z, <1>3, <1>5 DEF MoneyInv
<1>6. ASSUME Income PROVE MoneyInv'
  <2>1. earned' \in 0 .. MaxEarned
    BY <1>6, ResearchAssumption DEF Income, MoneyInv
  <2> QED
    BY <1>0, <1>3, <1>6, <2>1 DEF Income, MoneyInv
<1>7. ASSUME BuildLab PROVE MoneyInv'
  <2>1. lab' \in 0 .. MaxLab
    BY <1>7, ResearchAssumption DEF BuildLab, MoneyInv
  <2> QED
    BY <1>0, <1>z, <1>3, <1>7, <2>1 DEF BuildLab, MoneyInv
<1>8. ASSUME NEW t \in Tech, AbortTechnology(t) PROVE MoneyInv'
  <2>1. /\ researching' = NoTech /\ balance' = balance + CostAt(t, rank[t]) \div 2 /\ RequestsKeepUp
        /\ (~Lagging => t = researching)
        /\ UNCHANGED <<pace, rank, lab, web, shown, earned>>
    BY <1>8 DEF AbortTechnology, Cost
  <2>2. CostAt(t, rank[t]) \in Nat /\ CostAt(t, rank[t]) \div 2 \in Nat /\ CostAt(t, rank[t]) \div 2 <= CostAt(t, rank[t])
    <3>1. CostAt(t, rank[t]) \in Nat
      BY <1>w
    <3> QED
      BY ONLY <3>1
  <2>3. RanksWorth' = RanksWorth /\ Paid' = RanksWorth
    BY <1>w, <2>1, WorthSame
  <2>4. RanksPaid'
    <3> SUFFICES ASSUME ~Lagging PROVE balance' + Paid' <= StartBalance + earned'
      BY <1>0 DEF RanksPaid
    <3>1. Paid = RanksWorth + CostAt(t, rank[t])
      BY <1>0, <1>w, <2>1
    <3>2. balance' = balance + CostAt(t, rank[t]) \div 2 /\ earned' = earned
      BY <2>1
    <3> QED
      BY ONLY <1>0, <1>b, <1>w, <2>2, <2>3, <3>1, <3>2, ~Lagging
  <2>5. ASSUME ~Lagging, NEW q \in Request, web'[q].stage = "checked" PROVE FALSE
    BY <2>1, <2>5 DEF RequestsKeepUp, NoUpgrade
  <2>6. balance' \in IF Lagging THEN Int ELSE Nat
    BY <1>0, <2>1, <2>2
  <2> QED
    BY <1>0, <2>1, <2>4, <2>5, <2>6 DEF MoneyInv
<1>9. ASSUME NEW t \in DOMAIN readyJobs, UpdateUservalues(t) PROVE MoneyInv'
  <2>1. /\ researching' = NoTech /\ rank' = [rank EXCEPT ![t] = @ + 1] /\ t \in Tech
        /\ UNCHANGED <<pace, balance, lab, web, shown, earned>>
    BY <1>0, <1>9 DEF UpdateUservalues, Typed, BagOfTechs
  <2>2. ~Lagging => researching = t /\ \A r \in Request : web[r] = NoUpgrade
    BY PromptJob
  <2>3. RanksWorth' = RanksWorth + CostAt(t, rank[t])
    BY <1>0, <2>1, WorthOfRank
  <2>4. RanksPaid'
    <3> SUFFICES ASSUME ~Lagging PROVE balance' + Paid' <= StartBalance + earned'
      BY <1>0 DEF RanksPaid
    <3>0. t \in Tech /\ researching = t
      BY <2>1, <2>2
    <3>1. Paid = RanksWorth + CostAt(t, rank[t])
      BY ONLY <1>0, <1>w, <3>0
    <3>3. Paid' = RanksWorth' + 0
      <4>1. researching' = NoTech /\ RanksWorth' \in Int
        BY <1>w, <2>1, <2>3
      <4> QED
        BY <1>w, <4>1
    <3>2. balance' = balance /\ earned' = earned
      BY <2>1
    <3>4. RanksWorth \in Nat /\ CostAt(t, rank[t]) \in Nat
      BY <1>w, <3>0
    <3> QED
      BY ONLY <1>0, <1>b, <2>3, <3>1, <3>2, <3>3, <3>4, ~Lagging
  <2>5. ASSUME ~Lagging, NEW q \in Request, web'[q].stage = "checked" PROVE FALSE
    BY <2>1, <2>2, <2>5 DEF NoUpgrade
  <2> QED
    BY <1>0, <2>1, <2>4, <2>5 DEF MoneyInv
<1>10. ASSUME NEW t, ReleaseResearch(t) PROVE MoneyInv'
  BY <1>5, <1>10 DEF ReleaseResearch
<1>11. CASE UNCHANGED researchVars
  BY <1>5, <1>11 DEF researchVars
<1> QED
  BY <1>1, <1>2, <1>4, <1>6, <1>7, <1>8, <1>9, <1>10, <1>11 DEF ResearchNext

LEMMA MoneyInit == ResearchInit => MoneyInv
<1> SUFFICES ASSUME ResearchInit PROVE MoneyInv
  OBVIOUS
<1>1. ResearchInv
  BY ResearchInvInit
<1>2. RanksWorth = 0
  <2>1. \A t \in Tech : RanksCost(t) = 0
    <3>1. \A t \in Tech : 0 .. rank[t] - 1 = {}
      BY DEF ResearchInit
    <3> QED
      BY <3>1, SumEmpty DEF RanksCost, SumFunction
  <2> DEFINE f == [t \in Tech |-> RanksCost(t)]
  <2>2. DOMAIN f = Tech /\ \A t \in Tech : f[t] = 0
    BY <2>1
  <2> HIDE DEF f
  <2>3. SumFunction(f) = 0
    BY <2>2, SumZero, ResearchAssumption DEF SumFunction
  <2> QED
    BY <2>3 DEF f, RanksWorth
<1>3. RanksPaid
  BY <1>2, PaidIs, ResearchAssumption DEF ResearchInit, RanksPaid
<1> QED
  BY <1>3, ResearchAssumption DEF ResearchInit, MoneyInv, NoUpgrade

\* Upgrades, aborts and finished research keep ranks, jobs, money and the current research
\* in agreement (technology.rb): exactly while nothing lags, and so that every research has
\* the job that ends it whatever lags.
THEOREM ResearchCorrect == ResearchSpec => []ResearchAgrees
<1>1. ResearchInv /\ MoneyInv => ResearchAgrees
  <2> SUFFICES ASSUME ResearchInv, MoneyInv PROVE ResearchAgrees
    OBVIOUS
  <2>1. web \in [Request -> Upgrading \cup {NoUpgrade}]
    <3>1. \A r \in Request : web[r] \in Upgrading \cup {NoUpgrade}
      BY DEF ResearchInv, Typed, UpgradeTyped, MoneyInv, Upgrading
    <3>2. web = [r \in Request |-> web[r]]
      BY ONLY ResearchInv DEF ResearchInv, Typed
    <3> QED
      BY <3>1, <3>2
  <2>2. ResearchTypeOK
    BY <2>1 DEF ResearchInv, Typed, BagOfTechs, MoneyInv, ResearchTypeOK
  <2> QED
    BY <2>2, InvGives DEF MoneyInv, ResearchAgrees
<1> QED
  BY <1>1, MoneyInit, MoneyStep, ResearchInvCorrect, PTL DEF ResearchSpec
=============================================================================
