------------------------------ MODULE Research ------------------------------
(***************************************************************************)
(* The research of one user: upgrading and aborting a technology, and the  *)
(* ResearchTechnology job that raises its rank when the time has come.     *)
(*                                                                         *)
(* An upgrade checks its requirements on rows it has loaded, then writes   *)
(* user_settings.researching and users.money, then queues the job.  Jobs,  *)
(* income and other requests run in between.  Durations are the freedom of *)
(* the scheduler to release any delayed job; at pace "late" requests may   *)
(* arrive while a released job is still waiting for its worker, and the    *)
(* button of an old page may abort what is not in research.                *)
(***************************************************************************)
EXTENDS Integers, FiniteSetsExt, Bags

CONSTANTS
  Tech,          \* the rows of the table technologies
  BaseCost,      \* technologies.cost
  MaxRank,       \* technologies.maxrank
  BuildingRank,  \* technology_requires.building_rank
  Required,      \* technology_requires: pairs <<pre_tech_id, pre_tech_rank>>
  Request,       \* the web processes that may serve an upgrade
  StartBalance,  \* users.money at the start
  NoTech,        \* user_settings.researching = 0
  MaxLab,        \* bound: level of the research lab
  MaxEarned,     \* bound: money from production
  MaxBalance,    \* bound: no abort above this
  RankBound,     \* bound: no upgrade from this rank
  MaxJobs        \* bound: no upgrade with so many jobs pending

ASSUME ResearchAssumption ==
  /\ IsFiniteSet(Tech)
  /\ BaseCost \in [Tech -> Nat \ {0}]
  /\ MaxRank \in [Tech -> Nat \ {0}]
  /\ BuildingRank \in [Tech -> Nat]
  /\ Required \in [Tech -> SUBSET (Tech \X Nat)]
  /\ NoTech \notin Tech
  /\ {StartBalance, MaxLab, MaxEarned, MaxBalance, RankBound, MaxJobs} \subseteq Nat

VARIABLES
  pace,          \* "late" when jobs and pages may lag behind, fixed at the start
  researching,   \* user_settings.researching
  rank,          \* user_technologies.rank, 0 without a row
  balance,       \* users.money
  lab,           \* user_settings.researchlvl, the highest lab of the user
  web,           \* the upgrade each web process is in
  delayedJobs,   \* bag of jobs in the scheduler's delayed queue, by technology
  readyJobs,     \* bag of jobs in the queue research_technology
  shown,         \* history: what some page has shown as the current research
  earned         \* history: money from production

researchVars == <<pace, researching, rank, balance, lab, web, delayedJobs, readyJobs, shown, earned>>

Lagging == pace = "late"

Upgrading == [tech : Tech, loaded : Int, stage : {"checked", "written"}]
NoUpgrade == [tech |-> NoTech, loaded |-> 0, stage |-> "idle"]

ResearchTypeOK ==
  /\ pace \in {"prompt", "late"}
  /\ researching \in Tech \cup {NoTech}
  /\ rank \in [Tech -> Nat]
  /\ balance \in IF Lagging THEN Int ELSE Nat
  /\ lab \in 0 .. MaxLab
  /\ web \in [Request -> Upgrading \cup {NoUpgrade}]
  /\ \A jobs \in {delayedJobs, readyJobs} :
       DOMAIN jobs \subseteq Tech /\ \A t \in DOMAIN jobs : jobs[t] \in Nat \ {0}
  /\ shown \subseteq Tech
  /\ earned \in 0 .. MaxEarned

ResearchInit ==
  /\ pace \in {"prompt", "late"}
  /\ researching = NoTech
  /\ rank = [t \in Tech |-> 0]
  /\ balance = StartBalance
  /\ lab = 0
  /\ web = [r \in Request |-> NoUpgrade]
  /\ delayedJobs = EmptyBag
  /\ readyJobs = EmptyBag
  /\ shown = {}
  /\ earned = 0
-----------------------------------------------------------------------------
\* 1.5 ** n, as a fraction.
Factor[n \in Nat] ==
  IF n = 0 THEN [num |-> 1, den |-> 1]
  ELSE [num |-> 3 * Factor[n - 1].num, den |-> 2 * Factor[n - 1].den]

\* get_technology_cost at rank n: (1.5 ** n * cost).round(0)
CostAt(t, n) ==
  (2 * BaseCost[t] * Factor[n].num + Factor[n].den) \div (2 * Factor[n].den)
Cost(t) == CostAt(t, rank[t])

\* While nothing lags, requests come one by one and find no due job waiting.
RequestsKeepUp == Lagging \/ (readyJobs = EmptyBag /\ \A r \in Request : web[r] = NoUpgrade)

\* tech_require?: every technology required has a row of the required rank.
TechRequire(t) == \A req \in Required[t] : rank[req[1]] > 0 /\ rank[req[1]] >= req[2]

\* technology_require?: lab, highest rank, money and required technologies.
TechnologyRequire(t) ==
  /\ lab >= BuildingRank[t]
  /\ rank[t] # MaxRank[t]
  /\ balance >= Cost(t)
  /\ TechRequire(t)

\* upgrade_technology: the checks, on the user as loaded now.
Check(r, t) ==
  /\ web[r] = NoUpgrade /\ RequestsKeepUp
  /\ rank[t] < RankBound /\ BagCardinality(delayedJobs (+) readyJobs) < MaxJobs
  /\ TechnologyRequire(t)
  /\ researching = NoTech
  /\ web' = [web EXCEPT ![r] = [tech |-> t, loaded |-> balance, stage |-> "checked"]]
  /\ UNCHANGED <<pace, researching, rank, balance, lab, delayedJobs, readyJobs, shown, earned>>

\* Mutant: the research is announced, not paid.
WriteUnpaid(r) ==
  /\ web[r].stage = "checked"
  /\ researching' = web[r].tech
  /\ web' = [web EXCEPT ![r].stage = "written"]
  /\ shown' = shown \cup {web[r].tech}
  /\ UNCHANGED <<pace, rank, balance, lab, delayedJobs, readyJobs, earned>>
\* Then the current research and the money, computed from the loaded row.
Write(r) ==
  /\ web[r].stage = "checked"
  /\ researching' = web[r].tech
  /\ balance' = web[r].loaded - Cost(web[r].tech)
  /\ web' = [web EXCEPT ![r].stage = "written"]
  /\ shown' = shown \cup {web[r].tech}
  /\ UNCHANGED <<pace, rank, lab, delayedJobs, readyJobs, earned>>

\* Last the job.
Enqueue(r) ==
  /\ web[r].stage = "written"
  /\ delayedJobs' = delayedJobs (+) SetToBag({web[r].tech})
  /\ web' = [web EXCEPT ![r] = NoUpgrade]
  /\ UNCHANGED <<pace, researching, rank, balance, lab, readyJobs, shown, earned>>

\* abort_technology: no look at what is in research, half the price of the next
\* rank paid back, and the jobs removed that are still delayed.
AbortTechnology(t) ==
  /\ RequestsKeepUp /\ balance <= MaxBalance
  /\ \E r \in Request : web[r] = NoUpgrade
  /\ IF Lagging THEN t \in shown ELSE t = researching
  /\ researching' = NoTech
  /\ balance' = balance + Cost(t) \div 2
  /\ delayedJobs' = [s \in DOMAIN delayedJobs \ {t} |-> delayedJobs[s]]
  /\ UNCHANGED <<pace, rank, lab, web, readyJobs, shown, earned>>

\* Mutant: the user stays in research.
UpdateUservaluesOnly(t) ==
  /\ readyJobs' = readyJobs (-) SetToBag({t})
  /\ rank' = [rank EXCEPT ![t] = @ + 1]
  /\ UNCHANGED <<pace, researching, balance, lab, web, delayedJobs, shown, earned>>
\* ResearchTechnology.perform: update_uservalues ends whatever research there is.
UpdateUservalues(t) ==
  /\ readyJobs' = readyJobs (-) SetToBag({t})
  /\ rank' = [rank EXCEPT ![t] = @ + 1]
  /\ researching' = NoTech
  /\ UNCHANGED <<pace, balance, lab, web, delayedJobs, shown, earned>>

\* resque-scheduler moves a due job to its queue.
ReleaseResearch(t) ==
  /\ delayedJobs' = delayedJobs (-) SetToBag({t})
  /\ readyJobs' = readyJobs (+) SetToBag({t})
  /\ UNCHANGED <<pace, researching, rank, balance, lab, web, shown, earned>>

\* The planets' production and their labs, by jobs of other components.
Income ==
  /\ earned < MaxEarned
  /\ earned' = earned + 1
  /\ balance' = balance + 1
  /\ UNCHANGED <<pace, researching, rank, lab, web, delayedJobs, readyJobs, shown>>
BuildLab ==
  /\ lab < MaxLab
  /\ lab' = lab + 1
  /\ UNCHANGED <<pace, researching, rank, balance, web, delayedJobs, readyJobs, shown, earned>>

ResearchNext ==
  \/ \E r \in Request, t \in Tech : Check(r, t)
  \/ \E r \in Request : Write(r) \/ Enqueue(r)
  \/ \E t \in Tech : AbortTechnology(t)
  \/ \E t \in DOMAIN readyJobs : UpdateUservalues(t)
  \/ \E t \in DOMAIN delayedJobs : ReleaseResearch(t)
  \/ Income \/ BuildLab

ResearchSpec == ResearchInit /\ [][ResearchNext]_researchVars

\* Requests are served to their end, scheduler and workers take up what is due.
ResearchFairness ==
  /\ \A r \in Request : WF_researchVars(Write(r)) /\ WF_researchVars(Enqueue(r))
  /\ \A t \in Tech :
       /\ WF_researchVars(t \in DOMAIN readyJobs /\ UpdateUservalues(t))
       /\ WF_researchVars(t \in DOMAIN delayedJobs /\ ReleaseResearch(t))

ResearchFairSpec == ResearchSpec /\ ResearchFairness
-----------------------------------------------------------------------------
\* What the ranks reached and the research in progress have cost.
RanksCost(t) == SumFunction([n \in 0 .. rank[t] - 1 |-> CostAt(t, n)])
Paid ==
  SumFunction([t \in Tech |-> RanksCost(t)]) + (IF researching = NoTech THEN 0 ELSE Cost(researching))

\* While nothing lags, the one pending job is that of the research shown to the
\* user: upgrade, abort and update_uservalues keep the two tables in step.
JobOfResearch ==
  ~Lagging /\ (\A r \in Request : web[r] = NoUpgrade) =>
    delayedJobs (+) readyJobs = IF researching = NoTech THEN EmptyBag ELSE SetToBag({researching})

\* While nothing lags, no rank is had for less than its price: what upgrades and
\* aborts leave, with the ranks at their prices, is at most what there was.
RanksPaid == ~Lagging => balance + Paid <= StartBalance + earned

\* "Höchster Rang schon erreicht?": no technology goes beyond its highest rank.
RankBounded == \A t \in Tech : rank[t] <= MaxRank[t]

\* While nothing lags, one check before each job is enough for that: max_rank?.
PromptRankBounded == ~Lagging => RankBounded

\* However jobs, pages and requests lag, a user in research has a job, or a
\* request about to queue it, that will end the research (upgrade_technology).
ResearchHasJob ==
  researching # NoTech =>
    \/ BagIn(researching, delayedJobs (+) readyJobs)
    \/ \E r \in Request : web[r].stage = "written" /\ web[r].tech = researching

\* Every research ends (update_uservalues or an abort): the user, who may not
\* upgrade while in research, never waits for ever.
ResearchEnds == \A t \in Tech : researching = t ~> researching # t

\* Ranks are paid and bounded and agree with jobs and current research while nothing lags; with
\* late jobs and old pages a user in research still has a job that ends it.
ResearchAgrees ==
  ResearchTypeOK /\ JobOfResearch /\ RanksPaid /\ PromptRankBounded /\ ResearchHasJob
=============================================================================
