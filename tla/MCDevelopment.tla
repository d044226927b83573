--------------------------- MODULE MCDevelopment ---------------------------
(***************************************************************************)
(* Small instances of Construction and Research, checked side by side: a   *)
(* behaviour either builds on a planet or researches for its owner, and    *)
(* the rest is idle.                                                       *)
(***************************************************************************)
EXTENDS Construction, Research, TLC

CONSTANTS mine, hq, laboratory, depot, basic, advanced

VARIABLE part

\* Two free buildings, one of them with a second level, a laboratory that
\* requires it, and a depot.
MCMaxLevel == [t \in BType |-> IF t \in {mine, depot} THEN 2 ELSE 1]

MCOreCost ==
  [j \in Job |-> CASE j.type = mine -> j.level - 1
                   [] j.type = hq -> 0
                   [] j.type = laboratory -> 2
                   [] j.type = depot -> j.level]
MCMoneyCost == [j \in Job |-> IF j.type = mine THEN 2 * (j.level - 1) ELSE 0]

MCRequires ==
  [j \in Job |-> CASE j.type = laboratory -> {[type |-> mine, level |-> 2]}
                   [] j.level = 2 /\ hq \in BType -> {[type |-> j.type, level |-> 1],
                                                      [type |-> hq, level |-> 1]}
                   [] j.level = 2 /\ hq \notin BType -> {[type |-> j.type, level |-> 1]}
                   [] OTHER -> {}]

MCMaxOre == [l \in DepotLevel |-> 2 + l]

\* A technology and one that requires it.
MCBaseCost == basic :> 1 @@ advanced :> 2
MCMaxRank == basic :> 2 @@ advanced :> 1
MCBuildingRank == basic :> 0 @@ advanced :> 1
MCRequired == basic :> {} @@ advanced :> {<<basic, 1>>}

MCInit ==
  /\ Init /\ ResearchInit
  /\ \/ part = "buildings" /\ pace = "prompt"
     \/ part = "research" /\ mode = "prompt"

MCNext ==
  \/ part = "buildings" /\ Next /\ UNCHANGED <<part, researchVars>>
  \/ part = "research" /\ ResearchNext /\ UNCHANGED <<part, vars>>

MCSpec ==
  MCInit /\ [][MCNext]_<<vars, researchVars, part>> /\ Fairness /\ ResearchFairness
=============================================================================
