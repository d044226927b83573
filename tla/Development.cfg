CONSTANTS
  mine = mine
  hq = hq
  laboratory = laboratory
  depot = depot
  BType = {mine, laboratory, depot}
  MaxLevel <- MCMaxLevel
  Initial = {mine}
  Oremine = mine
  Headquarter = mine
  Depot = depot
  OreCost <- MCOreCost
  MoneyCost <- MCMoneyCost
  Requires <- MCRequires
  MaxOre <- MCMaxOre
  StartOre = 2
  StartMoney = 2
  None = None
  MaxOrders = 4
  MaxMoney = 4
  basic = basic
  advanced = advanced
  Tech = {basic, advanced}
  BaseCost <- MCBaseCost
  MaxRank <- MCMaxRank
  BuildingRank <- MCBuildingRank
  Required <- MCRequired
  Request = {r1, r2}
  StartBalance = 3
  NoTech = NoTech
  MaxLab = 1
  MaxEarned = 1
  MaxBalance = 4
  RankBound = 2
  MaxJobs = 2
SPECIFICATION MCSpec
INVARIANTS ConstructionAgrees 
PROPERTIES NothingMinted BuildingsGrow ConstructionEnds 
CHECK_DEADLOCK FALSE
