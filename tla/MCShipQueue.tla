---------------------------- MODULE MCShipQueue ----------------------------
(***************************************************************************)
(* Small instances of ShipQueue: one or two planets, a slow ship and a     *)
(* fast one, and goods for a few of them.                                  *)
(***************************************************************************)
EXTENDS ShipQueue, TLC

CONSTANTS slow, fast

MCConTime == slow :> 2 @@ fast :> 1
Cost(ore, crystal, population, credits) ==
  "Ore" :> ore @@ "Crystal" :> crystal @@ "Population" :> population @@ "Money" :> credits
MCPrice == slow :> Cost(2, 1, 1, 2) @@ fast :> Cost(1, 0, 1, 1)
MCStock == "Ore" :> 4 @@ "Crystal" :> 1 @@ "Population" :> 3

=============================================================================
