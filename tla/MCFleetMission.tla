--------------------------- MODULE MCFleetMission ---------------------------
(***************************************************************************)
(* A small instance of FleetMission: two players, one home planet each and *)
(* a planet to colonize.  A behaviour stays in one of the scopes below,    *)
(* each wide in one direction; it bounds what users do, never what  *)
(* the scheduler and the workers do, so that fairness is that of FairSpec. *)
(***************************************************************************)
EXTENDS FleetMission, TLC

CONSTANTS u1, u2, p1, p2, p3, w1, w2, col, spy, f1, f2, f3, f4

VARIABLE scope  \* chosen at the start

MCStartOwner == p1 :> u1 @@ p2 :> u2 @@ p3 :> None

\* Colonists racing for p3; recalls of jobs that are due; battles of several
\* fleets; fleets stationed with a player who changes sides; drones.
Scopes ==
  {[ships |-> {w1, col}, planets |-> {p1, p2, p3}, missions |-> {"attack", "colonize", "travel"},
    fleets |-> 3, returns |-> 1, diplomacy |-> FALSE],
   [ships |-> {w1, col}, planets |-> {p1, p3}, missions |-> {"attack", "colonize"},
    fleets |-> 3, returns |-> 2, diplomacy |-> FALSE],
   [ships |-> {w1, w2}, planets |-> {p1, p2}, missions |-> {"attack"},
    fleets |-> 4, returns |-> 1, diplomacy |-> FALSE],
   [ships |-> {w1, w2}, planets |-> {p1, p2}, missions |-> {"attack", "travel"},
    fleets |-> 3, returns |-> 1, diplomacy |-> TRUE],
   [ships |-> {w1, spy}, planets |-> {p1, p2}, missions |-> {"attack", "spy", "transport"},
    fleets |-> 3, returns |-> 1, diplomacy |-> FALSE]}

\* The database hands out primary keys in order; beyond the scope's last one
\* a used key stops every action that asks for a new one.
Keys == <<f1, f2, f3, f4>>
NextKey == IF Cardinality(used) < scope.fleets THEN Keys[Cardinality(used) + 1] ELSE f1

Returns(f) == {j \in PendingOf(f) : j.kind = "return"}

MCNext ==
  \/ \E f \in FleetId, m \in scope.missions, dest \in scope.planets :
       \E S \in SUBSET fleets[f].ships : Move(f, NextKey, m, dest, S)
  \/ \E f \in FleetId, matches \in BOOLEAN :
       Cardinality(Returns(f)) < scope.returns /\ BreakupMission(f, matches)
  \/ \E u \in User, a \in Alliance \cup {None} : scope.diplomacy /\ Diplomacy(u, a)
  \/ \E s \in scope.ships, p \in scope.planets : AddShipToPlanet(s, p, NextKey)
  \/ \E j \in delayed : Release(j)
  \/ \E j \in ready : Perform(j)

MCInit == /\ Init
          /\ scope \in Scopes
          /\ alliance[u1] = None   \* with u2 allied (no alliance either) or not

MCSpec == MCInit /\ [][MCNext /\ UNCHANGED scope]_<<vars, scope>> /\ Fairness
=============================================================================
