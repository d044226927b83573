--------------------------- MODULE ShipOwnership ---------------------------
(***************************************************************************)
(* What the fleets promise the players: a ship is built once, for one      *)
(* player; from then on it is his until it is lost, and a lost ship never  *)
(* comes back.  Which fleet it flies in is nobody's business here.         *)
(***************************************************************************)
CONSTANTS User, Ship

VARIABLES
  unbuilt,   \* the ships not built yet
  ledger     \* the ships of each player

Init == /\ unbuilt = Ship
        /\ ledger  = [u \in User |-> {}]

Build(u, s) ==
  /\ s \in unbuilt
  /\ unbuilt' = unbuilt \ {s}
  /\ ledger'  = [ledger EXCEPT ![u] = @ \cup {s}]

\* A battle costs ships of many players at once.
Lose ==
  /\ ledger' \in [User -> SUBSET Ship]
  /\ \A u \in User : ledger'[u] \subseteq ledger[u]
  /\ UNCHANGED unbuilt

Next == Lose \/ \E u \in User, s \in Ship : Build(u, s)

Spec == Init /\ [][Next]_<<unbuilt, ledger>>
-----------------------------------------------------------------------------
\* A ship belongs to one player at most, and to none before it is built.
OneOwner ==
  /\ unbuilt \subseteq Ship
  /\ ledger \in [User -> SUBSET Ship]
  /\ \A u \in User : ledger[u] \cap unbuilt = {}
  /\ \A u, v \in User : u # v => ledger[u] \cap ledger[v] = {}
=============================================================================
