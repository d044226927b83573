------------------------- MODULE FleetMission_proofs -------------------------
(***************************************************************************)
(* Proofs about FleetMission, for any number of players, planets, ships    *)
(* and fleets.                                                             *)
(***************************************************************************)
EXTENDS FleetMission, TLAPS

(***************************************************************************)
(* What performing a job can do: every handler of the queue move_fleets    *)
(* ends in one of these effects.                                           *)
(***************************************************************************)
BasedWith(h, f) ==
  /\ fleets[h].mission = "based"
  /\ \/ owner[fleets[h].origin] = fleets[f].owner
     \/ fleets[h].origin = fleets[f].origin

Effect(j, f, p) ==
  \/ JobFails(j)
  \/ SendHome(f, p) /\ p \in Planet
  \/ \E h \in FleetId : BasedWith(h, f) /\ MergeInto(h, f)
  \/ \E K \in SUBSET Ship : FightLost(f, p, K)
  \/ \E K \in SUBSET Ship : FightWon(f, p, K) /\ p \in Planet
  \/ FightDrawn(f, p)
  \/ LoseDrone(f)
  \/ /\ Unowned(p) /\ p \in Planet
     /\ \E C \in SUBSET Ship : Settle(f, p, C)
     /\ failed' \in {failed, failed \cup {j}}
  \/ Stay(f)

\* The handlers of the six jobs (attack, spy, colonize, travel, transport,
\* return) have no effect but these.
LEMMA PerformEffect ==
  ASSUME TypeOK, NEW j, Perform(j)
  PROVE  /\ j \in ready /\ j \in Job
         /\ ready' = ready \ {j}
         /\ ~ Exists(j.fleet) => JobFails(j)
         /\ Effect(j, j.fleet, j.planet)
<1> DEFINE f == j.fleet
<1> DEFINE p == j.planet
<1>1. j \in ready /\ j \in Job /\ ready' = ready \ {j}
  BY DEF Perform, TypeOK
<1>2. f \in FleetId /\ (j.kind # "return" => p \in Planet)
  BY <1>1 DEF Job
<1>3. fleets[f].ships \subseteq Ship
  BY <1>2 DEF TypeOK, Fleet, NoFleet
<1>4. CASE ~ Exists(f)
  <2>1. JobFails(j)
    BY <1>4 DEF Perform
  <2> QED
    BY <1>1, <2>1 DEF Effect
<1>5. CASE Exists(f)
  <2>1. CASE j.kind = "attack" /\ Attack(j, f, p)
    <3>1. ShipsOf(Defenders(p)) \subseteq Ship
      BY DEF ShipsOf, Defenders, TypeOK, Fleet, NoFleet
    <3> QED
      BY <1>1, <1>2, <1>3, <1>5, <2>1, <3>1 DEF Attack, Effect, FightLost, FightWon
  <2>2. CASE j.kind = "spy" /\ Spy(f, p)
    BY <1>1, <1>2, <1>5, <2>2 DEF Spy, Effect
  <2>3. CASE j.kind = "colonize" /\ Colonize(j, f, p)
    <3>1. CASE ~ Unowned(p) /\ SendHome(f, p)
      BY <1>1, <1>2, <1>5, <2>3, <3>1 DEF Effect
    <3>2. CASE Unowned(p)
      <4>1. \E C \in SUBSET Ship : Settle(f, p, C)
        BY <1>3, <2>3, <3>2 DEF Colonize
      <4>2. failed' \in {failed, failed \cup {j}}
        BY <2>3, <3>2 DEF Colonize
      <4> QED
        BY <1>1, <1>2, <1>5, <2>3, <3>2, <4>1, <4>2 DEF Effect
    <3> QED
      BY <2>3, <3>1, <3>2 DEF Colonize
  <2>4. CASE j.kind = "travel" /\ Travel(j, f, p)
    BY <1>1, <1>2, <1>5, <2>4 DEF Travel, Own, Effect, HomeFleets, BasedWith
  <2>5. CASE j.kind = "transport" /\ Transport(f, p)
    BY <1>1, <1>2, <1>5, <2>5 DEF Transport, Effect
  <2>6. CASE j.kind = "return" /\ Return(j, f)
    BY <1>1, <1>2, <1>5, <2>6 DEF Return, Effect, HomeFleets, BasedWith
  <2> QED
    BY <1>5, <2>1, <2>2, <2>3, <2>4, <2>5, <2>6 DEF Perform
<1> QED
  BY <1>4, <1>5
-----------------------------------------------------------------------------
(***************************************************************************)
(* Facts about rows and jobs                                               *)
(***************************************************************************)

\* The null row is no row; a fleet that exists has a row.
LEMMA ExistingRow ==
  ASSUME TypeOK, NEW f \in FleetId
  PROVE  /\ Exists(f) => fleets[f] \in Fleet /\ f \in used
         /\ ~ Exists(f) => fleets[f] = NoFleet
         /\ f \notin used => fleets[f] = NoFleet
         /\ fleets[f].ships \subseteq Ship
  BY DEF TypeOK, Exists, NoFleet, Fleet, Mission

\* The rows the handlers write.
LEMMA FlyHomeRow ==
  ASSUME NEW r \in Fleet, NEW p \in Planet
  PROVE  FlyHome(r, p) \in Fleet
  BY DEF Fleet, FlyHome

LEMMA BasedRow ==
  ASSUME TypeOK, NEW p \in Planet
  PROVE  BasedFleet(p) \in Fleet
  BY DEF TypeOK, Fleet, BasedFleet

\* enqueue_at adds one job, a job that was not pending before.
LEMMA EnqueueAdds ==
  ASSUME NEW q, NEW kind, NEW f, NEW p, Enqueue(q, kind, f, p)
  PROVE  \E c \in Copy : /\ AJob(kind, f, p, c) \notin Pending
                         /\ delayed' = q \cup {AJob(kind, f, p, c)}
  BY DEF Enqueue

LEMMA EnqueueType ==
  ASSUME NEW q \in SUBSET Job, NEW kind, NEW f \in FleetId, NEW p,
         \/ kind \in Mission /\ p \in Planet
         \/ kind = "return" /\ p = None,
         Enqueue(q, kind, f, p)
  PROVE  delayed' \subseteq Job
<1>1. PICK c \in Copy : delayed' = q \cup {AJob(kind, f, p, c)}
  BY EnqueueAdds
<1>2. AJob(kind, f, p, c) \in Job
  BY DEF AJob, Job
<1> QED
  BY <1>1, <1>2
-----------------------------------------------------------------------------
(***************************************************************************)
(* Type correctness                                                        *)
(***************************************************************************)

\* The effects of the jobs keep the types.
LEMMA EffectType ==
  ASSUME TypeOK, NEW j \in Job, j \in ready, ready' = ready \ {j},
         Effect(j, j.fleet, j.planet),
         Exists(j.fleet) \/ JobFails(j)
  PROVE  TypeOK'
<1> DEFINE f == j.fleet
<1> DEFINE p == j.planet
<1>1. f \in FleetId
  BY DEF Job
<1>2. ready' \subseteq Job
  BY DEF TypeOK
<1>3. CASE JobFails(j)
  BY <1>2, <1>3 DEF JobFails, TypeOK
<1>4. ASSUME ~ JobFails(j) PROVE f \in used /\ fleets[f] \in Fleet
  BY <1>1, <1>4, ExistingRow
<1>5. CASE SendHome(f, p) /\ p \in Planet /\ ~ JobFails(j)
  <2>1. delayed' \subseteq Job
    BY <1>1, <1>5, EnqueueType DEF SendHome, TypeOK
  <2>2. FlyHome(fleets[f], p) \in Fleet
    BY <1>4, <1>5, FlyHomeRow
  <2> QED
    BY <1>1, <1>2, <1>4, <1>5, <2>1, <2>2 DEF SendHome, TypeOK
<1>6. ASSUME NEW h \in FleetId, fleets[h].mission = "based",
             MergeInto(h, f), ~ JobFails(j)
      PROVE  TypeOK'
  <2>1. h \in used
    BY <1>6, ExistingRow DEF Exists
  <2>2. [fleets[h] EXCEPT !.ships = @ \cup fleets[f].ships] \in Fleet
    BY <1>1, <1>6, ExistingRow DEF Fleet, Exists
  <2> QED
    BY <1>1, <1>2, <1>4, <1>6, <2>1, <2>2 DEF MergeInto, Merged, TypeOK
<1>7. ASSUME NEW K \in SUBSET Ship, FightLost(f, p, K), ~ JobFails(j)
      PROVE  TypeOK'
  <2>1. \A g \in Defenders(p) : [fleets[g] EXCEPT !.ships = @ \cap K] \in Fleet
    BY ExistingRow DEF Defenders, Fleet
  <2>2. \A g \in Defenders(p) : g \in used
    BY ExistingRow DEF Defenders
  <2>3. fleets' \in [FleetId -> Fleet \cup {NoFleet}]
    BY <1>7, <2>1 DEF FightLost, TypeOK
  <2>4. \A g \in FleetId \ used : fleets'[g] = NoFleet
    BY <1>7, <2>2 DEF FightLost, TypeOK
  <2> QED
    BY <1>2, <1>7, <2>3, <2>4 DEF FightLost, TypeOK
<1>8. ASSUME NEW K \in SUBSET Ship, FightWon(f, p, K), p \in Planet, ~ JobFails(j)
      PROVE  TypeOK'
  <2>1. [fleets[f] EXCEPT !.ships = K] \in Fleet
    BY <1>4, <1>8 DEF Fleet
  <2>2. FlyHome([fleets[f] EXCEPT !.ships = K], p) \in Fleet
    BY <1>8, <2>1, FlyHomeRow
  <2>3. fleets' \in [FleetId -> Fleet \cup {NoFleet}]
    BY <1>8, <2>2 DEF FightWon, TypeOK
  <2>4. \A g \in FleetId \ used : fleets'[g] = NoFleet
    BY <1>4, <1>8 DEF FightWon, TypeOK
  <2>5. delayed' \subseteq Job
    BY <1>1, <1>8, EnqueueType DEF FightWon, TypeOK
  <2> QED
    BY <1>2, <1>8, <2>3, <2>4, <2>5 DEF FightWon, TypeOK
<1>9. CASE (FightDrawn(f, p) \/ LoseDrone(f)) /\ ~ JobFails(j)
  BY <1>1, <1>2, <1>9 DEF FightDrawn, LoseDrone, TypeOK
<1>10. ASSUME NEW C \in SUBSET Ship, Settle(f, p, C), p \in Planet,
              failed' \in {failed, failed \cup {j}}, ~ JobFails(j)
       PROVE  TypeOK'
  <2>1. [fleets[f] EXCEPT !.origin = p, !.start = p, !.target = p,
                          !.mission = "based",
                          !.ships = fleets[f].ships \ C] \in Fleet
    BY <1>4, <1>10 DEF Fleet
  <2>2. fleets[f].owner \in User \cup {None}
    BY <1>4, <1>10 DEF Fleet
  <2> QED
    BY <1>1, <1>2, <1>4, <1>10, <2>1, <2>2 DEF Settle, TypeOK
<1>11. CASE Stay(f) /\ ~ JobFails(j)
  <2>1. [fleets[f] EXCEPT !.start = fleets[f].target] \in Fleet
    BY <1>4, <1>11 DEF Fleet
  <2> QED
    BY <1>1, <1>2, <1>4, <1>11, <2>1 DEF Stay, TypeOK
<1> QED
  BY <1>3, <1>5, <1>6, <1>7, <1>8, <1>9, <1>10, <1>11 DEF Effect, BasedWith

LEMMA NextType == TypeOK /\ [Next]_vars => TypeOK'
<1> SUFFICES ASSUME TypeOK, [Next]_vars PROVE TypeOK'
  OBVIOUS
<1>1. ASSUME NEW f \in FleetId, NEW g \in FleetId, NEW m \in Mission,
             NEW dest \in Planet, NEW S \in SUBSET fleets[f].ships,
             Move(f, g, m, dest, S)
      PROVE  TypeOK'
  <2>1. fleets[f] \in Fleet /\ f \in used
    BY <1>1, ExistingRow DEF Move
  <2>2. /\ [fleets[f] EXCEPT !.ships = @ \ S] \in Fleet
        /\ [BasedFleet(fleets[f].origin) EXCEPT !.target = dest, !.mission = m,
                                                !.ships = S] \in Fleet
    <3>1. S \subseteq Ship
      BY <2>1 DEF Fleet
    <3>2. [fleets[f] EXCEPT !.ships = @ \ S] \in Fleet
      BY <2>1 DEF Fleet
    <3> QED
      BY <1>1, <2>1, <3>1, <3>2 DEF BasedFleet, Fleet, TypeOK
  <2>3. delayed' \subseteq Job
    BY <1>1, EnqueueType DEF Move, TypeOK
  <2> QED
    BY <1>1, <2>1, <2>2, <2>3 DEF Move, TypeOK
<1>2. ASSUME NEW f \in FleetId, NEW matches \in BOOLEAN, BreakupMission(f, matches)
      PROVE  TypeOK'
  <2>1. fleets[f] \in Fleet /\ f \in used
    BY <1>2, ExistingRow DEF BreakupMission
  <2>2. [fleets[f] EXCEPT !.start = fleets[f].target,
                          !.target = fleets[f].origin] \in Fleet
    BY <2>1 DEF Fleet
  <2>3. delayed' \subseteq Job
    <3> DEFINE removed == {j \in delayed : /\ j.kind = fleets[f].mission
                                           /\ j.fleet = f
                                           /\ j.planet = fleets[f].target}
    <3> DEFINE q == IF matches THEN delayed \ removed ELSE delayed
    <3>1. Enqueue(q, "return", f, None)
      BY <1>2 DEF BreakupMission
    <3>2. q \in SUBSET Job
      BY DEF TypeOK
    <3> HIDE DEF q
    <3> QED
      BY <3>1, <3>2, EnqueueType
  <2>4. fleets' = [fleets EXCEPT ![f] = [fleets[f] EXCEPT
                     !.start = fleets[f].target, !.target = fleets[f].origin]]
    BY <1>2, <2>1 DEF BreakupMission, TypeOK
  <2> QED
    BY <1>2, <2>1, <2>2, <2>3, <2>4 DEF BreakupMission, TypeOK
<1>3. ASSUME NEW u \in User, NEW a \in Alliance \cup {None}, Diplomacy(u, a)
      PROVE  TypeOK'
  BY <1>3 DEF Diplomacy, TypeOK
<1>4. ASSUME NEW s \in Ship, NEW p \in Planet, NEW g \in FleetId,
             AddShipToPlanet(s, p, g)
      PROVE  TypeOK'
  <2>1. ASSUME NEW h \in HomeFleets(p),
               fleets' = [fleets EXCEPT ![h].ships = @ \cup {s}], UNCHANGED used
        PROVE  TypeOK'
    <3>1. h \in FleetId /\ h \in used
      BY <2>1, ExistingRow DEF HomeFleets, Exists
    <3>2. [fleets[h] EXCEPT !.ships = @ \cup {s}] \in Fleet
      BY <2>1, <3>1, ExistingRow DEF Fleet, HomeFleets, Exists
    <3> QED
      BY <1>4, <2>1, <3>1, <3>2 DEF AddShipToPlanet, TypeOK
  <2>2. ASSUME used' = used \cup {g},
               fleets' = [fleets EXCEPT ![g] = [BasedFleet(p) EXCEPT !.ships = {s}]]
        PROVE  TypeOK'
    <3>1. [BasedFleet(p) EXCEPT !.ships = {s}] \in Fleet
      BY BasedRow DEF Fleet
    <3> QED
      BY <1>4, <2>2, <3>1 DEF AddShipToPlanet, TypeOK
  <2> QED
    BY <1>4, <2>1, <2>2 DEF AddShipToPlanet
<1>5. ASSUME NEW j \in delayed, Release(j) PROVE TypeOK'
  BY <1>5 DEF Release, TypeOK
<1>6. ASSUME NEW j \in ready, Perform(j) PROVE TypeOK'
  BY <1>6, PerformEffect, EffectType
<1>7. CASE UNCHANGED vars
  BY <1>7 DEF vars, TypeOK
<1> QED
  BY <1>1, <1>2, <1>3, <1>4, <1>5, <1>6, <1>7 DEF Next

\* Every variable keeps its type, for any number of users, planets and fleets
\* (the columns of fleets and shipfleets, the jobs of fleet.rb).
THEOREM TypeCorrect == Spec => []TypeOK
<1>1. Init => TypeOK
  BY FleetAssumption DEF Init, TypeOK
<1> QED
  BY <1>1, NextType, PTL DEF Spec
-----------------------------------------------------------------------------
(***************************************************************************)
(* What the effect of a job of fleet f leaves alone                        *)
(***************************************************************************)

\* Where a row belongs to and where it is.
SameTrip(g) == /\ fleets'[g].owner   = fleets[g].owner
               /\ fleets'[g].origin  = fleets[g].origin
               /\ fleets'[g].mission = fleets[g].mission
SamePlace(g) == /\ fleets'[g].start  = fleets[g].start
                /\ fleets'[g].target = fleets[g].target

\* The rows of other fleets keep all columns, or are deleted; the row of f
\* keeps its home and mission, unless f settles on an unowned planet.
LEMMA EffectRows ==
  ASSUME TypeOK, NEW j \in Job, j \in ready,
         Effect(j, j.fleet, j.planet), Exists(j.fleet)
  PROVE  /\ \A g \in FleetId : g # j.fleet /\ Exists(g)' =>
              Exists(g) /\ SameTrip(g) /\ SamePlace(g)
         /\ \/ UNCHANGED owner /\ (Exists(j.fleet)' => SameTrip(j.fleet))
            \/ /\ Unowned(j.planet) /\ j.planet \in Planet
               /\ owner' = [owner EXCEPT ![j.planet] = fleets[j.fleet].owner]
               /\ Exists(j.fleet)'
               /\ fleets'[j.fleet].owner   = fleets[j.fleet].owner
               /\ fleets'[j.fleet].origin  = j.planet
               /\ fleets'[j.fleet].start   = j.planet
               /\ fleets'[j.fleet].target  = j.planet
               /\ fleets'[j.fleet].mission = "based"
<1> DEFINE f == j.fleet
<1> DEFINE p == j.planet
<1>1. f \in FleetId /\ fleets[f] \in Fleet
  BY ExistingRow DEF Job
<1>2. \A g \in FleetId : Exists(g) => fleets[g] \in Fleet
  BY ExistingRow
<1>3. DOMAIN fleets = FleetId /\ fleets \in [FleetId -> Fleet \cup {NoFleet}]
  BY DEF TypeOK
<1> USE DEF Exists, SameTrip, SamePlace
<1>4. CASE JobFails(j)
  BY <1>4 DEF JobFails
<1>5. CASE SendHome(f, p)
  BY <1>1, <1>3, <1>5 DEF SendHome, FlyHome, Fleet
<1>6. ASSUME NEW h \in FleetId, fleets[h].mission = "based", MergeInto(h, f)
      PROVE  /\ UNCHANGED owner /\ ~ Exists(f)'
             /\ \A g \in FleetId : g # f /\ Exists(g)' =>
                  Exists(g) /\ SameTrip(g) /\ SamePlace(g)
  <2>1. fleets[h] \in Fleet
    BY <1>2, <1>6
  <2>2. fleets'[f] = NoFleet
    BY <1>1, <1>3, <1>6 DEF MergeInto, Merged
  <2>3. \A g \in FleetId : g # f => fleets'[g] =
          IF g = h THEN [fleets[h] EXCEPT !.ships = @ \cup fleets[f].ships]
                   ELSE fleets[g]
    BY <1>1, <1>3, <1>6 DEF MergeInto, Merged
  <2>4. \A g \in FleetId : g # f => SameTrip(g) /\ SamePlace(g)
    BY <2>1, <2>3 DEF Fleet
  <2> QED
    BY <1>6, <2>2, <2>4 DEF MergeInto, NoFleet
<1>7. ASSUME NEW K \in SUBSET Ship, FightLost(f, p, K)
      PROVE  /\ UNCHANGED owner /\ ~ Exists(f)'
             /\ \A g \in FleetId : g # f /\ Exists(g)' =>
                  Exists(g) /\ SameTrip(g) /\ SamePlace(g)
  <2>1. \A g \in FleetId : g # f => fleets'[g] =
          IF g \in Defenders(p) THEN [fleets[g] EXCEPT !.ships = @ \cap K]
                                ELSE fleets[g]
    BY <1>7 DEF FightLost
  <2>2. \A g \in Defenders(p) : fleets[g] \in Fleet
    BY <1>2 DEF Defenders
  <2>3. \A g \in FleetId : g # f => SameTrip(g) /\ SamePlace(g)
    BY <2>1, <2>2 DEF Fleet
  <2> QED
    BY <1>1, <1>7, <2>3 DEF FightLost, NoFleet
<1>8. ASSUME NEW K \in SUBSET Ship, FightWon(f, p, K)
      PROVE  /\ UNCHANGED owner /\ SameTrip(f)
             /\ \A g \in FleetId : g # f /\ Exists(g)' =>
                  Exists(g) /\ SameTrip(g) /\ SamePlace(g)
  <2>1. fleets'[f] = FlyHome([fleets[f] EXCEPT !.ships = K], p)
    BY <1>1, <1>8 DEF FightWon
  <2>2. SameTrip(f)
    BY <1>1, <2>1 DEF FlyHome, Fleet
  <2>3. \A g \in FleetId : g # f => fleets'[g] =
          IF g \in Defenders(p) THEN NoFleet ELSE fleets[g]
    BY <1>8 DEF FightWon
  <2> QED
    BY <1>8, <2>2, <2>3 DEF FightWon, NoFleet
<1>9. CASE FightDrawn(f, p)
  BY <1>1, <1>9 DEF FightDrawn, NoFleet
<1>10. CASE LoseDrone(f)
  BY <1>1, <1>3, <1>10 DEF LoseDrone, NoFleet
<1>11. ASSUME NEW C \in SUBSET Ship, Settle(f, p, C), Unowned(p), p \in Planet
       PROVE  /\ owner' = [owner EXCEPT ![p] = fleets[f].owner]
              /\ Exists(f)'
              /\ fleets'[f].owner   = fleets[f].owner
              /\ fleets'[f].origin  = p
              /\ fleets'[f].start   = p
              /\ fleets'[f].target  = p
              /\ fleets'[f].mission = "based"
              /\ \A g \in FleetId : g # f => fleets'[g] = fleets[g]
  BY <1>1, <1>3, <1>11 DEF Settle, Fleet
<1>12. CASE Stay(f)
  BY <1>1, <1>3, <1>12 DEF Stay, Fleet
<1> QED
  BY <1>4, <1>5, <1>6, <1>7, <1>8, <1>9, <1>10, <1>11, <1>12 DEF Effect, BasedWith
-----------------------------------------------------------------------------
(***************************************************************************)
(* Every fleet has a home of its owner, every planet at most one fleet     *)
(***************************************************************************)

HomeInv == HomeBelongsToCaptain /\ OneHomeFleet

\* A request or job that changes no owner, and lets no fleet appear or change
\* its home, keeps both.
LEMMA HomeFrame ==
  ASSUME TypeOK, HomeInv, UNCHANGED owner,
         \A g \in FleetId : Exists(g)' => Exists(g) /\ SameTrip(g)
  PROVE  HomeInv'
<1>1. HomeBelongsToCaptain'
  BY DEF HomeInv, HomeBelongsToCaptain, SameTrip
<1>2. \A p \in Planet : HomeFleets(p)' \subseteq HomeFleets(p)
  BY DEF HomeFleets, SameTrip, Exists
<1> QED
  BY <1>1, <1>2 DEF HomeInv, OneHomeFleet

\* A new fleet with home p, of p's owner, that is based there only if no other
\* fleet is.
LEMMA HomeNew ==
  ASSUME TypeOK, HomeInv, UNCHANGED owner, NEW n \in FleetId, NEW p \in Planet,
         \A g \in FleetId : g # n /\ Exists(g)' => Exists(g) /\ SameTrip(g),
         owner[p] \in User, fleets'[n].owner = owner[p], fleets'[n].origin = p,
         fleets'[n].mission # "based" \/ HomeFleets(p) = {}
  PROVE  HomeInv'
<1>1. HomeBelongsToCaptain'
  BY DEF HomeInv, HomeBelongsToCaptain, SameTrip
<1>2. \A q \in Planet : HomeFleets(q)' \subseteq HomeFleets(q) \cup {n}
  BY DEF HomeFleets, SameTrip, Exists
<1>3. \A q \in Planet : n \in HomeFleets(q)' => q = p /\ HomeFleets(p) = {}
  BY DEF HomeFleets
<1>4. OneHomeFleet'
  BY <1>2, <1>3 DEF HomeInv, OneHomeFleet
<1> QED
  BY <1>1, <1>4 DEF HomeInv

\* Jobs: a fleet settles only on a planet nobody owns, so nobody's fleet has
\* its home there yet.
LEMMA HomeEffect ==
  ASSUME TypeOK, HomeInv, NEW j \in Job, j \in ready,
         Effect(j, j.fleet, j.planet), Exists(j.fleet)
  PROVE  HomeInv'
<1> DEFINE f == j.fleet
<1> DEFINE p == j.planet
<1>1. f \in FleetId
  BY DEF Job
<1>2. CASE UNCHANGED owner /\ (Exists(f)' => SameTrip(f))
  <2>1. \A g \in FleetId : Exists(g)' => Exists(g) /\ SameTrip(g)
    BY <1>2, EffectRows
  <2> QED
    BY <1>2, <2>1, HomeFrame
<1>3. CASE /\ Unowned(p) /\ p \in Planet
           /\ owner' = [owner EXCEPT ![p] = fleets[f].owner]
           /\ fleets'[f].owner = fleets[f].owner
           /\ fleets'[f].origin = p
  <2>1. \A g \in FleetId : g # f /\ Exists(g)' => Exists(g) /\ SameTrip(g)
    BY EffectRows
  <2>2. \A g \in FleetId : Exists(g) => fleets[g].origin # p
    BY <1>3, FleetAssumption DEF HomeInv, HomeBelongsToCaptain, Unowned
  <2>3. \A g \in FleetId : Exists(g) => fleets[g].origin \in Planet
    BY ExistingRow DEF Fleet
  <2>4. owner'[p] = fleets[f].owner /\ \A q \in Planet : q # p => owner'[q] = owner[q]
    BY <1>3 DEF TypeOK
  <2>5. HomeBelongsToCaptain'
    <3> SUFFICES ASSUME NEW g \in FleetId, Exists(g)'
                 PROVE  /\ fleets'[g].owner \in User
                        /\ owner'[fleets'[g].origin] = fleets'[g].owner
      BY DEF HomeBelongsToCaptain
    <3>1. CASE g = f
      BY <1>1, <1>3, <2>4, <3>1 DEF HomeInv, HomeBelongsToCaptain
    <3>2. CASE g # f
      BY <2>1, <2>2, <2>3, <2>4, <3>2 DEF HomeInv, HomeBelongsToCaptain, SameTrip
    <3> QED
      BY <3>1, <3>2
  <2>6. HomeFleets(p)' \subseteq {f}
    BY <2>1, <2>2 DEF HomeFleets, SameTrip, Exists
  <2>7. \A q \in Planet : q # p => HomeFleets(q)' \subseteq HomeFleets(q)
    BY <1>3, <2>1 DEF HomeFleets, SameTrip, Exists
  <2>8. OneHomeFleet'
    BY <2>6, <2>7 DEF HomeInv, OneHomeFleet
  <2> QED
    BY <2>5, <2>8 DEF HomeInv
<1> QED
  BY <1>2, <1>3, EffectRows

LEMMA HomeNext == TypeOK /\ HomeInv /\ [Next]_vars => HomeInv'
<1> SUFFICES ASSUME TypeOK, HomeInv, [Next]_vars PROVE HomeInv'
  OBVIOUS
<1>1. ASSUME NEW f \in FleetId, NEW g \in FleetId, NEW m \in Mission,
             NEW dest \in Planet, NEW S \in SUBSET fleets[f].ships,
             Move(f, g, m, dest, S)
      PROVE  HomeInv'
  <2> DEFINE p == fleets[f].origin
  <2>1. fleets[f] \in Fleet /\ p \in Planet /\ f # g
    BY <1>1, ExistingRow DEF Move, Fleet
  <2>2. owner[p] \in User
    BY <1>1 DEF Move, HomeInv, HomeBelongsToCaptain
  <2>3. fleets'[g] = [BasedFleet(p) EXCEPT !.target = dest, !.mission = m, !.ships = S]
    BY <1>1, <2>1 DEF Move, TypeOK
  <2>4. /\ fleets'[g].owner = owner[p] /\ fleets'[g].origin = p
        /\ fleets'[g].mission # "based"
    BY <2>3 DEF BasedFleet, Mission
  <2>5. \A h \in FleetId : h # g /\ Exists(h)' => Exists(h) /\ SameTrip(h)
    BY <1>1, <2>1 DEF Move, TypeOK, Exists, SameTrip, Fleet
  <2> HIDE DEF p
  <2> QED
    BY <1>1, <2>1, <2>2, <2>4, <2>5, HomeNew DEF Move
<1>2. ASSUME NEW f \in FleetId, NEW matches \in BOOLEAN, BreakupMission(f, matches)
      PROVE  HomeInv'
  <2>1. fleets[f] \in Fleet
    BY <1>2, ExistingRow DEF BreakupMission
  <2>2. fleets' = [fleets EXCEPT ![f] = [fleets[f] EXCEPT
                     !.start = fleets[f].target, !.target = fleets[f].origin]]
    BY <1>2, <2>1 DEF BreakupMission, TypeOK
  <2>3. \A g \in FleetId : Exists(g)' => Exists(g) /\ SameTrip(g)
    BY <2>1, <2>2 DEF TypeOK, Exists, SameTrip, Fleet
  <2> QED
    BY <1>2, <2>3, HomeFrame DEF BreakupMission
<1>3. ASSUME NEW u \in User, NEW a \in Alliance \cup {None}, Diplomacy(u, a)
      PROVE  HomeInv'
  BY <1>3, HomeFrame DEF Diplomacy, Exists, SameTrip
<1>4. ASSUME NEW s \in Ship, NEW p \in Planet, NEW g \in FleetId,
             AddShipToPlanet(s, p, g)
      PROVE  HomeInv'
  <2>1. ASSUME NEW h \in HomeFleets(p),
               fleets' = [fleets EXCEPT ![h].ships = @ \cup {s}]
        PROVE  HomeInv'
    <3>1. h \in FleetId /\ fleets[h] \in Fleet
      BY ExistingRow DEF HomeFleets, Exists
    <3>2. \A k \in FleetId : Exists(k)' => Exists(k) /\ SameTrip(k)
      BY <2>1, <3>1 DEF TypeOK, Exists, SameTrip, Fleet
    <3> QED
      BY <1>4, <3>2, HomeFrame DEF AddShipToPlanet
  <2>2. ASSUME HomeFleets(p) = {}, g \notin used,
               fleets' = [fleets EXCEPT ![g] = [BasedFleet(p) EXCEPT !.ships = {s}]]
        PROVE  HomeInv'
    <3>1. fleets'[g] = [BasedFleet(p) EXCEPT !.ships = {s}]
      BY <2>2 DEF TypeOK
    <3>2. fleets'[g].owner = owner[p] /\ fleets'[g].origin = p
      BY <3>1 DEF BasedFleet
    <3>3. \A h \in FleetId : h # g /\ Exists(h)' => Exists(h) /\ SameTrip(h)
      BY <2>2 DEF TypeOK, Exists, SameTrip
    <3>4. owner[p] \in User
      BY <1>4 DEF AddShipToPlanet, TypeOK
    <3> QED
      BY <1>4, <2>2, <3>2, <3>3, <3>4, HomeNew DEF AddShipToPlanet
  <2> QED
    BY <1>4, <2>1, <2>2 DEF AddShipToPlanet
<1>5. ASSUME NEW j \in delayed, Release(j) PROVE HomeInv'
  BY <1>5, HomeFrame DEF Release, Exists, SameTrip
<1>6. ASSUME NEW j \in ready, Perform(j) PROVE HomeInv'
  <2>1. CASE Exists(j.fleet)
    BY <1>6, <2>1, PerformEffect, HomeEffect
  <2>2. CASE JobFails(j)
    BY <2>2, HomeFrame DEF JobFails, Exists, SameTrip
  <2> QED
    BY <1>6, <2>1, <2>2, PerformEffect
<1>7. CASE UNCHANGED vars
  BY <1>7, HomeFrame DEF vars, Exists, SameTrip
<1> QED
  BY <1>1, <1>2, <1>3, <1>4, <1>5, <1>6, <1>7 DEF Next

\* No planet ever gets a second home fleet, and no returning ship ever joins
\* somebody else's fleet (get_home_fleet, add_ship_to_planet, colonize).
THEOREM HomeCorrect == Spec => [](HomeBelongsToCaptain /\ OneHomeFleet)
<1>1. Init => HomeInv
  BY DEF Init, HomeInv, HomeBelongsToCaptain, OneHomeFleet, HomeFleets, Exists, NoFleet
<1>2. HomeInv => HomeBelongsToCaptain /\ OneHomeFleet
  BY DEF HomeInv
<1> QED
  BY <1>1, <1>2, HomeNext, TypeCorrect, PTL DEF Spec
-----------------------------------------------------------------------------
(***************************************************************************)
(* Every ship is in one fleet, and stays with its owner                    *)
(***************************************************************************)

\* All ships a job leaves in fleet g come from g, but for a fleet h that f is
\* merged into; a fight never adds ships.
LEMMA EffectShips ==
  ASSUME TypeOK, NEW j \in Job, j \in ready,
         Effect(j, j.fleet, j.planet), Exists(j.fleet)
  PROVE  /\ UNCHANGED yard
         /\ \E h \in FleetId :
              /\ \A g \in FleetId \ {h} : fleets'[g].ships \subseteq fleets[g].ships
              /\ \/ fleets'[h].ships \subseteq fleets[h].ships
                 \/ /\ h # j.fleet /\ BasedWith(h, j.fleet)
                    /\ fleets'[j.fleet].ships = {}
                    /\ fleets'[h].ships = fleets[h].ships \cup fleets[j.fleet].ships
<1> DEFINE f == j.fleet
<1> DEFINE p == j.planet
<1> DEFINE Shrink(g) == fleets'[g].ships \subseteq fleets[g].ships
<1>1. f \in FleetId /\ fleets[f] \in Fleet
  BY ExistingRow DEF Job
<1>2. \A g \in FleetId : Exists(g) => fleets[g] \in Fleet
  BY ExistingRow
<1>3. fleets \in [FleetId -> Fleet \cup {NoFleet}]
  BY DEF TypeOK
<1>4. UNCHANGED yard
  BY DEF Effect, JobFails, SendHome, MergeInto, FightLost, FightWon, FightDrawn,
         LoseDrone, Settle, Stay
<1>5. SUFFICES \/ \A g \in FleetId : Shrink(g)
               \/ \E h \in FleetId :
                    /\ h # f /\ BasedWith(h, f) /\ fleets'[f].ships = {}
                    /\ fleets'[h].ships = fleets[h].ships \cup fleets[f].ships
                    /\ \A g \in FleetId \ {h} : Shrink(g)
  BY <1>1, <1>4
<1>6. CASE JobFails(j)
  BY <1>6 DEF JobFails
<1>7. CASE SendHome(f, p)
  BY <1>1, <1>3, <1>7 DEF SendHome, FlyHome, Fleet
<1>8. ASSUME NEW h \in FleetId, BasedWith(h, f), MergeInto(h, f), h # f
      PROVE  /\ fleets'[f].ships = {}
             /\ fleets'[h].ships = fleets[h].ships \cup fleets[f].ships
             /\ \A g \in FleetId \ {h} : Shrink(g)
  <2>1. fleets[h] \in Fleet
    BY <1>2, <1>8 DEF BasedWith, Exists
  <2> QED
    BY <1>1, <1>3, <1>8, <2>1 DEF MergeInto, Merged, NoFleet, Fleet
<1>9. CASE MergeInto(f, f)
  BY <1>1, <1>3, <1>9 DEF MergeInto, Merged, NoFleet
<1>10. ASSUME NEW K \in SUBSET Ship, FightLost(f, p, K)
       PROVE  \A g \in FleetId : Shrink(g)
  <2> SUFFICES ASSUME NEW g \in FleetId PROVE Shrink(g)
    OBVIOUS
  <2>1. CASE g = f
    BY <1>10, <2>1 DEF FightLost, NoFleet
  <2>2. CASE g # f /\ g \in Defenders(p)
    <3>1. fleets[g] \in Fleet
      BY <1>2, <2>2 DEF Defenders
    <3>2. fleets'[g] = [fleets[g] EXCEPT !.ships = @ \cap K]
      BY <1>10, <2>2 DEF FightLost
    <3> QED
      BY <3>1, <3>2 DEF Fleet
  <2>3. CASE g # f /\ g \notin Defenders(p)
    BY <1>10, <2>3 DEF FightLost
  <2> QED
    BY <2>1, <2>2, <2>3
<1>11. ASSUME NEW K \in SUBSET fleets[f].ships, FightWon(f, p, K)
       PROVE  \A g \in FleetId : Shrink(g)
  <2>1. fleets'[f] = FlyHome([fleets[f] EXCEPT !.ships = K], p)
    BY <1>1, <1>11 DEF FightWon
  <2>2. Shrink(f)
    BY <1>1, <2>1 DEF FlyHome, Fleet
  <2>3. \A g \in FleetId : g # f => fleets'[g] =
          IF g \in Defenders(p) THEN NoFleet ELSE fleets[g]
    BY <1>11 DEF FightWon
  <2> QED
    BY <2>2, <2>3 DEF NoFleet
<1>12. CASE FightDrawn(f, p)
  BY <1>1, <1>12 DEF FightDrawn, NoFleet
<1>13. CASE LoseDrone(f)
  BY <1>1, <1>3, <1>13 DEF LoseDrone, NoFleet
<1>14. ASSUME NEW C \in SUBSET Ship, Settle(f, p, C)
       PROVE  \A g \in FleetId : Shrink(g)
  BY <1>1, <1>3, <1>14 DEF Settle, Fleet
<1>15. CASE Stay(f)
  BY <1>1, <1>3, <1>15 DEF Stay, Fleet
<1>16. ASSUME NEW K \in SUBSET Ship, FightWon(f, p, K)
       PROVE  K \in SUBSET fleets[f].ships
  BY <1>16 DEF FightWon
<1> QED
  BY <1>6, <1>7, <1>8, <1>9, <1>10, <1>11, <1>12, <1>13, <1>14, <1>15, <1>16 DEF Effect

\* Jobs: merging is the only way into another fleet, and f's row goes with it.
LEMMA OneFleetEffect ==
  ASSUME TypeOK, ShipInOneFleet, NEW j \in Job, j \in ready,
         Effect(j, j.fleet, j.planet), Exists(j.fleet)
  PROVE  ShipInOneFleet'
<1> DEFINE f == j.fleet
<1>1. f \in FleetId
  BY DEF Job
<1>2. PICK h \in FleetId :
        /\ UNCHANGED yard
        /\ \A g \in FleetId \ {h} : fleets'[g].ships \subseteq fleets[g].ships
        /\ \/ fleets'[h].ships \subseteq fleets[h].ships
           \/ /\ h # f
              /\ fleets'[f].ships = {}
              /\ fleets'[h].ships = fleets[h].ships \cup fleets[f].ships
  BY EffectShips
<1>3. CASE fleets'[h].ships \subseteq fleets[h].ships
  <2>1. \A g \in FleetId : fleets'[g].ships \subseteq fleets[g].ships
    BY <1>2, <1>3
  <2> QED
    BY <1>2, <2>1 DEF ShipInOneFleet
<1>4. CASE /\ h # f /\ fleets'[f].ships = {}
           /\ fleets'[h].ships = fleets[h].ships \cup fleets[f].ships
  <2>1. \A g \in FleetId \ {h, f} :
          fleets'[g].ships \cap (fleets[h].ships \cup fleets[f].ships) = {}
    BY <1>1, <1>2 DEF ShipInOneFleet
  <2>2. \A g, k \in FleetId : g # k => fleets'[g].ships \cap fleets'[k].ships = {}
    <3> SUFFICES ASSUME NEW g \in FleetId, NEW k \in FleetId, g # k
                 PROVE  fleets'[g].ships \cap fleets'[k].ships = {}
      OBVIOUS
    <3>1. CASE g = f \/ k = f
      BY <1>4, <3>1
    <3>2. CASE g # f /\ k # f /\ (g = h \/ k = h)
      BY <1>4, <2>1, <3>2
    <3>3. CASE g \notin {f, h} /\ k \notin {f, h}
      BY <1>2, <3>3 DEF ShipInOneFleet
    <3> QED
      BY <3>1, <3>2, <3>3
  <2>3. \A g \in FleetId : fleets'[g].ships \cap yard' = {}
    BY <1>1, <1>2, <1>4 DEF ShipInOneFleet
  <2> QED
    BY <2>2, <2>3 DEF ShipInOneFleet
<1> QED
  BY <1>2, <1>3, <1>4

\* What a request changes in the ships of the fleets.
LEMMA MoveShips ==
  ASSUME TypeOK, NEW f \in FleetId, NEW g \in FleetId, NEW m \in Mission,
         NEW dest \in Planet, NEW S \in SUBSET fleets[f].ships,
         Move(f, g, m, dest, S)
  PROVE  /\ f # g /\ UNCHANGED yard
         /\ fleets[g].ships = {}
         /\ fleets'[f].ships = fleets[f].ships \ S
         /\ fleets'[g].ships = S
         /\ fleets'[g].owner = owner[fleets[f].origin]
         /\ fleets'[f].owner = fleets[f].owner
         /\ \A h \in FleetId \ {f, g} : fleets'[h] = fleets[h]
<1>1. fleets[f] \in Fleet /\ f # g /\ fleets[g] = NoFleet
  BY ExistingRow DEF Move
<1>2. DOMAIN fleets = FleetId
  BY DEF TypeOK
<1>3. fleets'[g] = [BasedFleet(fleets[f].origin) EXCEPT
                      !.target = dest, !.mission = m, !.ships = S]
  BY <1>1, <1>2 DEF Move
<1>4. fleets'[g].ships = S /\ fleets'[g].owner = owner[fleets[f].origin]
  BY <1>3 DEF BasedFleet
<1>5. fleets'[f] = [fleets[f] EXCEPT !.ships = @ \ S]
  BY <1>1, <1>2 DEF Move
<1>6. fleets'[f].ships = fleets[f].ships \ S /\ fleets'[f].owner = fleets[f].owner
  BY <1>1, <1>5 DEF Fleet
<1> QED
  BY <1>1, <1>2, <1>4, <1>6 DEF Move, NoFleet

LEMMA BreakupShips ==
  ASSUME TypeOK, NEW f \in FleetId, NEW matches \in BOOLEAN, BreakupMission(f, matches)
  PROVE  /\ UNCHANGED yard
         /\ \A g \in FleetId : /\ fleets'[g].ships = fleets[g].ships
                               /\ fleets'[g].owner = fleets[g].owner
<1>1. fleets[f] \in Fleet
  BY ExistingRow DEF BreakupMission
<1>2. fleets' = [fleets EXCEPT ![f] = [fleets[f] EXCEPT
                   !.start = fleets[f].target, !.target = fleets[f].origin]]
  BY <1>1 DEF BreakupMission, TypeOK
<1> QED
  BY <1>1, <1>2 DEF BreakupMission, TypeOK, Fleet

\* Ship s leaves the yard and joins a fleet h; h is based on p or new.
LEMMA AddShipShips ==
  ASSUME TypeOK, NEW s \in Ship, NEW p \in Planet, NEW g \in FleetId,
         AddShipToPlanet(s, p, g)
  PROVE  /\ s \in yard /\ yard' = yard \ {s}
         /\ \E h \in FleetId :
              /\ fleets'[h].ships = fleets[h].ships \cup {s}
              /\ \/ h \in HomeFleets(p) /\ fleets'[h].owner = fleets[h].owner
                 \/ fleets[h] = NoFleet /\ fleets'[h].owner = owner[p]
              /\ \A k \in FleetId \ {h} : fleets'[k] = fleets[k]
<1>1. s \in yard /\ yard' = yard \ {s}
  BY DEF AddShipToPlanet
<1>2. ASSUME NEW h \in HomeFleets(p), fleets' = [fleets EXCEPT ![h].ships = @ \cup {s}]
      PROVE  /\ h \in FleetId /\ fleets'[h].ships = fleets[h].ships \cup {s}
             /\ fleets'[h].owner = fleets[h].owner
             /\ \A k \in FleetId \ {h} : fleets'[k] = fleets[k]
  <2>1. h \in FleetId /\ fleets[h] \in Fleet
    BY ExistingRow DEF HomeFleets, Exists
  <2> QED
    BY <1>2, <2>1 DEF TypeOK, Fleet
<1>3. ASSUME g \notin used,
             fleets' = [fleets EXCEPT ![g] = [BasedFleet(p) EXCEPT !.ships = {s}]]
      PROVE  /\ fleets'[g].ships = fleets[g].ships \cup {s}
             /\ fleets[g] = NoFleet /\ fleets'[g].owner = owner[p]
             /\ \A k \in FleetId \ {g} : fleets'[k] = fleets[k]
  BY <1>3, ExistingRow DEF TypeOK, BasedFleet, NoFleet
<1> QED
  BY <1>1, <1>2, <1>3 DEF AddShipToPlanet

LEMMA OneFleetNext == TypeOK /\ ShipInOneFleet /\ [Next]_vars => ShipInOneFleet'
<1> SUFFICES ASSUME TypeOK, ShipInOneFleet, [Next]_vars PROVE ShipInOneFleet'
  OBVIOUS
<1> USE DEF ShipInOneFleet
<1>1. ASSUME NEW f \in FleetId, NEW g \in FleetId, NEW m \in Mission,
             NEW dest \in Planet, NEW S \in SUBSET fleets[f].ships,
             Move(f, g, m, dest, S)
      PROVE  ShipInOneFleet'
  <2>1. \A h \in FleetId \ {g} : /\ fleets'[h].ships \subseteq fleets[h].ships
                                 /\ fleets'[h].ships \cap S = {}
    BY <1>1, MoveShips
  <2>2. fleets'[g].ships = S /\ S \cap yard = {} /\ UNCHANGED yard
    BY <1>1, MoveShips
  <2> QED
    BY <2>1, <2>2
<1>2. ASSUME NEW f \in FleetId, NEW matches \in BOOLEAN, BreakupMission(f, matches)
      PROVE  ShipInOneFleet'
  BY <1>2, BreakupShips
<1>3. ASSUME NEW u \in User, NEW a \in Alliance \cup {None}, Diplomacy(u, a)
      PROVE  ShipInOneFleet'
  BY <1>3 DEF Diplomacy
<1>4. ASSUME NEW s \in Ship, NEW p \in Planet, NEW g \in FleetId,
             AddShipToPlanet(s, p, g)
      PROVE  ShipInOneFleet'
  <2>1. PICK h \in FleetId : /\ fleets'[h].ships = fleets[h].ships \cup {s}
                             /\ \A k \in FleetId \ {h} : fleets'[k] = fleets[k]
    BY <1>4, AddShipShips
  <2>2. s \in yard /\ yard' = yard \ {s}
    BY <1>4, AddShipShips
  <2> QED
    BY <2>1, <2>2
<1>5. ASSUME NEW j \in delayed, Release(j) PROVE ShipInOneFleet'
  BY <1>5 DEF Release
<1>6. ASSUME NEW j \in ready, Perform(j) PROVE ShipInOneFleet'
  <2>1. CASE Exists(j.fleet)
    BY <1>6, <2>1, PerformEffect, OneFleetEffect
  <2>2. CASE JobFails(j)
    BY <2>2 DEF JobFails
  <2> QED
    BY <1>6, <2>1, <2>2, PerformEffect
<1>7. CASE UNCHANGED vars
  BY <1>7 DEF vars
<1> QED
  BY <1>1, <1>2, <1>3, <1>4, <1>5, <1>6, <1>7 DEF Next

\* No split, merge, battle or late job lets a ship be in two fleets.
THEOREM OneFleetCorrect == Spec => []ShipInOneFleet
<1>1. Init => ShipInOneFleet
  BY DEF Init, ShipInOneFleet, NoFleet
<1> QED
  BY <1>1, OneFleetNext, TypeCorrect, PTL DEF Spec
-----------------------------------------------------------------------------
(***************************************************************************)
(* FleetMission implements ShipOwnership                                   *)
(***************************************************************************)

Ledger(u) == ShipsOf(FleetsOf(u))

\* A step that brings no ship to a fleet of another player is Lose.
LEMMA LoseStep ==
  ASSUME UNCHANGED yard, TypeOK',
         \A g \in FleetId : \A s \in fleets'[g].ships :
           \E e \in FleetId : /\ s \in fleets[e].ships
                              /\ fleets[e].owner = fleets'[g].owner
  PROVE  Ownership!Lose
<1>1. \A u \in User : Ledger(u)' \subseteq Ledger(u)
  BY DEF Ledger, ShipsOf, FleetsOf
<1>2. \A u \in User : Ledger(u)' \in SUBSET Ship
  <2>1. \A g \in FleetId : fleets'[g].ships \subseteq Ship
    BY DEF TypeOK, Fleet, NoFleet
  <2> QED
    BY <2>1 DEF Ledger, ShipsOf, FleetsOf
<1>3. Ownership!Lose <=>
        /\ [u \in User |-> Ledger(u)]' \in [User -> SUBSET Ship]
        /\ \A u \in User : [v \in User |-> Ledger(v)]'[u]
                             \subseteq [v \in User |-> Ledger(v)][u]
        /\ UNCHANGED yard
  BY DEF Ownership!Lose, Ledger
<1> QED
  BY <1>1, <1>2, <1>3

\* Merging joins fleets with one home, so with one owner; a fight joins none.
LEMMA LoseEffect ==
  ASSUME TypeOK, TypeOK', HomeInv, NEW j \in Job, j \in ready,
         Effect(j, j.fleet, j.planet), Exists(j.fleet)
  PROVE  Ownership!Lose
<1> DEFINE f == j.fleet
<1>1. f \in FleetId
  BY DEF Job
<1>2. \A g \in FleetId : Exists(g)' => Exists(g) /\ fleets'[g].owner = fleets[g].owner
  BY EffectRows DEF SameTrip
<1>3. \A g \in FleetId : fleets'[g].ships # {} => Exists(g)'
  BY DEF TypeOK, Exists, NoFleet, Fleet, Mission
<1>4. PICK h \in FleetId :
        /\ UNCHANGED yard
        /\ \A g \in FleetId \ {h} : fleets'[g].ships \subseteq fleets[g].ships
        /\ \/ fleets'[h].ships \subseteq fleets[h].ships
           \/ /\ BasedWith(h, f)
              /\ fleets'[h].ships = fleets[h].ships \cup fleets[f].ships
  BY EffectShips
<1>5. BasedWith(h, f) => fleets[h].owner = fleets[f].owner
  BY <1>1 DEF BasedWith, HomeInv, HomeBelongsToCaptain, Exists
<1>6. \A g \in FleetId : \A s \in fleets'[g].ships :
        \E e \in FleetId : s \in fleets[e].ships /\ fleets[e].owner = fleets'[g].owner
  BY <1>1, <1>2, <1>3, <1>4, <1>5
<1> QED
  BY <1>4, <1>6, LoseStep

LEMMA BuildStep ==
  ASSUME TypeOK, HomeInv, NEW s \in Ship, NEW p \in Planet, NEW g \in FleetId,
         AddShipToPlanet(s, p, g)
  PROVE  \E u \in User : Ownership!Build(u, s)
<1>1. s \in yard /\ yard' = yard \ {s}
  BY AddShipShips
<1>2. PICK h \in FleetId :
        /\ fleets'[h].ships = fleets[h].ships \cup {s}
        /\ \/ h \in HomeFleets(p) /\ fleets'[h].owner = fleets[h].owner
           \/ fleets[h] = NoFleet /\ fleets'[h].owner = owner[p]
        /\ \A k \in FleetId \ {h} : fleets'[k] = fleets[k]
  BY AddShipShips
<1>3. owner[p] \in User
  BY DEF AddShipToPlanet, TypeOK
<1>4. fleets'[h].owner = owner[p] /\ (fleets[h].ships = {} \/ fleets[h].owner = owner[p])
  BY <1>2 DEF HomeInv, HomeBelongsToCaptain, HomeFleets, Exists, NoFleet
<1>5. \A u \in User : Ledger(u)' = IF u = owner[p] THEN Ledger(u) \cup {s} ELSE Ledger(u)
  <2> SUFFICES ASSUME NEW u \in User
               PROVE  Ledger(u)' = IF u = owner[p] THEN Ledger(u) \cup {s} ELSE Ledger(u)
    OBVIOUS
  <2>1. \A x : x \in Ledger(u)' <=>
          \E k \in FleetId : fleets'[k].owner = u /\ x \in fleets'[k].ships
    BY DEF Ledger, ShipsOf, FleetsOf
  <2>2. \A x : x \in Ledger(u) <=>
          \E k \in FleetId : fleets[k].owner = u /\ x \in fleets[k].ships
    BY DEF Ledger, ShipsOf, FleetsOf
  <2>3. CASE u = owner[p]
    BY <1>2, <1>4, <2>1, <2>2, <2>3
  <2>4. CASE u # owner[p]
    BY <1>2, <1>4, <2>1, <2>2, <2>4
  <2> QED
    BY <2>3, <2>4
<1>6. Ownership!Build(owner[p], s) <=>
        /\ s \in yard /\ yard' = yard \ {s}
        /\ [u \in User |-> Ledger(u)]' =
             [[u \in User |-> Ledger(u)] EXCEPT ![owner[p]] = @ \cup {s}]
  BY DEF Ownership!Build, Ledger
<1> QED
  BY <1>1, <1>3, <1>5, <1>6

LEMMA OwnershipNext ==
  TypeOK /\ TypeOK' /\ HomeInv /\ [Next]_vars
    => Ownership!Next \/ UNCHANGED <<yard, [u \in User |-> ShipsOf(FleetsOf(u))]>>
<1> SUFFICES ASSUME TypeOK, TypeOK', HomeInv, [Next]_vars,
                    ~ UNCHANGED <<yard, [u \in User |-> ShipsOf(FleetsOf(u))]>>
             PROVE  Ownership!Lose \/ \E u \in User, s \in Ship : Ownership!Build(u, s)
  BY DEF Ownership!Next
<1>0. UNCHANGED <<yard, fleets>> =>
        UNCHANGED <<yard, [u \in User |-> ShipsOf(FleetsOf(u))]>>
  BY DEF ShipsOf, FleetsOf
<1>1. ASSUME NEW f \in FleetId, NEW g \in FleetId, NEW m \in Mission,
             NEW dest \in Planet, NEW S \in SUBSET fleets[f].ships,
             Move(f, g, m, dest, S)
      PROVE  Ownership!Lose
  <2>1. owner[fleets[f].origin] = fleets[f].owner
    BY <1>1 DEF Move, HomeInv, HomeBelongsToCaptain
  <2>2. \A h \in FleetId : \A s \in fleets'[h].ships :
          \E e \in FleetId : s \in fleets[e].ships /\ fleets[e].owner = fleets'[h].owner
    <3> SUFFICES ASSUME NEW h \in FleetId, NEW s \in fleets'[h].ships
                 PROVE  \E e \in FleetId : /\ s \in fleets[e].ships
                                           /\ fleets[e].owner = fleets'[h].owner
      OBVIOUS
    <3>1. CASE h \in {f, g}
      BY <1>1, <2>1, <3>1, MoveShips
    <3>2. CASE h \notin {f, g}
      <4>1. fleets'[h] = fleets[h]
        BY <1>1, <3>2, MoveShips
      <4> QED
        BY <4>1
    <3> QED
      BY <3>1, <3>2
  <2> QED
    BY <1>1, <2>2, LoseStep, MoveShips
<1>2. ASSUME NEW f \in FleetId, NEW matches \in BOOLEAN, BreakupMission(f, matches)
      PROVE  Ownership!Lose
  <2>1. \A h \in FleetId : \A s \in fleets'[h].ships :
          \E e \in FleetId : s \in fleets[e].ships /\ fleets[e].owner = fleets'[h].owner
    BY <1>2, BreakupShips
  <2> QED
    BY <1>2, <2>1, LoseStep, BreakupShips
<1>3. ASSUME NEW u \in User, NEW a \in Alliance \cup {None}, Diplomacy(u, a)
      PROVE  FALSE
  BY <1>0, <1>3 DEF Diplomacy
<1>4. ASSUME NEW s \in Ship, NEW p \in Planet, NEW g \in FleetId,
             AddShipToPlanet(s, p, g)
      PROVE  \E u \in User : Ownership!Build(u, s)
  BY <1>4, BuildStep
<1>5. ASSUME NEW j \in delayed, Release(j) PROVE FALSE
  BY <1>0, <1>5 DEF Release
<1>6. ASSUME NEW j \in ready, Perform(j) PROVE Ownership!Lose
  <2>1. CASE Exists(j.fleet)
    BY <1>6, <2>1, PerformEffect, LoseEffect
  <2>2. CASE JobFails(j)
    BY <1>0, <2>2 DEF JobFails
  <2> QED
    BY <1>6, <2>1, <2>2, PerformEffect
<1>7. CASE UNCHANGED vars
  BY <1>0, <1>7 DEF vars
<1> QED
  BY <1>1, <1>2, <1>3, <1>4, <1>5, <1>6, <1>7 DEF Next

\* The fleets, their missions and late jobs keep what ShipOwnership promises.
THEOREM KeepsOwner == Spec => ShipsKeepOwner
<1>1. Init => Ownership!Init
  BY DEF Init, Ownership!Init, ShipsOf, FleetsOf, NoFleet
<1>2. TypeOK /\ TypeOK' /\ HomeInv /\ [Next]_vars
        => [Ownership!Next]_<<yard, [u \in User |-> ShipsOf(FleetsOf(u))]>>
  BY OwnershipNext
<1>3. HomeBelongsToCaptain /\ OneHomeFleet => HomeInv
  BY DEF HomeInv
<1> QED
  BY <1>1, <1>2, <1>3, TypeCorrect, HomeCorrect, PTL
     DEF Spec, ShipsKeepOwner, Ownership!Spec
-----------------------------------------------------------------------------
(***************************************************************************)
(* The jobs of a fleet and its flight                                      *)
(***************************************************************************)

\* Only fleets that were once created have jobs, so a new one has none.
JobsOfUsed == \A j \in Pending : j.fleet \in used

JobInv == /\ JobsOfUsed
          /\ MissionQueuedOnce
          /\ ReturnMeansHomeward
          /\ FlightHasJob
          /\ OutboundHasMission

\* The job queued by a flight home.
ReturnJob(j, f) == \E c \in Copy : j = AJob("return", f, None, c)

\* After its job, fleet f is gone, or untouched with the job in the failure
\* list, or on its way home with a new job, or does not fly.
LEMMA EffectFlight ==
  ASSUME TypeOK, NEW j \in Job, j \in ready,
         Effect(j, j.fleet, j.planet), Exists(j.fleet)
  PROVE  /\ UNCHANGED used /\ failed \subseteq failed'
         /\ \/ ~ Exists(j.fleet)' /\ UNCHANGED delayed
            \/ UNCHANGED <<fleets, delayed>> /\ j \in failed'
            \/ /\ fleets'[j.fleet].target = fleets'[j.fleet].origin
               /\ \E k : /\ ReturnJob(k, j.fleet) /\ k \notin Pending
                         /\ delayed' = delayed \cup {k}
            \/ /\ fleets'[j.fleet].start = fleets'[j.fleet].target
               /\ \/ fleets'[j.fleet].target = fleets'[j.fleet].origin
                  \/ /\ fleets'[j.fleet].target = fleets[j.fleet].target
                     /\ fleets'[j.fleet].origin = fleets[j.fleet].origin
               /\ UNCHANGED delayed
<1> DEFINE f == j.fleet
<1> DEFINE p == j.planet
<1>1. f \in FleetId /\ fleets[f] \in Fleet /\ fleets \in [FleetId -> Fleet \cup {NoFleet}]
  BY ExistingRow DEF Job, TypeOK
<1>2. UNCHANGED used /\ failed \subseteq failed'
  BY DEF Effect, JobFails, SendHome, MergeInto, FightLost, FightWon, FightDrawn,
         LoseDrone, Settle, Stay
<1>3. ASSUME Enqueue(delayed, "return", f, None)
      PROVE  \E k : /\ ReturnJob(k, f) /\ k \notin Pending
                    /\ delayed' = delayed \cup {k}
  BY <1>3, EnqueueAdds DEF ReturnJob
<1>4. CASE JobFails(j)
  BY <1>2, <1>4 DEF JobFails
<1>5. CASE SendHome(f, p)
  <2>1. fleets'[f].target = fleets'[f].origin
    BY <1>1, <1>5 DEF SendHome, FlyHome, Fleet
  <2> QED
    BY <1>2, <1>3, <1>5, <2>1 DEF SendHome
<1>6. ASSUME NEW h \in FleetId, MergeInto(h, f)
      PROVE  ~ Exists(f)' /\ UNCHANGED delayed
  BY <1>1, <1>6 DEF MergeInto, Merged, NoFleet, Exists
<1>7. ASSUME NEW K \in SUBSET Ship, FightLost(f, p, K)
      PROVE  ~ Exists(f)' /\ UNCHANGED delayed
  BY <1>1, <1>7 DEF FightLost, NoFleet, Exists
<1>8. ASSUME NEW K \in SUBSET Ship, FightWon(f, p, K)
      PROVE  /\ fleets'[f].target = fleets'[f].origin
             /\ Enqueue(delayed, "return", f, None)
  <2>1. fleets'[f] = FlyHome([fleets[f] EXCEPT !.ships = K], p)
    BY <1>1, <1>8 DEF FightWon
  <2> QED
    BY <1>1, <1>8, <2>1 DEF FightWon, FlyHome, Fleet
<1>9. CASE FightDrawn(f, p) \/ LoseDrone(f)
  <2>1. ~ Exists(f)' /\ UNCHANGED delayed
    BY <1>1, <1>9 DEF FightDrawn, LoseDrone, NoFleet, Exists
  <2> QED
    BY <1>2, <2>1
<1>10. ASSUME NEW C \in SUBSET Ship, Settle(f, p, C)
       PROVE  /\ fleets'[f].start = p /\ fleets'[f].target = p
              /\ fleets'[f].origin = p /\ UNCHANGED delayed
  BY <1>1, <1>10 DEF Settle, Fleet
<1>11. CASE Stay(f)
  <2>1. /\ fleets'[f].start = fleets'[f].target
        /\ fleets'[f].target = fleets[f].target
        /\ fleets'[f].origin = fleets[f].origin /\ UNCHANGED delayed
    BY <1>1, <1>11 DEF Stay, Fleet
  <2> QED
    BY <1>2, <2>1
<1> QED
  BY <1>2, <1>3, <1>4, <1>5, <1>6, <1>7, <1>8, <1>9, <1>10, <1>11 DEF Effect

\* JobInv, fleet by fleet.
FlightOK(g) ==
  Flying(g) =>
    /\ \E j \in Pending \cup failed : j.fleet = g
    /\ fleets[g].target # fleets[g].origin =>
         \E j \in Pending \cup failed : j.fleet = g /\ j.kind = fleets[g].mission

HomewardOK(g) ==
  Exists(g) /\ (\E j \in Pending : j.fleet = g /\ j.kind = "return")
    => fleets[g].target = fleets[g].origin

JobInvOK == /\ JobsOfUsed /\ MissionQueuedOnce
            /\ \A g \in FleetId : FlightOK(g) /\ HomewardOK(g)

LEMMA JobInvByFleet == TypeOK => (JobInv <=> JobInvOK)
<1> SUFFICES ASSUME TypeOK PROVE JobInv <=> JobInvOK
  OBVIOUS
<1>1. \A j \in Pending : j.fleet \in FleetId
  BY DEF TypeOK, Pending, Job
<1>2. ReturnMeansHomeward <=> \A g \in FleetId : HomewardOK(g)
  BY <1>1 DEF ReturnMeansHomeward, HomewardOK
<1>3. FlightHasJob /\ OutboundHasMission <=> \A g \in FleetId : FlightOK(g)
  BY DEF FlightHasJob, OutboundHasMission, FlightOK
<1> QED
  BY <1>2, <1>3 DEF JobInv, JobInvOK

\* A fleet that a step does not move, and whose jobs it leaves alone.
LEMMA FlightFrame ==
  ASSUME NEW g \in FleetId, FlightOK(g), HomewardOK(g),
         PendingOf(g)' = PendingOf(g), failed \subseteq failed',
         Exists(g)' => Exists(g) /\ SameTrip(g) /\ SamePlace(g)
  PROVE  FlightOK(g)' /\ HomewardOK(g)'
<1>1. \A j : j \in PendingOf(g) <=> j \in Pending /\ j.fleet = g
  BY DEF PendingOf
<1>2. \A j : j \in PendingOf(g)' <=> j \in Pending' /\ j.fleet = g
  BY DEF PendingOf
<1>3. CASE Exists(g)'
  <2>1. Exists(g) /\ SameTrip(g) /\ SamePlace(g)
    BY <1>3
  <2>2. (Flying(g))' => Flying(g)
    BY <2>1 DEF Flying, SamePlace, Exists
  <2>3. FlightOK(g)'
    BY <1>1, <1>2, <2>1, <2>2 DEF FlightOK, SameTrip, SamePlace
  <2> QED
    BY <1>1, <1>2, <2>1, <2>3 DEF HomewardOK, SameTrip, SamePlace
<1>4. CASE ~ Exists(g)'
  BY <1>4 DEF FlightOK, HomewardOK, Flying, Exists
<1> QED
  BY <1>3, <1>4

\* Jobs: the invariant of the fleet whose job is performed, and of the others.
LEMMA JobEffect ==
  ASSUME TypeOK, JobInvOK, NEW j \in Job, j \in ready,
         ready' = ready \ {j},
         Effect(j, j.fleet, j.planet), Exists(j.fleet)
  PROVE  JobInvOK'
<1> DEFINE f == j.fleet
<1>1. f \in FleetId /\ f \in used /\ UNCHANGED used /\ failed \subseteq failed'
  BY ExistingRow, EffectFlight DEF Job
<1>2. JobsOfUsed /\ MissionQueuedOnce /\ \A g \in FleetId : FlightOK(g) /\ HomewardOK(g)
  BY DEF JobInvOK
<1>3. \/ UNCHANGED delayed
      \/ \E k : ReturnJob(k, f) /\ k \notin Pending /\ delayed' = delayed \cup {k}
  BY EffectFlight
<1>4. \A k : ReturnJob(k, f) => k.fleet = f /\ k.kind = "return"
  BY DEF ReturnJob, AJob
<1>5. JobsOfUsed'
  BY <1>1, <1>2, <1>3, <1>4 DEF JobsOfUsed, Pending
<1>6. MissionQueuedOnce'
  BY <1>2, <1>3, <1>4 DEF MissionQueuedOnce, Pending
<1>7. ASSUME NEW g \in FleetId, g # f PROVE FlightOK(g)' /\ HomewardOK(g)'
  <2>1. PendingOf(g)' = PendingOf(g)
    BY <1>3, <1>4, <1>7 DEF PendingOf, Pending
  <2>2. Exists(g)' => Exists(g) /\ SameTrip(g) /\ SamePlace(g)
    BY <1>7, EffectRows
  <2> QED
    BY <1>1, <1>2, <2>1, <2>2, FlightFrame
<1>8. FlightOK(f)' /\ HomewardOK(f)'
  <2>1. CASE ~ Exists(f)'
    BY <2>1 DEF FlightOK, HomewardOK, Flying, Exists
  <2>2. CASE UNCHANGED <<fleets, delayed>> /\ j \in failed'
    <3>1. Pending' \subseteq Pending /\ Pending \subseteq Pending' \cup failed'
      BY <2>2 DEF Pending
    <3>2. Pending \cup failed \subseteq Pending' \cup failed'
      BY <1>1, <3>1
    <3> QED
      BY <1>1, <1>2, <2>2, <3>1, <3>2 DEF FlightOK, HomewardOK, Flying, Exists
  <2>3. ASSUME fleets'[f].target = fleets'[f].origin,
               NEW k, ReturnJob(k, f), delayed' = delayed \cup {k}
        PROVE  FlightOK(f)' /\ HomewardOK(f)'
    <3>1. k \in Pending' /\ k.fleet = f
      BY <1>4, <2>3 DEF Pending
    <3> QED
      BY <2>3, <3>1 DEF FlightOK, HomewardOK
  <2>4. CASE /\ fleets'[f].start = fleets'[f].target
             /\ \/ fleets'[f].target = fleets'[f].origin
                \/ /\ fleets'[f].target = fleets[f].target
                   /\ fleets'[f].origin = fleets[f].origin
             /\ UNCHANGED delayed
    <3>1. ~ (Flying(f))'
      BY <2>4 DEF Flying
    <3>2. Pending' \subseteq Pending
      BY <2>4 DEF Pending
    <3>3. HomewardOK(f)'
      BY <1>1, <1>2, <2>4, <3>2 DEF HomewardOK
    <3> QED
      BY <3>1, <3>3 DEF FlightOK
  <2> QED
    BY <2>1, <2>2, <2>3, <2>4, EffectFlight
<1> QED
  BY <1>5, <1>6, <1>7, <1>8 DEF JobInvOK

\* What the requests do to the flights: nothing but for one fleet.
LEMMA JobStep ==
  ASSUME TypeOK, JobInvOK, NEW f \in FleetId,
         used \subseteq used', failed \subseteq failed', JobsOfUsed', MissionQueuedOnce',
         \A g \in FleetId \ {f} : /\ PendingOf(g)' = PendingOf(g)
                                  /\ Exists(g)' => Exists(g) /\ SameTrip(g) /\ SamePlace(g),
         FlightOK(f)', HomewardOK(f)'
  PROVE  JobInvOK'
<1> SUFFICES ASSUME NEW g \in FleetId, g # f PROVE FlightOK(g)' /\ HomewardOK(g)'
  BY DEF JobInvOK
<1> QED
  BY FlightFrame DEF JobInvOK

LEMMA JobNext == TypeOK /\ JobInvOK /\ [Next]_vars => JobInvOK'
<1> SUFFICES ASSUME TypeOK, JobInvOK, [Next]_vars PROVE JobInvOK'
  OBVIOUS
<1>0. ASSUME UNCHANGED <<delayed, ready>>, used \subseteq used', failed \subseteq failed'
      PROVE  /\ JobsOfUsed' /\ MissionQueuedOnce'
             /\ \A g \in FleetId : PendingOf(g)' = PendingOf(g)
  BY <1>0 DEF JobInvOK, JobsOfUsed, MissionQueuedOnce, Pending, PendingOf
<1>1. ASSUME NEW f \in FleetId, NEW g \in FleetId, NEW m \in Mission,
             NEW dest \in Planet, NEW S \in SUBSET fleets[f].ships,
             Move(f, g, m, dest, S)
      PROVE  JobInvOK'
  <2>1. PICK c \in Copy : /\ AJob(m, g, dest, c) \notin Pending
                          /\ delayed' = delayed \cup {AJob(m, g, dest, c)}
    BY <1>1, EnqueueAdds DEF Move
  <2> DEFINE k == AJob(m, g, dest, c)
  <2>2. k.fleet = g /\ k.kind = m /\ m # "return" /\ m # "none"
    BY DEF AJob, Mission
  <2>3. \A j \in Pending : j.fleet # g
    BY <1>1 DEF JobInvOK, JobsOfUsed, Move
  <2> HIDE DEF k
  <2>4. ready' = ready /\ used \subseteq used' /\ g \in used' /\ UNCHANGED failed
    BY <1>1 DEF Move
  <2>5. JobsOfUsed'
    BY <2>1, <2>2, <2>4 DEF JobInvOK, JobsOfUsed, Pending, k
  <2>6. MissionQueuedOnce'
    BY <2>1, <2>2, <2>3, <2>4 DEF JobInvOK, MissionQueuedOnce, Pending, k
  <2>7. \A h \in FleetId \ {g} : PendingOf(h)' = PendingOf(h)
    BY <2>1, <2>2, <2>4 DEF PendingOf, Pending, k
  <2>8. \A h \in FleetId \ {g} : Exists(h)' => Exists(h) /\ SameTrip(h) /\ SamePlace(h)
    <3>1. fleets[f] \in Fleet /\ f # g
      BY <1>1, ExistingRow DEF Move
    <3> QED
      BY <1>1, <3>1 DEF Move, TypeOK, Exists, SameTrip, SamePlace, Fleet
  <2>9. fleets'[g].mission = m
    BY <1>1 DEF Move, TypeOK, BasedFleet
  <2>10. FlightOK(g)'
    BY <2>1, <2>2, <2>9 DEF FlightOK, Pending, k
  <2>11. HomewardOK(g)'
    BY <2>1, <2>2, <2>3, <2>4 DEF HomewardOK, Pending, k
  <2> QED
    BY <2>4, <2>5, <2>6, <2>7, <2>8, <2>10, <2>11, JobStep
<1>2. ASSUME NEW f \in FleetId, NEW matches \in BOOLEAN, BreakupMission(f, matches)
      PROVE  JobInvOK'
  <2> DEFINE removed == {j \in delayed : /\ j.kind = fleets[f].mission
                                         /\ j.fleet = f
                                         /\ j.planet = fleets[f].target}
  <2> DEFINE q == IF matches THEN delayed \ removed ELSE delayed
  <2>1. fleets[f] \in Fleet /\ f \in used
    BY <1>2, ExistingRow DEF BreakupMission
  <2>2. q \subseteq delayed /\ \A j \in delayed \ q : j.fleet = f
    OBVIOUS
  <2>3. Enqueue(q, "return", f, None)
    BY <1>2 DEF BreakupMission
  <2> HIDE DEF q
  <2>4. PICK c \in Copy : /\ AJob("return", f, None, c) \notin Pending
                          /\ delayed' = q \cup {AJob("return", f, None, c)}
    BY <2>3, EnqueueAdds
  <2> DEFINE k == AJob("return", f, None, c)
  <2>5. k.fleet = f /\ k.kind = "return"
    BY DEF AJob
  <2> HIDE DEF k
  <2>6. ready' = ready /\ UNCHANGED <<used, failed>>
    BY <1>2 DEF BreakupMission
  <2>7. JobsOfUsed'
    BY <2>1, <2>2, <2>4, <2>5, <2>6 DEF JobInvOK, JobsOfUsed, Pending, k
  <2>8. MissionQueuedOnce'
    BY <2>2, <2>4, <2>5, <2>6 DEF JobInvOK, MissionQueuedOnce, Pending, k
  <2>9. \A h \in FleetId \ {f} : PendingOf(h)' = PendingOf(h)
    BY <2>2, <2>4, <2>5, <2>6 DEF PendingOf, Pending, k
  <2>10. fleets' = [fleets EXCEPT ![f] = [fleets[f] EXCEPT
                     !.start = fleets[f].target, !.target = fleets[f].origin]]
    BY <1>2, <2>1 DEF BreakupMission, TypeOK
  <2>11. \A h \in FleetId \ {f} : Exists(h)' => Exists(h) /\ SameTrip(h) /\ SamePlace(h)
    BY <2>10 DEF TypeOK, Exists, SameTrip, SamePlace
  <2>12. fleets'[f].target = fleets'[f].origin
    BY <2>1, <2>10 DEF TypeOK, Fleet
  <2>13. FlightOK(f)' /\ HomewardOK(f)'
    BY <2>4, <2>5, <2>12 DEF FlightOK, HomewardOK, Pending, k
  <2> QED
    BY <2>6, <2>7, <2>8, <2>9, <2>11, <2>13, JobStep
<1>3. ASSUME NEW u \in User, NEW a \in Alliance \cup {None}, Diplomacy(u, a)
      PROVE  JobInvOK'
  BY <1>0, <1>3, FlightFrame DEF Diplomacy, Exists, SameTrip, SamePlace, JobInvOK
<1>4. ASSUME NEW s \in Ship, NEW p \in Planet, NEW g \in FleetId,
             AddShipToPlanet(s, p, g)
      PROVE  JobInvOK'
  <2>1. UNCHANGED <<delayed, ready, failed>> /\ used \subseteq used'
    BY <1>4 DEF AddShipToPlanet
  <2>2. ASSUME NEW h \in HomeFleets(p),
               fleets' = [fleets EXCEPT ![h].ships = @ \cup {s}]
        PROVE  JobInvOK'
    <3>1. h \in FleetId /\ fleets[h] \in Fleet
      BY ExistingRow DEF HomeFleets, Exists
    <3>2. \A k \in FleetId : Exists(k)' => Exists(k) /\ SameTrip(k) /\ SamePlace(k)
      BY <2>2, <3>1 DEF TypeOK, Exists, SameTrip, SamePlace, Fleet
    <3> QED
      BY <1>0, <2>1, <3>2, FlightFrame DEF JobInvOK
  <2>3. ASSUME g \notin used,
               fleets' = [fleets EXCEPT ![g] = [BasedFleet(p) EXCEPT !.ships = {s}]]
        PROVE  JobInvOK'
    <3>1. fleets'[g].start = p /\ fleets'[g].target = p /\ fleets'[g].origin = p
      BY <2>3 DEF TypeOK, BasedFleet
    <3>2. FlightOK(g)' /\ HomewardOK(g)'
      BY <3>1 DEF FlightOK, HomewardOK, Flying
    <3>3. \A h \in FleetId \ {g} : Exists(h)' => Exists(h) /\ SameTrip(h) /\ SamePlace(h)
      BY <2>3 DEF TypeOK, Exists, SameTrip, SamePlace
    <3> QED
      BY <1>0, <2>1, <3>2, <3>3, JobStep
  <2> QED
    BY <1>4, <2>2, <2>3 DEF AddShipToPlanet
<1>5. ASSUME NEW j \in delayed, Release(j) PROVE JobInvOK'
  <2>1. Pending' = Pending /\ UNCHANGED <<used, failed, fleets>>
    BY <1>5 DEF Release, Pending
  <2>2. JobsOfUsed' /\ MissionQueuedOnce'
    BY <1>5, <2>1 DEF JobInvOK, JobsOfUsed, MissionQueuedOnce, Release
  <2>3. \A g \in FleetId : PendingOf(g)' = PendingOf(g)
    BY <2>1 DEF PendingOf
  <2> QED
    BY <2>1, <2>2, <2>3, FlightFrame DEF JobInvOK, Exists, SameTrip, SamePlace
<1>6. ASSUME NEW j \in ready, Perform(j) PROVE JobInvOK'
  <2>1. CASE Exists(j.fleet)
    BY <1>6, <2>1, PerformEffect, JobEffect
  <2>2. CASE ~ Exists(j.fleet)
    <3>1. JobFails(j) /\ ready' = ready \ {j} /\ j \in Job
      BY <1>6, <2>2, PerformEffect
    <3>2. UNCHANGED <<fleets, used, delayed>> /\ failed \subseteq failed'
      BY <3>1 DEF JobFails
    <3>3. JobsOfUsed' /\ MissionQueuedOnce'
      BY <3>1, <3>2 DEF JobInvOK, JobsOfUsed, MissionQueuedOnce, Pending
    <3>4. \A g \in FleetId \ {j.fleet} : PendingOf(g)' = PendingOf(g)
      BY <3>1, <3>2 DEF PendingOf, Pending
    <3>5. FlightOK(j.fleet)' /\ HomewardOK(j.fleet)'
      BY <2>2, <3>2 DEF FlightOK, HomewardOK, Flying, Exists
    <3>6. j.fleet \in FleetId
      BY <3>1 DEF Job
    <3> QED
      BY <3>2, <3>3, <3>4, <3>5, <3>6, JobStep DEF Exists, SameTrip, SamePlace
  <2> QED
    BY <2>1, <2>2
<1>7. CASE UNCHANGED vars
  <2>1. \A g \in FleetId : Exists(g)' => Exists(g) /\ SameTrip(g) /\ SamePlace(g)
    BY <1>7 DEF vars, Exists, SameTrip, SamePlace
  <2> QED
    BY <1>0, <1>7, <2>1, FlightFrame DEF vars, JobInvOK
<1> QED
  BY <1>1, <1>2, <1>3, <1>4, <1>5, <1>6, <1>7 DEF Next

LEMMA JobInvariant == Spec => []JobInv
<1>1. Init => JobInvOK
  BY DEF Init, JobInvOK, JobsOfUsed, MissionQueuedOnce, FlightOK, HomewardOK,
         Flying, Exists, NoFleet, Pending
<1> QED
  BY <1>1, JobNext, JobInvByFleet, TypeCorrect, PTL DEF Spec

\* Every flight has a job that will end it, or that has failed.
THEOREM FlightHasJobCorrect == Spec => []FlightHasJob
<1>1. JobInv => FlightHasJob
  BY DEF JobInv
<1> QED
  BY <1>1, JobInvariant, PTL

\* A fleet on its way out still has its mission, and has it once: nothing is
\* carried out twice, whatever is recalled and however late.
THEOREM MissionsCorrect == Spec => [](OutboundHasMission /\ MissionQueuedOnce)
<1>1. JobInv => OutboundHasMission /\ MissionQueuedOnce
  BY DEF JobInv
<1> QED
  BY <1>1, JobInvariant, PTL

\* A flight home that is queued belongs to a fleet that heads for its home.
THEOREM HomewardCorrect == Spec => []ReturnMeansHomeward
<1>1. JobInv => ReturnMeansHomeward
  BY DEF JobInv
<1> QED
  BY <1>1, JobInvariant, PTL

\* The rows of fleets are well formed at every step: no ship in two fleets, no fleet without
\* a home of its own player, no planet with two home fleets (Fleet.get_home_fleet takes any).
THEOREM FleetsHoldCorrect == Spec => []FleetsHold
<1>1. TypeOK /\ ShipInOneFleet /\ HomeBelongsToCaptain /\ OneHomeFleet => FleetsHold
  BY DEF FleetsHold
<1> QED
  BY <1>1, TypeCorrect, OneFleetCorrect, HomeCorrect, PTL

\* Rows and jobs of all flights fit together: each flight has the job that ends it, and the
\* jobs belong to fleets that still go where the job says (Fleet#breakup_mission).
THEOREM FlightsHaveJobsCorrect == Spec => []FlightsHaveJobs
<1>1. JobInv => FlightsHaveJobs
  BY DEF JobInv, FlightsHaveJobs
<1> QED
  BY <1>1, JobInvariant, PTL
-----------------------------------------------------------------------------
(***************************************************************************)
(* Who changes the ships of a fleet in flight                              *)
(***************************************************************************)

\* A based fleet rests on its home and has no mission left to carry out, at most
\* flights home from the time before it settled: no job makes it fly again.
BasedOK(g) ==
  fleets[g].mission = "based" =>
    /\ fleets[g].start = fleets[g].origin /\ fleets[g].target = fleets[g].origin
    /\ \A j \in PendingOf(g) : j.kind = "return"

BasedRests == \A g \in FleetId : BasedOK(g)

LEMMA BasedFrame ==
  ASSUME NEW g \in FleetId, BasedOK(g),
         \A j \in PendingOf(g)' : j \in PendingOf(g) \/ j.kind = "return",
         Exists(g)' => Exists(g) /\ SameTrip(g) /\ SamePlace(g)
  PROVE  BasedOK(g)'
  BY DEF BasedOK, Exists, SameTrip, SamePlace

\* All that a job queues is the flight home of its own fleet.
LEMMA PerformJobs ==
  ASSUME TypeOK, JobInvOK, NEW j \in Job, j \in ready, ready' = ready \ {j},
         Effect(j, j.fleet, j.planet), Exists(j.fleet)
  PROVE  /\ \A g \in FleetId \ {j.fleet} : PendingOf(g)' = PendingOf(g)
         /\ \A k \in PendingOf(j.fleet)' :
              k \in PendingOf(j.fleet) \ {j} \/ k.kind = "return"
<1>1. \/ UNCHANGED delayed
      \/ \E k : ReturnJob(k, j.fleet) /\ delayed' = delayed \cup {k}
  BY EffectFlight
<1>2. \A k : ReturnJob(k, j.fleet) => k.fleet = j.fleet /\ k.kind = "return"
  BY DEF ReturnJob, AJob
<1>3. j \notin delayed
  BY DEF JobInvOK, MissionQueuedOnce
<1> QED
  BY <1>1, <1>2, <1>3 DEF PendingOf, Pending

LEMMA BasedPerform ==
  ASSUME TypeOK, JobInvOK, BasedRests, NEW j, Perform(j)
  PROVE  BasedRests'
<1> DEFINE f == j.fleet
<1>1. j \in ready /\ j \in Job /\ ready' = ready \ {j} /\ f \in FleetId
  BY PerformEffect DEF Job
<1>2. CASE ~ Exists(f)
  <2>1. UNCHANGED <<fleets, delayed>>
    BY <1>2, PerformEffect DEF JobFails
  <2> QED
    BY <1>1, <2>1, BasedFrame DEF BasedRests, PendingOf, Pending, Exists, SameTrip, SamePlace
<1>3. CASE Exists(f)
  <2>1. Effect(j, f, j.planet)
    BY PerformEffect
  <2>2. \A g \in FleetId \ {f} : BasedOK(g)'
    BY <1>1, <1>3, <2>1, EffectRows, PerformJobs, BasedFrame DEF BasedRests
  <2>3. CASE j.kind = "return"
    <3>1. Return(j, f)
      BY <1>3, <2>3 DEF Perform
    <3>2. CASE JobFails(j)
      <4>1. UNCHANGED <<fleets, delayed>>
        BY <3>2 DEF JobFails
      <4> QED
        BY <1>1, <2>2, <4>1, BasedFrame
           DEF BasedRests, PendingOf, Pending, Exists, SameTrip, SamePlace
    <3>3. ASSUME NEW h \in HomeFleets(fleets[f].origin), MergeInto(h, f)
          PROVE  BasedOK(f)'
      <4>1. fleets'[f] = NoFleet
        BY <1>1, <3>3 DEF MergeInto, Merged, HomeFleets, TypeOK
      <4> QED
        BY <4>1 DEF BasedOK, NoFleet
    <3> QED
      BY <2>2, <3>1, <3>2, <3>3 DEF Return, BasedRests
  <2>4. CASE j.kind # "return"
    <3>1. fleets[f].mission # "based"
      BY <1>1, <2>4 DEF BasedRests, BasedOK, PendingOf, Pending
    <3>2. CASE Exists(f)' => SameTrip(f)
      BY <2>2, <3>1, <3>2 DEF BasedRests, BasedOK, SameTrip, Exists
    <3>3. CASE /\ fleets'[f].start = fleets'[f].origin
               /\ fleets'[f].target = fleets'[f].origin
      <4>1. \A k \in PendingOf(f) \ {j} : k.kind = "return"
        BY <1>1, <2>4 DEF JobInvOK, MissionQueuedOnce, PendingOf, Pending
      <4>2. \A k \in PendingOf(f)' : k.kind = "return"
        BY <1>1, <1>3, <2>1, <4>1, PerformJobs
      <4> QED
        BY <2>2, <3>3, <4>2 DEF BasedRests, BasedOK
    <3> QED
      BY <1>1, <1>3, <2>1, <3>2, <3>3, EffectRows
  <2> QED
    BY <2>3, <2>4
<1> QED
  BY <1>2, <1>3

LEMMA BasedNext == TypeOK /\ JobInvOK /\ BasedRests /\ [Next]_vars => BasedRests'
<1> SUFFICES ASSUME TypeOK, JobInvOK, BasedRests, [Next]_vars PROVE BasedRests'
  OBVIOUS
<1>1. ASSUME NEW f \in FleetId, NEW g \in FleetId, NEW m \in Mission,
             NEW dest \in Planet, NEW S \in SUBSET fleets[f].ships,
             Move(f, g, m, dest, S)
      PROVE  BasedRests'
  <2>1. PICK c \in Copy : delayed' = delayed \cup {AJob(m, g, dest, c)}
    BY <1>1, EnqueueAdds DEF Move
  <2>2. AJob(m, g, dest, c).fleet = g /\ m # "based"
    BY DEF AJob, Mission
  <2>3. \A h \in FleetId \ {g} : PendingOf(h)' = PendingOf(h)
    BY <1>1, <2>1, <2>2 DEF PendingOf, Pending, Move
  <2>4. \A h \in FleetId \ {g} : Exists(h)' => Exists(h) /\ SameTrip(h) /\ SamePlace(h)
    <3>1. fleets[f] \in Fleet /\ f # g
      BY <1>1, ExistingRow DEF Move
    <3> QED
      BY <1>1, <3>1 DEF Move, TypeOK, Exists, SameTrip, SamePlace, Fleet
  <2>5. fleets'[g].mission = m
    BY <1>1 DEF Move, TypeOK, BasedFleet
  <2> QED
    BY <2>2, <2>3, <2>4, <2>5, BasedFrame DEF BasedRests, BasedOK
<1>2. ASSUME NEW f \in FleetId, NEW matches \in BOOLEAN, BreakupMission(f, matches)
      PROVE  BasedRests'
  <2> DEFINE removed == {j \in delayed : /\ j.kind = fleets[f].mission
                                         /\ j.fleet = f
                                         /\ j.planet = fleets[f].target}
  <2> DEFINE q == IF matches THEN delayed \ removed ELSE delayed
  <2>1. fleets[f] \in Fleet /\ fleets[f].mission # "based"
    BY <1>2, ExistingRow DEF BreakupMission
  <2>2. q \subseteq delayed
    OBVIOUS
  <2>3. Enqueue(q, "return", f, None)
    BY <1>2 DEF BreakupMission
  <2> HIDE DEF q
  <2>4. PICK c \in Copy : delayed' = q \cup {AJob("return", f, None, c)}
    BY <2>3, EnqueueAdds
  <2>5. AJob("return", f, None, c).kind = "return"
    BY DEF AJob
  <2>6. \A h \in FleetId : \A j \in PendingOf(h)' : j \in PendingOf(h) \/ j.kind = "return"
    BY <1>2, <2>2, <2>4, <2>5 DEF PendingOf, Pending, BreakupMission
  <2>7. fleets' = [fleets EXCEPT ![f] = [fleets[f] EXCEPT
                     !.start = fleets[f].target, !.target = fleets[f].origin]]
    BY <1>2, <2>1 DEF BreakupMission, TypeOK
  <2>8. \A h \in FleetId \ {f} : Exists(h)' => Exists(h) /\ SameTrip(h) /\ SamePlace(h)
    BY <2>7 DEF TypeOK, Exists, SameTrip, SamePlace
  <2>9. fleets'[f].mission # "based"
    BY <2>1, <2>7 DEF TypeOK, Fleet
  <2> QED
    BY <2>6, <2>8, <2>9, BasedFrame DEF BasedRests, BasedOK
<1>3. ASSUME UNCHANGED fleets, Pending' = Pending PROVE BasedRests'
  BY <1>3 DEF BasedRests, BasedOK, PendingOf
<1>4. ASSUME NEW u \in User, NEW a \in Alliance \cup {None}, Diplomacy(u, a)
      PROVE  BasedRests'
  BY <1>3, <1>4 DEF Diplomacy, Pending
<1>5. ASSUME NEW s \in Ship, NEW p \in Planet, NEW g \in FleetId,
             AddShipToPlanet(s, p, g)
      PROVE  BasedRests'
  <2>1. UNCHANGED <<delayed, ready>>
    BY <1>5 DEF AddShipToPlanet
  <2>2. \A h \in FleetId : PendingOf(h)' = PendingOf(h)
    BY <2>1 DEF PendingOf, Pending
  <2>3. ASSUME NEW h \in HomeFleets(p), fleets' = [fleets EXCEPT ![h].ships = @ \cup {s}]
        PROVE  BasedRests'
    <3>1. h \in FleetId /\ fleets[h] \in Fleet
      BY ExistingRow DEF HomeFleets, Exists
    <3>2. \A k \in FleetId : Exists(k)' => Exists(k) /\ SameTrip(k) /\ SamePlace(k)
      BY <2>3, <3>1 DEF TypeOK, Exists, SameTrip, SamePlace, Fleet
    <3> QED
      BY <2>2, <3>2, BasedFrame DEF BasedRests
  <2>4. ASSUME g \notin used,
               fleets' = [fleets EXCEPT ![g] = [BasedFleet(p) EXCEPT !.ships = {s}]]
        PROVE  BasedRests'
    <3>1. fleets'[g].start = p /\ fleets'[g].target = p /\ fleets'[g].origin = p
      BY <2>4 DEF TypeOK, BasedFleet
    <3>2. PendingOf(g)' = {}
      BY <2>2, <2>4 DEF JobInvOK, JobsOfUsed, PendingOf
    <3>3. \A h \in FleetId \ {g} : Exists(h)' => Exists(h) /\ SameTrip(h) /\ SamePlace(h)
      BY <2>4 DEF TypeOK, Exists, SameTrip, SamePlace
    <3> QED
      BY <2>2, <3>1, <3>2, <3>3, BasedFrame DEF BasedRests, BasedOK
  <2> QED
    BY <1>5, <2>3, <2>4 DEF AddShipToPlanet
<1>6. ASSUME NEW j \in delayed, Release(j) PROVE BasedRests'
  BY <1>3, <1>6 DEF Release, Pending
<1>7. ASSUME NEW j \in ready, Perform(j) PROVE BasedRests'
  BY <1>7, BasedPerform
<1>8. CASE UNCHANGED vars
  BY <1>3, <1>8 DEF vars, Pending
<1> QED
  BY <1>1, <1>2, <1>4, <1>5, <1>6, <1>7, <1>8 DEF Next

\* A job changes the ships of its own fleet, of a based one that it joins, and
\* of those that rest on its planet.
LEMMA EffectOthers ==
  ASSUME TypeOK, NEW j \in Job, Effect(j, j.fleet, j.planet),
         NEW g \in FleetId, g # j.fleet, Flying(g), fleets[g].mission # "based"
  PROVE  fleets'[g].ships = fleets[g].ships
<1> DEFINE f == j.fleet
<1> DEFINE p == j.planet
<1>1. g \notin Defenders(p) /\ f \in FleetId
  BY DEF Defenders, Flying, Job
<1>2. ASSUME NEW h \in FleetId, BasedWith(h, f), MergeInto(h, f)
      PROVE  fleets'[g] = fleets[g]
  <2>1. h # g
    BY <1>2 DEF BasedWith
  <2> QED
    BY <1>2, <2>1 DEF MergeInto, Merged, TypeOK
<1>3. ASSUME NEW K \in SUBSET Ship, FightLost(f, p, K) \/ FightWon(f, p, K)
      PROVE  fleets'[g] = fleets[g]
  BY <1>1, <1>3 DEF FightLost, FightWon
<1>4. CASE FightDrawn(f, p)
  BY <1>1, <1>4 DEF FightDrawn
<1>5. CASE JobFails(j) \/ SendHome(f, p) \/ LoseDrone(f) \/ Stay(f)
  BY <1>1, <1>5 DEF JobFails, SendHome, LoseDrone, Stay, TypeOK
<1>6. ASSUME NEW C \in SUBSET Ship, Settle(f, p, C)
      PROVE  fleets'[g] = fleets[g]
  BY <1>1, <1>6 DEF Settle, TypeOK
<1> QED
  BY <1>2, <1>3, <1>4, <1>5, <1>6 DEF Effect

UntouchedStep ==
  \A f \in FleetId :
    Flying(f) /\ (\A j \in ready \ ready' : j.fleet # f)
      => fleets'[f].ships = fleets[f].ships

LEMMA UntouchedNext == TypeOK /\ BasedRests /\ [Next]_vars => UntouchedStep
<1> SUFFICES ASSUME TypeOK, BasedRests, [Next]_vars, NEW f \in FleetId, Flying(f),
                    \A j \in ready \ ready' : j.fleet # f
             PROVE  fleets'[f].ships = fleets[f].ships
  BY DEF UntouchedStep
<1>1. fleets[f].mission # "based" /\ Exists(f)
  BY DEF BasedRests, BasedOK, Flying
<1>2. ASSUME NEW e \in FleetId, NEW g \in FleetId, NEW m \in Mission,
             NEW dest \in Planet, NEW S \in SUBSET fleets[e].ships,
             Move(e, g, m, dest, S)
      PROVE  fleets'[f].ships = fleets[f].ships
  <2>1. f # e /\ f # g
    BY <1>1, <1>2, ExistingRow DEF Move, AtHome, Flying
  <2> QED
    BY <1>2, <2>1, MoveShips
<1>3. ASSUME NEW e \in FleetId, NEW matches \in BOOLEAN, BreakupMission(e, matches)
      PROVE  fleets'[f].ships = fleets[f].ships
  BY <1>3, BreakupShips
<1>4. ASSUME NEW s \in Ship, NEW p \in Planet, NEW g \in FleetId,
             AddShipToPlanet(s, p, g)
      PROVE  fleets'[f].ships = fleets[f].ships
  <2>1. PICK h \in FleetId :
          /\ h \in HomeFleets(p) \/ fleets[h] = NoFleet
          /\ \A k \in FleetId \ {h} : fleets'[k] = fleets[k]
    BY <1>4, AddShipShips
  <2>2. f # h
    BY <1>1, <2>1 DEF HomeFleets, Exists, NoFleet
  <2> QED
    BY <2>1, <2>2
<1>5. ASSUME NEW j \in ready, Perform(j)
      PROVE  fleets'[f].ships = fleets[f].ships
  <2>1. j \in Job /\ ready' = ready \ {j} /\ Effect(j, j.fleet, j.planet)
    BY <1>5, PerformEffect
  <2> QED
    BY <1>1, <2>1, EffectOthers
<1>6. CASE UNCHANGED fleets
  BY <1>6
<1> QED
  BY <1>2, <1>3, <1>4, <1>5, <1>6 DEF Next, Diplomacy, Release, vars

\* Nothing but its own jobs touches the ships of a fleet in flight: no battle,
\* merger, split or delivery (fight, merge_fleet, split_fleet, add_ship).
THEOREM FlyingFleetUntouchedCorrect == Spec => FlyingFleetUntouched
<1>1. Init => BasedRests
  BY DEF Init, BasedRests, BasedOK, NoFleet
<1>2. Init => JobInvOK
  BY DEF Init, JobInvOK, JobsOfUsed, MissionQueuedOnce, FlightOK, HomewardOK,
         Flying, Exists, NoFleet, Pending
<1>3. TypeOK /\ BasedRests /\ [Next]_vars => [UntouchedStep]_vars
  BY UntouchedNext
<1>4. Spec => [][UntouchedStep]_vars
  BY <1>1, <1>2, <1>3, JobNext, BasedNext, TypeCorrect, PTL DEF Spec
<1> QED
  BY <1>4 DEF UntouchedStep, FlyingFleetUntouched
=============================================================================
