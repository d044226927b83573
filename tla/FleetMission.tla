---------------------------- MODULE FleetMission ----------------------------
(***************************************************************************)
(* Fleets, their missions and the Resque jobs that carry the missions out. *)
(*                                                                         *)
(* A user splits a mission fleet off the fleet based on one of his planets *)
(* (Fleet#move); the arrival of that fleet is a delayed Resque job.  When  *)
(* its time has come the scheduler moves the job to the queue, a worker    *)
(* performs it, and most missions end by queueing the flight home.  The    *)
(* user may recall a fleet at any moment (Fleet#breakup_mission), and that *)
(* request races with the scheduler and the workers.                       *)
(*                                                                         *)
(* Amounts of ships are sets of individual ships, flight times are the     *)
(* freedom of the scheduler to release any delayed job, the strength of    *)
(* the fleets is the freedom of a fight to end either way.  Energy and     *)
(* cargo are not modelled here.                                            *)
(***************************************************************************)
EXTENDS Naturals, FiniteSets

CONSTANTS
  User,         \* the registered players
  Planet,       \* the planets
  Ship,         \* all ships that are ever built
  ColonyShip,   \* those of type 10, needed to colonize
  SpyDrone,     \* those of type 7, the only ones that spy
  FleetId,      \* primary keys of the table fleets
  Alliance,     \* the alliances a user may join
  None,         \* the null of a foreign key
  StartOwner,   \* the owner of each planet at the start
  MaxReturns    \* bound: pending ReturnToOrigin jobs a recall may reach

ASSUME FleetAssumption ==
  /\ None \notin User \cup Planet \cup Alliance
  /\ ColonyShip \subseteq Ship
  /\ SpyDrone \subseteq Ship
  /\ ColonyShip \cap SpyDrone = {}
  /\ StartOwner \in [Planet -> User \cup {None}]
  /\ MaxReturns \in Nat

VARIABLES
  fleets,       \* the table fleets, with the ships of table shipfleets
  used,         \* primary keys handed out so far
  owner,        \* planets.user_id
  alliance,     \* users.alliance_id
  yard,         \* the ships not built yet
  delayed,      \* the jobs in the scheduler's delayed queue
  ready,        \* the jobs in the queue move_fleets, due or being performed
  failed        \* jobs that raised an exception (Resque does not retry)

vars == <<fleets, used, owner, alliance, yard, delayed, ready, failed>>
-----------------------------------------------------------------------------
Mission == {"colonize", "attack", "travel", "spy", "transport"}

Fleet == [owner   : User \cup {None},
          origin  : Planet,
          start   : Planet,
          target  : Planet,
          mission : Mission \cup {"based"},
          ships   : SUBSET Ship]

\* What stands for a primary key without a row.
NoFleet == [owner |-> None, origin |-> None, start |-> None, target |-> None,
            mission |-> "none", ships |-> {}]

\* Fleet.new(planet): a fleet of the planet's owner, based on the planet.
BasedFleet(p) == [owner |-> owner[p], origin |-> p, start |-> p, target |-> p,
                  mission |-> "based", ships |-> {}]

Exists(f) == fleets[f].mission # "none"

\* The planet as the destination of fleet f, in the order the handlers ask.
\* Two users without an alliance compare equal, nil == nil.
Unowned(p)   == owner[p] = None
Own(f, p)    == owner[p] # None /\ owner[p] = fleets[f].owner
Allied(f, p) == /\ owner[p] # None
                /\ owner[p] # fleets[f].owner
                /\ alliance[owner[p]] = alliance[fleets[f].owner]
Enemy(f, p)  == ~ (Unowned(p) \/ Own(f, p) \/ Allied(f, p))

\* Fleet.get_home_fleet(p) returns one of these, or nil.
HomeFleets(p) == {h \in FleetId : /\ fleets[h].mission = "based"
                                  /\ fleets[h].origin = p}

AtHome(f) == /\ fleets[f].start = fleets[f].origin
             /\ fleets[f].target = fleets[f].origin

\* Mutant: a fight also meets the fleets that are on their way to p.
DefendersInbound(p) == {d \in FleetId : Exists(d) /\ fleets[d].target = p}

\* The fleets a fight on p is fought against.
Defenders(p) == {d \in FleetId : /\ Exists(d)
                                 /\ fleets[d].start = p
                                 /\ fleets[d].target = p}

ShipsOf(F) == UNION {fleets[f].ships : f \in F}
-----------------------------------------------------------------------------
\* Jobs: the class of a job and its arguments (a ReturnToOrigin has no planet).
\* Copies tell apart jobs that were queued more than once: a recall queues at
\* most MaxReturns flights home, a mission performed late one more.
Copy == 1 .. MaxReturns + 1

Job == [kind : Mission, fleet : FleetId, planet : Planet, copy : Copy]
         \cup [kind : {"return"}, fleet : FleetId, planet : {None}, copy : Copy]

AJob(kind, f, p, c) == [kind |-> kind, fleet |-> f, planet |-> p, copy |-> c]

\* The jobs that are still to be performed, and those of them of fleet f.
Pending == delayed \cup ready

PendingOf(f) == {j \in Pending : j.fleet = f}

\* Resque.enqueue_at(kind, f, p), on the delayed queue as q.
Enqueue(q, kind, f, p) ==
  \E c \in Copy :
    /\ AJob(kind, f, p, c) \notin Pending
    /\ \A b \in Copy : b < c => AJob(kind, f, p, b) \in Pending
    /\ delayed' = q \cup {AJob(kind, f, p, c)}

\* The exception of a job: the job is kept in the failure list, nothing else
\* has been saved.
JobFails(j) == /\ failed' = failed \cup {j}
               /\ UNCHANGED <<fleets, used, owner, alliance, yard, delayed>>
-----------------------------------------------------------------------------
\* self.return_to_origin(p): the flight home, from p, of a fleet whose row is
\* r by then.
FlyHome(r, p) == [r EXCEPT !.start = p, !.target = r.origin]

\* Mutant: return_to_origin saves the row and forgets the job.
SendHomeNoJob(f, p) ==
  /\ fleets' = [fleets EXCEPT ![f] = FlyHome(@, p)]
  /\ UNCHANGED <<used, owner, alliance, yard, delayed, failed>>

SendHome(f, p) ==
  /\ fleets'  = [fleets EXCEPT ![f] = FlyHome(@, p)]
  /\ Enqueue(delayed, "return", f, None)
  /\ UNCHANGED <<used, owner, alliance, yard, failed>>

\* h.merge_fleet(f): f's ships join h and f's row is deleted, last of all.
Merged(h, f) == [fleets EXCEPT ![h].ships = @ \cup fleets[f].ships,
                               ![f] = NoFleet]

MergeInto(h, f) ==
  /\ fleets' = Merged(h, f)
  /\ UNCHANGED <<used, owner, alliance, yard, delayed, failed>>
-----------------------------------------------------------------------------
(***************************************************************************)
(* Requests of users                                                       *)
(***************************************************************************)

\* MissionsController#send_fleet and Fleet#move, when the checks pass and the
\* home planet has the energy; otherwise the split fleet is merged back.
Move(f, g, m, dest, S) ==
  /\ Exists(f) /\ AtHome(f)
  /\ dest # fleets[f].origin
  /\ S # {} /\ S \subseteq fleets[f].ships
  /\ m = "colonize" => S \cap ColonyShip # {}
  /\ m = "spy" => \E s \in SpyDrone : S = {s}
  /\ g \notin used
  /\ used' = used \cup {g}
  /\ fleets' = [fleets EXCEPT
                  ![f].ships = @ \ S,
                  ![g] = [BasedFleet(fleets[f].origin) EXCEPT
                            !.target = dest, !.mission = m, !.ships = S]]
  /\ Enqueue(delayed, m, g, dest)
  /\ UNCHANGED <<owner, alliance, yard, ready, failed>>

\* FleetsController#breakup and Fleet#breakup_mission.  The job is removed
\* only while it is delayed.  The arguments of a spy job hold the spy power at
\* departure; research since then hides the job from remove_delayed.
BreakupMission(f, matches) ==
  LET row     == fleets[f]
      removed == {j \in delayed : /\ j.kind = row.mission
                                  /\ j.fleet = f /\ j.planet = row.target}
  IN /\ Exists(f) /\ row.mission # "based"
     /\ row.mission # "spy" => matches
     /\ Cardinality({j \in PendingOf(f) : j.kind = "return"}) < MaxReturns
     /\ Enqueue(IF matches THEN delayed \ removed ELSE delayed, "return", f, None)
     /\ fleets' = [fleets EXCEPT ![f].start = row.target,
                                 ![f].target = row.origin]
     /\ UNCHANGED <<used, owner, alliance, yard, ready, failed>>

\* A user joins or leaves an alliance while fleets are out.
Diplomacy(u, a) ==
  /\ a # alliance[u]
  /\ alliance' = [alliance EXCEPT ![u] = a]
  /\ UNCHANGED <<fleets, used, owner, yard, delayed, ready, failed>>
-----------------------------------------------------------------------------
(***************************************************************************)
(* Resque: the scheduler and the other queues                              *)
(***************************************************************************)

\* resque-scheduler finds the job due and moves it to its queue.
Release(j) ==
  /\ j \in delayed
  /\ delayed' = delayed \ {j}
  /\ ready'   = ready \cup {j}
  /\ UNCHANGED <<fleets, used, owner, alliance, yard, failed>>

\* Job AddShip: a ship built on p joins the fleet based there, which is
\* created (with primary key g) when there is none.
AddShipToPlanet(s, p, g) ==
  /\ s \in yard
  /\ owner[p] # None
  /\ yard' = yard \ {s}
  /\ \/ \E h \in HomeFleets(p) :
          /\ fleets' = [fleets EXCEPT ![h].ships = @ \cup {s}]
          /\ UNCHANGED used
     \/ /\ HomeFleets(p) = {}
        /\ g \notin used
        /\ used' = used \cup {g}
        /\ fleets' = [fleets EXCEPT ![g] = [BasedFleet(p) EXCEPT !.ships = {s}]]
  /\ UNCHANGED <<owner, alliance, delayed, ready, failed>>
-----------------------------------------------------------------------------
(***************************************************************************)
(* Jobs of the queue move_fleets                                           *)
(***************************************************************************)

\* Fleet#fight on p.  K are the surviving ships of the side that wins.
FightLost(f, p, K) ==
  /\ ShipsOf(Defenders(p)) # {}
  /\ K \subseteq ShipsOf(Defenders(p))
  /\ fleets' = [g \in FleetId |->
                  IF g = f THEN NoFleet
                  ELSE IF g \in Defenders(p)
                       THEN [fleets[g] EXCEPT !.ships = @ \cap K]
                       ELSE fleets[g]]
  /\ UNCHANGED <<used, owner, alliance, yard, delayed, failed>>

\* Mutant: the victor is left without a job.
FightWonStays(f, p, K) ==
  /\ fleets[f].ships # {} /\ K \subseteq fleets[f].ships
  /\ fleets' = [g \in FleetId |->
                  IF g = f
                  THEN FlyHome([fleets[f] EXCEPT !.ships = K], p)
                  ELSE IF g \in Defenders(p) THEN NoFleet ELSE fleets[g]]
  /\ UNCHANGED <<used, owner, alliance, yard, delayed, failed>>

FightWon(f, p, K) ==
  /\ fleets[f].ships # {}
  /\ K \subseteq fleets[f].ships
  /\ fleets' = [g \in FleetId |->
                  IF g = f
                  THEN FlyHome([fleets[f] EXCEPT !.ships = K], p)
                  ELSE IF g \in Defenders(p) THEN NoFleet ELSE fleets[g]]
  /\ Enqueue(delayed, "return", f, None)
  /\ UNCHANGED <<used, owner, alliance, yard, failed>>

FightDrawn(f, p) ==
  /\ fleets' = [g \in FleetId |-> IF g = f \/ g \in Defenders(p)
                                  THEN NoFleet ELSE fleets[g]]
  /\ UNCHANGED <<used, owner, alliance, yard, delayed, failed>>

\* AttackPlanet.  The lots that pick the lost ships run out of ships when a
\* defending fleet is empty, or under raised research factors, and raise.
Attack(j, f, p) ==
  \/ ~ Enemy(f, p) /\ SendHome(f, p)
  \/ /\ Enemy(f, p)
     /\ \/ \E K \in SUBSET ShipsOf(Defenders(p)) : FightLost(f, p, K)
        \/ \E K \in SUBSET fleets[f].ships : FightWon(f, p, K)
        \/ FightDrawn(f, p)
        \/ /\ ShipsOf(Defenders(p)) # {}
           /\ JobFails(j)

\* SpyPlanet: an enemy may shoot the drone down.
LoseDrone(f) ==
  /\ fleets' = [fleets EXCEPT ![f] = NoFleet]
  /\ UNCHANGED <<used, owner, alliance, yard, delayed, failed>>

Spy(f, p) == SendHome(f, p) \/ (Enemy(f, p) /\ LoseDrone(f))

\* Mutant: the planet is not claimed.
SettleUnclaimed(f, p, C) ==
  /\ fleets' = [fleets EXCEPT ![f] =
                  [fleets[f] EXCEPT !.origin = p, !.start = p, !.target = p,
                                    !.mission = "based",
                                    !.ships = fleets[f].ships \ C]]
  /\ UNCHANGED <<used, owner, alliance, yard, delayed>>

\* ColonizePlanet: planet.claim and the fleet is based there; one colony ship
\* is used up, and without one destroy_ship raises after all is saved.
Settle(f, p, C) ==
  /\ owner' = [owner EXCEPT ![p] = fleets[f].owner]
  /\ fleets' = [fleets EXCEPT ![f] =
                  [fleets[f] EXCEPT !.origin = p, !.start = p, !.target = p,
                                    !.mission = "based",
                                    !.ships = fleets[f].ships \ C]]
  /\ UNCHANGED <<used, alliance, yard, delayed>>

Colonize(j, f, p) ==
  \/ ~ Unowned(p) /\ SendHome(f, p)
  \/ /\ Unowned(p)
     /\ \/ \E c \in fleets[f].ships \cap ColonyShip :
             Settle(f, p, {c}) /\ UNCHANGED failed
        \/ /\ fleets[f].ships \cap ColonyShip = {}
           /\ Settle(f, p, {})
           /\ failed' = failed \cup {j}

\* TravelToPlanet: home_fleet.merge_fleet(self) raises when the planet has no
\* fleet based on it; with an ally the fleet stays.
Stay(f) ==
  /\ fleets' = [fleets EXCEPT ![f].start = fleets[f].target]
  /\ UNCHANGED <<used, owner, alliance, yard, delayed, failed>>

\* Mutant: the ships stay with the ally's home fleet.
TravelJoinsAlly(j, f, p) ==
  \/ (Unowned(p) \/ Enemy(f, p)) /\ SendHome(f, p)
  \/ (Own(f, p) \/ Allied(f, p)) /\ \E h \in HomeFleets(p) : MergeInto(h, f)
  \/ (Own(f, p) \/ Allied(f, p)) /\ HomeFleets(p) = {} /\ JobFails(j)

Travel(j, f, p) ==
  \/ (Unowned(p) \/ Enemy(f, p)) /\ SendHome(f, p)
  \/ Own(f, p) /\ \E h \in HomeFleets(p) : MergeInto(h, f)
  \/ Own(f, p) /\ HomeFleets(p) = {} /\ JobFails(j)
  \/ Allied(f, p) /\ Stay(f)

\* TransportToPlanet: unloads or not, and flies home.
Transport(f, p) == SendHome(f, p)

\* ReturnToOrigin: home_fleet.merge_fleet(fleet) raises without a home fleet.
Return(j, f) ==
  \/ \E h \in HomeFleets(fleets[f].origin) : MergeInto(h, f)
  \/ HomeFleets(fleets[f].origin) = {} /\ JobFails(j)

\* A worker takes a job off the queue; Fleet.find raises when its fleet is gone.
Perform(j) ==
  LET f == j.fleet
      p == j.planet
  IN /\ j \in ready
     /\ ready' = ready \ {j}
     /\ \/ ~ Exists(f) /\ JobFails(j)
        \/ /\ Exists(f)
           /\ \/ j.kind = "attack"    /\ Attack(j, f, p)
              \/ j.kind = "spy"       /\ Spy(f, p)
              \/ j.kind = "colonize"  /\ Colonize(j, f, p)
              \/ j.kind = "travel"    /\ Travel(j, f, p)
              \/ j.kind = "transport" /\ Transport(f, p)
              \/ j.kind = "return"    /\ Return(j, f)
-----------------------------------------------------------------------------
Init ==
  /\ fleets   = [f \in FleetId |-> NoFleet]
  /\ used     = {}
  /\ owner    = StartOwner
  /\ alliance \in [User -> Alliance \cup {None}]
  /\ yard     = Ship
  /\ delayed  = {}
  /\ ready    = {}
  /\ failed   = {}

Next ==
  \/ \E f, g \in FleetId, m \in Mission, dest \in Planet :
       \E S \in SUBSET fleets[f].ships : Move(f, g, m, dest, S)
  \/ \E f \in FleetId, matches \in BOOLEAN : BreakupMission(f, matches)
  \/ \E u \in User, a \in Alliance \cup {None} : Diplomacy(u, a)
  \/ \E s \in Ship, p \in Planet, g \in FleetId : AddShipToPlanet(s, p, g)
  \/ \E j \in delayed : Release(j)
  \/ \E j \in ready : Perform(j)

Spec == Init /\ [][Next]_vars

\* The scheduler and the workers run all the time and pass over no fleet for
\* ever; users act when they like.
Fairness ==
  \A f \in FleetId : /\ WF_vars(\E j \in delayed : j.fleet = f /\ Release(j))
                     /\ WF_vars(\E j \in ready : j.fleet = f /\ Perform(j))

FairSpec == Spec /\ Fairness
-----------------------------------------------------------------------------
(***************************************************************************)
(* Properties                                                              *)
(***************************************************************************)

Flying(f) == Exists(f) /\ fleets[f].start # fleets[f].target

\* Every variable has its type; unused primary keys have no row.
TypeOK ==
  /\ fleets \in [FleetId -> Fleet \cup {NoFleet}]
  /\ used \subseteq FleetId
  /\ \A f \in FleetId \ used : fleets[f] = NoFleet
  /\ owner \in [Planet -> User \cup {None}]
  /\ alliance \in [User -> Alliance \cup {None}]
  /\ yard \subseteq Ship
  /\ delayed \subseteq Job
  /\ ready \subseteq Job
  /\ failed \subseteq Job

\* No ship is in two fleets, and none in a fleet before it is built, however
\* splits, merges, fights and late jobs interleave (split_fleet, merge_fleet,
\* destroy_ships of fleet.rb).
ShipInOneFleet ==
  /\ \A f, g \in FleetId : f # g => fleets[f].ships \cap fleets[g].ships = {}
  /\ \A f \in FleetId : fleets[f].ships \cap yard = {}

\* A fleet belongs to the owner of its home planet, also after colonizing and
\* after late arrivals: get_home_fleet and merge_fleet never ask whose ships
\* they join.
HomeBelongsToCaptain ==
  \A f \in FleetId : Exists(f) => /\ fleets[f].owner \in User
                                  /\ owner[fleets[f].origin] = fleets[f].owner

\* At most one fleet is based on a planet: get_home_fleet takes the first row
\* it finds, a second one would never be met again by returning ships.
OneHomeFleet ==
  \A p \in Planet : \A f, g \in HomeFleets(p) : f = g

\* A fleet in flight has a job that will end its flight, pending or in the
\* failure list: no recall, arrival or fight loses it silently.
FlightHasJob ==
  \A f \in FleetId :
    Flying(f) => \E j \in Pending \cup failed : j.fleet = f

\* A flight home that is queued belongs to a fleet that heads for its home,
\* even when a mission is carried out after its recall.
ReturnMeansHomeward ==
  \A j \in Pending :
    j.kind = "return" /\ Exists(j.fleet)
      => fleets[j.fleet].target = fleets[j.fleet].origin

\* A fleet has one mission at a time and it is queued once: no mission can be
\* carried out twice.
MissionQueuedOnce ==
  /\ delayed \cap ready = {}
  /\ \A j, k \in Pending :
       j.kind # "return" /\ k.kind # "return" /\ j.fleet = k.fleet => j = k

\* A fleet on its way out has its own mission still queued, or that job has
\* failed (move, breakup_mission).
OutboundHasMission ==
  \A f \in FleetId :
    Flying(f) /\ fleets[f].target # fleets[f].origin =>
      \E j \in Pending \cup failed : /\ j.fleet = f
                                     /\ j.kind = fleets[f].mission

\* The rows of fleets, ships and planets fit together: no ship in two fleets,
\* every fleet with a home of its captain, one home fleet to a planet.
FleetsHold == TypeOK /\ ShipInOneFleet /\ HomeBelongsToCaptain /\ OneHomeFleet

\* The rows of fleets and the jobs in Resque fit together, whichever of
\* recall, scheduler and worker is faster.
FlightsHaveJobs ==
  FlightHasJob /\ ReturnMeansHomeward /\ MissionQueuedOnce /\ OutboundHasMission

\* The ships of a fleet in flight are touched by nothing but its own jobs: a
\* battle over the planet it left, or heads for, does not reach it.
FlyingFleetUntouched ==
  [][\A f \in FleetId :
       Flying(f) /\ (\A j \in ready \ ready' : j.fleet # f)
         => fleets'[f].ships = fleets[f].ships]_vars

\* A flight does not last for ever: the fleet lands, is lost, or one of its
\* jobs is in the failure list.
FlightEnds ==
  \A f \in FleetId :
    Flying(f) ~> ~ Flying(f) \/ \E j \in failed : j.fleet = f

\* What the comment on merge_fleet says (fleet.rb:886): "merges another fleet
\* with self".  So a based fleet is never merged away by its own return.
BasedFleetNotMerged ==
  [][\A j \in ready \ ready' :
       j.kind = "return" /\ fleets[j.fleet].mission = "based"
         => fleets'[j.fleet].mission = "based"]_vars

----------------------------------------------------------------------------
\* FleetMission implements ShipOwnership: the ships of a player are those of his fleets.
FleetsOf(u) == {f \in FleetId : fleets[f].owner = u}

Ownership == INSTANCE ShipOwnership
               WITH unbuilt <- yard,
                    ledger  <- [u \in User |-> ShipsOf(FleetsOf(u))]

\* No split, merge, battle or late job gives a ship to another player, brings
\* a lost ship back or adds one that the starport did not build.
ShipsKeepOwner == Ownership!Spec
=============================================================================
