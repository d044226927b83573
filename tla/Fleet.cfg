CONSTANTS
  u1 = u1
  u2 = u2
  p1 = p1
  p2 = p2
  p3 = p3
  w1 = w1
  w2 = w2
  col = col
  spy = spy
  f1 = f1
  f2 = f2
  f3 = f3
  f4 = f4
  User = {u1, u2}
  Planet = {p1, p2, p3}
  Ship = {w1, w2, col, spy}
  ColonyShip = {col}
  SpyDrone = {spy}
  FleetId = {f1, f2, f3, f4}
  Alliance = {a1}
  None = None
  StartOwner <- MCStartOwner
  MaxReturns = 2
SPECIFICATION MCSpec
INVARIANTS FleetsHold FlightsHaveJobs
PROPERTIES FlyingFleetUntouched ShipsKeepOwner FlightEnds
CHECK_DEADLOCK FALSE
