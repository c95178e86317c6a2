SPECIFICATION MCSpec
CONSTANTS
  Uids = {u1, u2, u3}
  Peers = {u1}
  MaximumRequests = 2
  MaximumUids = 2
  Minute = 2
  Slots = {1, 2, 3, 4}
  Conns = {c1, c2}
  ConnectionLimit = 1
  MaxStops = 1
INVARIANTS
  PermitsAreConserved
  AnswersAreTrue
  BudgetsAreKept
PROPERTIES
  ConnectionsAreAccepted
  OnlyCrowdsEvict
