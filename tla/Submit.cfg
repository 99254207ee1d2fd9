SPECIFICATION Spec
CONSTANTS
  i1 = i1
  i2 = i2
  c1 = c1
  c2 = c2
  w1 = w1
  w2 = w2
  w3 = w3
  e1 = e1
  e2 = e2
  o1 = o1
  o2 = o2
  t1 = t1
  t2 = t2
  NoIntent = NoIntent
  NoBody = NoBody
  Intents = {i1, i2}
  FokIntents = {}
  Coordinators = {c1, c2}
  Workers = {w1, w2, w3}
  Home <- TwoHomes
  Submitters = {w1, w2, w3}
  Deliverers = {}
  Recoverers = {}
  EventIds = {}
  FeedStates = {}
  OrderBodies = {}
  TradeBodies = {}
  StartsKilled = FALSE
  MaxRestarts = 1
  MaxHistory = 4
INVARIANTS AtMostOneSubmission BoundaryBeforeVenue SubmissionInv
PROPERTIES SubmissionRefines KillClosesWindow
CHECK_DEADLOCK FALSE
