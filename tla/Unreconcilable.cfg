SPECIFICATION Spec
CONSTANTS
  i1 = i1
  i2 = i2
  c1 = c1
  c2 = c2
  w1 = w1
  w2 = w2
  w3 = w3
  e1 = e1
  e2 = e2
  o1 = o1
  o2 = o2
  t1 = t1
  t2 = t2
  NoIntent = NoIntent
  NoBody = NoBody
  Intents = {i1}
  FokIntents = {}
  Coordinators = {c1}
  Workers = {w1}
  Home <- OneHome
  Submitters = {w1}
  Deliverers = {}
  Recoverers = {w1}
  EventIds = {}
  FeedStates = {}
  OrderBodies = {o1}
  TradeBodies = {t1}
  StartsKilled = FALSE
  MaxRestarts = 0
  MaxHistory = 5
INVARIANTS CompleteIsReconcilable
CHECK_DEADLOCK FALSE
