SPECIFICATION Spec
CONSTANTS
  buyer = buyer
  seller = seller
  t1 = t1
  t2 = t2
  None = None
  Intents = {buyer, seller}
  Trades = {t1, t2}
  Side <- MCSide
  BaseSize <- MCBaseSize
  Size <- MCSize
  Notional <- MCNotional
  Fee <- MCFee
  Rank <- MCRank
  Delays <- MCDelays
  Cutoffs = {0, 1}
  MaxTime = 3
  MaxReports = 2
  MaxEvents = 2
SYMMETRY AnyTrade
INVARIANTS TypeOK CompleteIsTrue AcceptedLedgerIsTrue
PROPERTIES OnlyLateFramesReopen
CHECK_DEADLOCK FALSE
