SPECIFICATION Spec
CONSTANTS
  Interval = 2
  MaxTime = 4
  Identities = {order1}
  Stamps = {1, 2}
  Bytes = {body1, body2}
  IdentityLimit = 2
  None = none
CHECK_DEADLOCK FALSE
INVARIANTS TypeOK SubscribesOnce SilenceNoticed EventsOnceInOrder DoubtNeedsReads
PROPERTIES ResumeNeedsReads
