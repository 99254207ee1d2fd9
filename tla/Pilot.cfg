SPECIFICATION Spec
CONSTANTS
  Threads = {t1, t2}
  Challenges = {c1, c2, c3}
  NoChallenge = none
  Legs = 2
SYMMETRY Symmetry
INVARIANTS TypeOK OneExecutionPerApproval LegsInOrder OneLateOrder ComposedLaunchIsInert
PROPERTIES UnmatchedEndsLaunch ApprovalRefines
