CONSTANTS
  Legs <- OneLeg
  MaxOpens = 1
  MaxVerify = 2
  MaxErrors = 1
  Narrow = FALSE
SPECIFICATION FairSpec
CHECK_DEADLOCK FALSE
INVARIANTS TrackedIsOwn FallbackRepeatsLostOnly
PROPERTIES OrphansRemoved BracketSettles
