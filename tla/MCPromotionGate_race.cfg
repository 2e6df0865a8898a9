\* One candidate, two racing evaluate requests, two services, one worker clock fast.
SPECIFICATION Spec
CONSTANTS
  Candidates = {c1}
  Handlers = {h1, h2}
  Services = {s1, s2}
  Evaluations = {e1, e2}
  Skew <- MCFastClock
  MaxTime = 1
  None = None
SYMMETRY MCSymmetry
CHECK_DEADLOCK FALSE
INVARIANTS
  DecisionsSound
  DecisionAudited
  FreshAsOfRequest
PROPERTIES
  DecidedOnce
  ImplementsPromotion
