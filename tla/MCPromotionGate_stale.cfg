\* A newer snapshot is stored between the read and the decision.
SPECIFICATION Spec
CONSTANTS
  Candidates = {c1}
  Handlers = {h1}
  Services = {s1}
  Evaluations = {e1, e2}
  Skew <- MCNoSkew
  MaxTime = 1
  None = None
CHECK_DEADLOCK FALSE
PROPERTIES
  ApprovalUsesLatestEvidence
