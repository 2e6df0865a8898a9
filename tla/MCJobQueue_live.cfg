\* Liveness of one job under failures, one process death and one fast clock.
SPECIFICATION FairSpec
CONSTANTS
  Requests = {r1}
  Services = {s1}
  Registered = {s1}
  Keys = {}
  Workers = {w1, w2}
  MaxAttempts = 3
  BatchSize = 1
  Lease = 1
  Skew <- MCSkew
  Fast = w2
  MaxSkew = 1
  ApiSkew = 0
  None = None
PROPERTIES
  EveryJobSettles
  ImplementsEvaluationJob
