\* Three starts: one job for three or a fast worker, one key, a batch with its tail.
SPECIFICATION MCSpec
CONSTANTS
  Requests = {r1, r2}
  Services = {s1, s2}
  Registered = {s1}
  Keys = {k1}
  Workers = {w1, w2, w3, w4}
  Fast = w4
  MaxAttempts = 3
  BatchSize = 2
  Lease = 2
  Skew <- MCSkew
  MaxSkew = 1
  ApiSkew = 1
  None = None
SYMMETRY MCSymmetry
INVARIANTS
  Inductive
  AttemptRunsOnce
  CompletedHasEvidence
  AuditedEvaluationsExist
  LeaseFencing
  LeaseProtects
  OneJobPerKey
PROPERTIES
  CompletedIsFinal
