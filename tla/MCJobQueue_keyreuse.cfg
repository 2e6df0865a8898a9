\* Two requests for two services with the same Idempotency-Key.
SPECIFICATION Spec
CONSTANTS
  Requests = {r1, r2}
  Services = {s1, s2}
  Registered = {s1, s2}
  Keys = {k1}
  Workers = {w1}
  MaxAttempts = 1
  BatchSize = 1
  Lease = 1
  Skew <- MCSkew
  Fast = None
  MaxSkew = 0
  ApiSkew = 0
  None = None
INVARIANTS
  AcceptedMeansQueued
