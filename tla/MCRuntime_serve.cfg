\* Every environment; three requests of two calls each on one connection.
SPECIFICATION MCSpec
CONSTANTS
  Half = 16
  Environments <- MCEnvironments
  Requests = {q1, q2, q3}
  Calls = 2
INVARIANTS
  PoolClosedInOrder
  RunsAsConfigured
  UserinfoNotLogged
PROPERTIES
  SignalEnds
  RequestsEnd
