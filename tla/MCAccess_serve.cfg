\* Every token and request by itself, races for the issuer's keys, and three
\* events under an administrator's listing.
SPECIFICATION MCSpec
CONSTANTS
  Tokens = {t1, t2}
  Requests = {q1, q2, q3}
  Modes = {"hmac", "oidc"}
  Routes = {"healthz", "readyz", "services", "service", "evaluations", "scorecard",
            "candidates", "evaluate", "candidate", "audit-events"}
  Inputs = {"good", "bad_id", "bad_json", "two_documents", "bad_limit"}
  Asks <- ManyAsks
  OtherClaims <- ManyClaims
  Lifetimes = {0, 3}
  DefaultTTL = 4
  Second = 2
  MaxTime = 6
  MaxKeys = 3
  None = None
  Events = {e1, e2, e3}
  Resources = {s1, s2}
  Fast = {e3}
  Skew = 1
  Limits = {0, 1, 2, 9}
  DefaultLimit = 2
  MaxLimit = 3
  AnyResource = AnyResource
SYMMETRY Symmetric
INVARIANTS TypeOK HandledAsAsked LifetimeKept RetryAdmitted ListingsSound
PROPERTIES OldKeysForgotten
CHECK_DEADLOCK FALSE
