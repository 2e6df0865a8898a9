\* Every environment; no request is needed to boot.
SPECIFICATION MCSpec
CONSTANTS
  Half = 16
  Environments <- MCEnvironments
  Requests = {q1}
  Calls = 1
INVARIANT SecretsNotLogged
