\* One request is enough for the shutdown to cut it off.
SPECIFICATION MCSpec
CONSTANTS
  Half = 16
  Environments <- MCEnvironments
  Requests = {q1}
  Calls = 2
INVARIANT RequestsDrained
