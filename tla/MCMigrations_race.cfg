\* Three migrators of two branches and a runtime; any migrator may be killed.
SPECIFICATION Spec
CONSTANTS
  m1 = m1
  m2 = m2
  m3 = m3
  r1 = r1
  Migrators = {m1, m2, m3}
  Runtimes = {r1}
  Version = {1, 2, 3}
  Embedded <- MCReleases
  None = None
INVARIANTS
  CheckStaysTrue
  AppliedOnce
  AppliedInOrder
  SuccessIsComplete
  ServingSchemaComplete
PROPERTIES
  RefusalHasReason
  MigratorsEnd
