\* Registrations, patches, evaluations and scorecards.
SPECIFICATION MCSpec
CONSTANTS
  Registrations = {r1, r2}
  Updates = {u1, u2, u3}
  Names = {n1, n2}
  Inputs <- MCInputs
  Patches <- MCPatches
  MaxInteger = 2
  Evaluations = {e1, e2}
  Readers = {c1}
  Skew <- MCSkew
  MaxTime = 3
  None = None
SYMMETRY MCNamesAndUpdates
CHECK_DEADLOCK FALSE
INVARIANTS
  EvidenceTypeOK
  StoredServicesValid
  FlagsDecideReadiness
  OnlyOverlapLosesPatches
  NameHasOneService
  CardIsSound
  OldEvidenceIsBounded
