\* Two overlapping patches of different fields.
SPECIFICATION Spec
CONSTANTS
  Registrations = {r1}
  Updates = {u1, u2}
  Names = {n1}
  Inputs <- MCInputs
  Patches <- MCPatches
  MaxInteger = 2
  None = None
SYMMETRY MCSymmetry
CHECK_DEADLOCK FALSE
INVARIANTS
  NoLostPatches
