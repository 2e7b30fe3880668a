CONSTANTS
  Inputs <- MCInputs
  MaxLength = 60
  MaxPending = 18
SPECIFICATION Spec
INVARIANTS Accepts NeverTooMany
PROPERTY Terminates
