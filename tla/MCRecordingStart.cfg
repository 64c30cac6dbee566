\* The same, with a recording that loses its target as it starts.
SPECIFICATION Spec
CONSTANTS
  Recorders = {r1, r2}
  None = None
  Videos = {r2}
PROPERTY DetachEndsStart
CHECK_DEADLOCK FALSE
