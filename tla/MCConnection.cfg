\* A server that comes and goes, settings that change, a worker that is stopped.
SPECIFICATION Spec
CONSTANTS
  Sockets = {s1, s2, s3}
  None = None
  Settings = {u1, u2}
  MaxEvents = 5
INVARIANTS
  OneLiveSocket
  NeverGivesUp
PROPERTY ServerIsFound
CHECK_DEADLOCK FALSE
