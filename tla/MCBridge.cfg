\* A v1 and a v2 extension, three connections between them, and one call.
CONSTANTS
  Browsers = {b1, b2}
  Legacy = {b2}
  Sockets = {k1, k2, k3}
  Commands = {q1}
  None = None
SPECIFICATION FairSpec
INVARIANTS
  LiveCallsAreRegistered
  RoutedExactly
  LeavesForGood
PROPERTIES
  OnlyOwnersDeregister
  CallsFailWithTheirConnection
  CallsReturn
CHECK_DEADLOCK FALSE
