\* A managed server that its clients abandon.
CONSTANTS
  Singles = {a1}
  Sessions = {s1, s2}
  Calls = {c1}
  NoLease = NoLease
  IdleTtl = 2
  MaxLifetime = 3
  ShutdownAfter = 2
SPECIFICATION ManagedSpec
PROPERTIES
  DecidesOnlyWhenFree
  AbandonedServerExits
CHECK_DEADLOCK FALSE
