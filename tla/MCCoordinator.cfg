\* Two session requests with two tasks that call under them, beside a single caller
\* that returns again and again: safety, the refinement of ExclusiveBrowser, liveness.
CONSTANTS
  Singles = {a1}
  Sessions = {s1, s2}
  Calls = {c1, c2}
  NoLease = NoLease
  Nobody = Nobody
  IdleTtl = 1
  MaxLifetime = 2
SPECIFICATION FairSpec
INVARIANTS
  OneOperation
  GrantOwned
  CallUnderLease
  NoIdleBrowser
PROPERTIES
  SessionEndsForGood
  NoCallAfterRelease
  ImplementsExclusiveBrowser
  RequestsResolve
  LeasesEnd
  CallsResolve
CHECK_DEADLOCK FALSE
