\* Three operations, a recorder that captures frames, and close() at any time.
CONSTANTS
  Runs = {r1, r2, r3}
  Captures = {f1}
  Closer = Closer
  None = None
SPECIFICATION FairSpec
INVARIANTS
  OneWorker
  FocusTakenBack
  NothingAfterClose
  WaitersCounted
PROPERTIES
  NothingStartsOnceOver
  RunsGetTheirTurn
  CloseReturns
CHECK_DEADLOCK FALSE
