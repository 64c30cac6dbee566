\* A recorded operation and a recorded video.
SPECIFICATION Spec
CONSTANTS
  Recorders = {r1, r2}
  None = None
  Videos = {r2}
INVARIANTS
  RecordedTruly
  AllGivenBack
  QueueKeepsApart
PROPERTY RecordingReturns
CHECK_DEADLOCK FALSE
