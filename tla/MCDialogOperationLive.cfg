\* One operation with two dialogs and a fault, or two, one of which waits behind the
\* other, with two dialogs or a dialog and a fault; under fairness.
CONSTANTS
  Ops = {p1, p2}
  Responds = {w1}
  Snapshots = {c1}
  Tabs = {t1}
  None = None
  MaxDialogs = 2
  MaxFaults = 1
  MaxEvents = 4
SPECIFICATION FairSpec
PROPERTIES
  BlockEnds
  QueueMoves
CHECK_DEADLOCK FALSE
