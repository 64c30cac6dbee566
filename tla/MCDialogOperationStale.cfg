\* One operation that opens two dialogs and one client that responds.
CONSTANTS
  Ops = {p1}
  Responds = {w1}
  Snapshots = {c1}
  Tabs = {t1}
  None = None
  MaxDialogs = 2
  MaxFaults = 0
  MaxEvents = 9
SPECIFICATION Spec
PROPERTIES
  StaleRefNeverActs
CHECK_DEADLOCK FALSE
