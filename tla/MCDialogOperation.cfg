\* Two operations, two tabs, one dialog and two faults: an operation may follow one
\* whose dialog is answered, interrupted or gone, on the same tab or another.
\* Operations run once, so the behaviour may stop.
CONSTANTS
  p1 = p1
  p2 = p2
  t1 = t1
  t2 = t2
  Ops = {p1, p2}
  Responds = {w1}
  Snapshots = {c1}
  Tabs = {t1, t2}
  None = None
  MaxDialogs = 1
  MaxFaults = 2
  MaxEvents = 9
SPECIFICATION Spec
SYMMETRY Interchangeable
INVARIANTS
  OneSession
  AnswerableWhileOpen
CHECK_DEADLOCK FALSE
