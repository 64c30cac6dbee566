\* One extension that reconnects while it executes a command.
CONSTANTS
  Browsers = {b1}
  Legacy = {}
  Sockets = {k1, k2}
  Commands = {q1, q2}
  None = None
SPECIFICATION Spec
PROPERTIES ReconnectSparesNewCalls
CHECK_DEADLOCK FALSE
