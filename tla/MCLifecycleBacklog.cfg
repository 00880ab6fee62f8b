SPECIFICATION Spec
CONSTANTS
  Conns = {c1, c2}
  IdleTimeout = 1
PROPERTIES
  NoExitWhileConnected
