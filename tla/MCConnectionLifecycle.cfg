SPECIFICATION FairSpec
CONSTANTS
  Conns = {c1, c2, c3}
  IdleTimeout = 2
INVARIANTS
  TypeOK
  ActiveCountExact
  DeadlineIffUnused
  NoExitWhileServing
PROPERTIES
  KeepsLifetime
  AbandonedProcessExits
