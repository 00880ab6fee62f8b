SPECIFICATION Spec
CONSTANTS
  MountConfigs <- MountLists
  None = None
  Environments <- StartEnvironments
INVARIANTS
  MountsSelectSomething
