SPECIFICATION NavSpec
CONSTANTS
  dev = dev
  first = first
  second = second
  t1 = t1
  t2 = t2
  pA = pA
  pB = pB
  m1 = m1
  m2 = m2
  Task = {t1, t2}
  DestinationId = {dev}
  ProjectRoot = {pA}
  DestinationConfig = {first}
  MountConfigs = {m1, m2}
  Ctx = {x1}
  None = None
  Configs <- OneRevision
  Fingerprint <- InjectiveFingerprint
  BadTransport = {}
  BadMounts = {}
  Silent = {}
  Root <- SameProject
  Portal = Portal
  Missing = Missing
  ProjectFiles <- TwoListsOrMissing
  DestinationFiles = {first, Missing}
  Asked <- RootAndBelow
VIEW Observable
SYMMETRY SymmetryOfTasks
INVARIANTS
  NavTypeOK
  LoadsAreCurrent
  CachedViewNeedsNoFiles
