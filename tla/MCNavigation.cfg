SPECIFICATION NavSpec
CONSTANTS
  dev = dev
  first = first
  second = second
  t1 = t1
  t2 = t2
  pA = pA
  pB = pB
  m1 = m1
  m2 = m2
  Task = {t1, t2}
  DestinationId = {dev}
  ProjectRoot = {pA, pB}
  DestinationConfig = {first, second}
  MountConfigs = {m1, m2}
  Ctx = {x1, x2, x3}
  None = None
  Configs <- TwoRevisions
  Fingerprint <- InjectiveFingerprint
  BadTransport = {}
  BadMounts = {}
  Silent = {}
  Root <- TwoProjects
  Portal = Portal
  Missing = Missing
  ProjectFiles <- OneListEach
  DestinationFiles = {first, second}
  Asked <- RootOnly
VIEW Observable
SYMMETRY SymmetryOfTwoProjects
INVARIANTS
  LoadsAreCurrent
  WalksOwnView
PROPERTIES
  CurrentStaysCurrent
