SPECIFICATION ProcessSpec
CONSTANTS
  dev = dev
  first = first
  far = far
  t1 = t1
  t2 = t2
  c1 = c1
  c2 = c2
  p1 = p1
  m1 = m1
  Task = {t1, t2}
  DestinationId = {dev}
  ProjectRoot = {p1}
  DestinationConfig = {first, far}
  MountConfigs = {m1}
  Ctx = {x1}
  None = None
  Configs <- EitherConfig
  Fingerprint <- InjectiveFingerprint
  BadTransport = {}
  BadMounts = {}
  Silent = {far}
  Root <- SameProject
  Portal = Portal
  Missing = Missing
  ProjectFiles <- OneList
  DestinationFiles = {first, far}
  Asked <- RootOnly
  Conns = {c1, c2}
  IdleTimeout = 1
  Of <- OneEach
PROPERTIES
  NoRequestCutOff
  AbandonedProcessLeaves
  EveryRequestEnds
