SPECIFICATION FairSpec
CONSTANTS
  Task = {t1, t2}
  dev = dev
  prd = prd
  first = first
  second = second
  refused = refused
  far = far
  DestinationId = {dev, prd}
  ProjectRoot = {p1}
  DestinationConfig = {first, far}
  MountConfigs = {m1}
  Ctx = {x1, x2, x3, x4}
  None = None
  Configs <- TwoDestinations
  Fingerprint <- InjectiveFingerprint
  BadTransport = {}
  BadMounts = {}
  Silent = {far}
PROPERTIES
  EveryCallEnds
