SPECIFICATION Spec
CONSTANTS
  Task = {t1, t2}
  dev = dev
  prd = prd
  first = first
  second = second
  refused = refused
  far = far
  DestinationId = {dev}
  ProjectRoot = {p1}
  DestinationConfig = {first, second, refused}
  MountConfigs = {m1, m2, unusable}
  Ctx = {x1, x2, x3}
  None = None
  Configs <- RevisionsOfDev
  Fingerprint <- InjectiveFingerprint
  BadTransport = {refused}
  BadMounts = {unusable}
  Silent = {}
SYMMETRY Symmetry
INVARIANTS
  TypeOK
  OneBuilderPerSlot
  UpsertHonoursConfig
  UpsertViewHonoursMounts
  ViewsUseOwnClient
  NothingBuiltTwice
PROPERTIES
  ReplacedOnlyWhenChanged
  AnswersAtomically
