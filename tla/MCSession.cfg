SPECIFICATION Spec
CONSTANTS
  Request = {r1, r2, r3}
  Handler = {h1, h2}
  ProjectRoot = {pA, pB}
  Options = {parentheses, slash}
  Default = parentheses
  None = None
SYMMETRY Symmetry
INVARIANTS
  TypeOK
  BoundAsAWhole
  RefusedOnlyWhenBound
  HandlersShareBinding
