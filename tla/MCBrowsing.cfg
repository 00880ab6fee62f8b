SPECIFICATION Spec
CONSTANTS
  System <- Systems
  Label <- PrintableLabels
  Name <- DocumentNames
  Depth = 2
INVARIANTS
  UriNamesResource
  NoDotSegments
