SPECIFICATION Spec
CONSTANTS
  System <- Systems
  Label <- LabelsFromToml
  Name <- DocumentNames
  Depth = 2
PROPERTIES
  ReturnedUriOpens
