SPECIFICATION FairSpec
CONSTANTS
  Sources <- AllForms
  ResourceName <- MCResourceName
  Namespaces <- AnyNamespace
  MaxEdits = 3
CHECK_DEADLOCK FALSE
INVARIANTS
  TypeOK
  AppliedIsFound
  
PROPERTIES
  DeletionEnds
