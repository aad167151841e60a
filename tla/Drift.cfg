SPECIFICATION Spec
CONSTANTS
  Base <- MCBase
  FieldValues <- MCChoices
  MaxEdited = 2
  PackageComponents <- MCComponents
  Alphabet <- MCAlphabet
  Architectures <- MCArchitectures
  defaultRegistrySecretNamespace <- MCNamespace
  None = None
INVARIANTS
  TypeOK
  NoMissedEdit
  NoSpuriousDrift
