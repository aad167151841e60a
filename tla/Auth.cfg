SPECIFICATION Spec
CONSTANTS
  Sources <- MCSources
  Namespaces = {"crossplane-system", "team"}
  defaultRegistrySecretNamespace = "crossplane-system"
  None = None
INVARIANTS
  TypeOK
  FirstFormDecides
  LoginForOwnRegistry
