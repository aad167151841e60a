SPECIFICATION Spec
CONSTANTS
  n1 = n1
  n2 = n2
  n3 = n3
  Nodes = {n1, n2, n3}
  Arches = {"amd64", "arm64"}
  defaultArchitecture = "amd64"
  None = None
SYMMETRY SameNodes
INVARIANTS
  TypeOK
  MajorityWins
