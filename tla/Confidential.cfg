SPECIFICATION Spec
CONSTANTS
  c1 = c1
  c2 = c2
  Clients = {c1, c2}
  Deployments <- MCDeployments
  Provenance <- MCProvenance
  MaxLost = 1
  FunctorKept = FALSE
  use_oak = TRUE
INVARIANTS
  ReadByAttestedOnly
  ResultIsOwn
  NothingIsLeft
CHECK_DEADLOCK FALSE
