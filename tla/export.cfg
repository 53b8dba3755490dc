SPECIFICATION Spec
CONSTANTS
  MaxParts = 4
  Package = "Pkg"
  Reports <- Packages
  Contexts <- Scopes
  NameOrder <- SiblingNames
INVARIANTS
  ScopedEmission
  OpsCountedHonestly
  SubscriptionsHaveAHome
CHECK_DEADLOCK FALSE
