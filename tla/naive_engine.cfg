\* Every graph on three symbols, two effects, up to two roots; every acyclic
\* graph on four symbols with one effect.
SPECIFICATION Spec
CONSTANTS
  a = a b = b c = c d = d
  fs = fs
  Symbol = {a, b, c, d}
  Small = {a, b, c}
  Effect = {fs, net}
  Pending = Pending
  FactSets <- EngineFactSets
INVARIANTS
  EvidenceSound
  EvidenceAcyclic
  WorklistCovers
PROPERTIES
  ImplementsTrait
CHECK_DEADLOCK FALSE
