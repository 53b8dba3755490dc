\* Every graph of calls, and every mix of calls and signature dependencies
\* with one root, on three symbols of which one is recursive; every graph on
\* four symbols of which one has signature dependencies only.
SPECIFICATION ExplainedSpec
CONSTANTS
  Symbol = {a, b, c, d}
  Effect = {fs, net}
  Core = {a, b, c}
  Recursive = {a}
  Typed = {d}
  Roots = {b}
  Pending = Pending
  NoSymbol = NoSymbol
  None = None
  NoPair = NoPair
  FactSets <- EveryFactSet
INVARIANTS
  NeverUnderReports
  EvidenceIffCarried
PROPERTIES
  WalksExplain
  ImplementsTrait
CHECK_DEADLOCK FALSE
