SPECIFICATION ProgressSpec
CONSTANTS
  None = None
  Precedes <- MCPrecedes
  TextLength <- MCTextLength
  CaseOf <- MCCaseOf
  Snake <- MCSnake
  MethodOf <- MCMethodOf
  Synthetic <- MCSynthetic
  TraitImpls <- MCTraitImpls
  Config <- MCConfig
  ProjectDirs <- MCProjectDirs
  SourceFacts <- MCSourceFacts
  Writable <- MCWritable
  Calls <- MCCalls
  Verifiable <- MCVerifiable
  Requests <- MCRequests
  MaxEdits = 1
INVARIANTS
  PortingNeverRegresses
  PortAddsUp
  FrontierFollowsPlan
  FromAgreesWithAll
