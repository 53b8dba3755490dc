\* Every scenario: one check after another, two at once, fresh stores,
\* components.
SPECIFICATION MCSpec
CONSTANTS
  f = f g = g x = x y = y
  Symbol = {f, g, x, y}
  fs = fs net = net
  Unknown = Unknown
  Effect = {fs, net, Unknown}
  NoEffect = NoEffect
  RenderSensitive = {fs}
  NoInput = NoInput
  Crate <- Strings
  Name <- Strings
  CrateOf <- MCCrateOf
  strip_generics <- MCName
  SplitName <- MCSplitName
  Baseline = {}
  core = core adapters = adapters
  File = {core, adapters}
  NoFile = NoFile
  RegionName = {"core", "adapters"}
  p = p q = q r = r u = u
  Process = {p, q, r, u}
  InMemory = {r}
  Database <- MCDatabase
  Programs <- MCPrograms
  Documents <- MCDocuments
  Scenarios = {"alone", "shared", "fresh", "rendering"}
  Alike = {}
INVARIANTS
  Certified
  RenderingCertified
  AlarmsAreReal
  SummariesBacked
  Settled
CHECK_DEADLOCK FALSE
