\* The plan command on four files, search and plan together.
SPECIFICATION ScheduleSpec
CONSTANTS
  File = {1, 2, 3, 4}
  max_group_loc = 4
  MaxEdges = 5
  Sizes <- SizeProfiles
  Project <- Projects
INVARIANTS
  DependenciesFirst
  GroupsHonest
  WavesFollowDeps
  IdsArePortOrder
PROPERTIES
  ImplementsPortPlan
CHECK_DEADLOCK FALSE
