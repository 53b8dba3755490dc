\* The similar command on small projects.
SPECIFICATION SimilarSpec
CONSTANTS
  MaxSignatures = 5
  Request <- Requests
INVARIANTS
  FindEnds
  ClustersAsPromised
  ReportFair
CHECK_DEADLOCK FALSE
