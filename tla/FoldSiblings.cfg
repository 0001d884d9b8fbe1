CONSTANTS
  None = None
  Tables <- MCTables
  FoldSets <- MCPartitions
  Schema <- MCSchema
  Plan <- MCPlan
  Envelopes <- MCEnvelopes
  Requests <- MCRequests
  Views <- MCViews
  MaxHandle = 3
SPECIFICATION Spec
INVARIANT SiblingsTogether
CHECK_DEADLOCK FALSE
