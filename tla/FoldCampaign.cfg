CONSTANTS
  None = None
  Tables <- MCTables
  FoldSets <- MCFoldSets
  Schema <- MCSchema
  Plan <- MCPlan
  Envelopes <- MCEnvelopes
  Requests <- MCRequests
  Views <- MCViews
  MaxHandle = 3
SPECIFICATION Spec
INVARIANTS
  FoldViewsSeparate
  ScoredOnce
  TableViewsExportable
CHECK_DEADLOCK FALSE
