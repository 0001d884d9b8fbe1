CONSTANTS
  None = None
  Envelopes <- MCEnvelopes
  Requests <- MCRequests
  Views <- MCViews
  MaxHandle = 4
SPECIFICATION ArenaSpec
INVARIANTS
  ArenaTypeOK
  ArenaConsistent
  ViewsWithinScopes
PROPERTIES
  HandlesNeverReused
  LiveHandlesImmutable
  RefinesRegistry
CHECK_DEADLOCK FALSE
