CONSTANTS
  None = None
  Envelopes <- MCEnvelopes
  Requests <- MCRequests
  Views <- MCViews
  MaxHandle = 2
SPECIFICATION ArenaSpec
INVARIANT AcceptedViewsExportable
CHECK_DEADLOCK FALSE
