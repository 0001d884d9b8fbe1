CONSTANTS
  None = None
  Threads = {th1, th2}
  Envelopes <- MCEnvelopes
  Requests <- MCRequests
  Views <- MCViews
  FeatureStore <- MCFeatureStore
  TensorStore <- MCTensorStore
  Selectors <- MCSelectors
  MaxHandle = 2
SPECIFICATION FairSpec
PROPERTIES
  LockGivenBack
