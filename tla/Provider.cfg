CONSTANTS
  None = None
  Threads = {th1, th2}
  Envelopes <- MCEnvelopes
  Requests <- MCRequests
  Views <- MCViews
  FeatureStore <- MCFeatureStore
  TensorStore <- MCTensorStore
  Selectors <- MCSelectors
  MaxHandle = 3
SPECIFICATION Spec
INVARIANTS
  TypeOK
  ArenasInStep
  BindingsCoverViews
  TrainTestSeparation
  FusionReadsOneView
PROPERTIES
  PublishesAtomically
