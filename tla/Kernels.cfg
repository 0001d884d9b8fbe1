\* Planning requests and data jobs; every behaviour ends.
SPECIFICATION Spec
CONSTANTS
  U64Max <- McU64Max
  LossyPenalty = 1000000
  FittedPenalty = 100000
  NotANumber <- McNaN
  Requests <- McRequests
  NotFinite <- McNotFinite
  ExactInteger = 4
  UsizeMax = 11
  IsizeMax = 9
  MaxRank = 3
  ByteBits = 2
  I32Max = 5
  Jobs <- McJobs
  Columns <- McColumns
  CollationPolicies <- McPolicies
  Modes = {"inner", "left", "outer"}
INVARIANT SearchIsExact
INVARIANT PlannerAcceptsItsPlans
INVARIANT PortsAreFed
INVARIANT RanksAreHonoured
INVARIANT BuffersAgree
INVARIANT FusionKeepsSamples
INVARIANT CollationFaithful
INVARIANT TargetRoutesAgree
INVARIANT GatherExact
INVARIANT ArrowDecodes
CHECK_DEADLOCK FALSE
