SPECIFICATION Spec
CONSTANTS
  t1 = t1
  t2 = t2
  Thread = {t1, t2}
  MaxObjects = 2
  Child <- MCChild
  MaxRequests = 1
  MaxFetchers = 1
  HostString = {"null", "text"}
SYMMETRY ThreadSymmetry
INVARIANTS
  NoOutputOnFailure
  NoFault
  OnlyFailedExportsStrand
  LastErrorIsOwn
  FetcherDestroyedOnce
