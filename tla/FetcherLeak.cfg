SPECIFICATION Spec
CONSTANTS
  t1 = t1
  t2 = t2
  Thread = {t1}
  MaxObjects = 1
  Child <- MCChild
  MaxRequests = 1
  MaxFetchers = 1
  HostString = {"null", "text", "empty"}
INVARIANTS
  FetchMessagesFreed
