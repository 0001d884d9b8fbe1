SPECIFICATION Spec
CONSTANTS
  Count <- MCCount
  UsizeMax = 127
  TextLen = 1
  Foreign = Foreign
  Fingerprint <- MCFingerprint
  None = None
  Document <- MCDocument
  ForeignFile <- MCForeign
  Absent = Absent
  MaxEnd = 50
INVARIANTS
  ReadsInBounds
  ReservationsBounded
  RoundTrip
  AckedLoads
  PortableStaysInside
