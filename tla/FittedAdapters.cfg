SPECIFICATION Spec
CONSTANTS
  t1 = t1
  t2 = t2
  s1 = s1
  s2 = s2
  Thread = {t1, t2}
  Store = {s1, s2}
  Ref <- MCRef
  Manifest <- MCManifest
  MRequest <- MCMRequest
  Fingerprint <- MCFingerprint
  None = None
  MaxHandle <- MCMaxHandle
SYMMETRY Symmetry
INVARIANTS
  StoreSafe
  RegistrationsAreFresh
  AnswersMatchParams
  ManifestOutcome
