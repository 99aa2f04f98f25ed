SPECIFICATION Spec
CONSTANTS
  ReceiveLease = 1
  LegacyOpenWindow = 2
  ChallengeTTL = 2
  BeginsWindow = 1
  BeginsCap = 2
  RecordsCap = 1
  Suppression = 1
  NumAttempts = 2
  Requests = {r1}
  Copies = {c1, c2}
  MaxSkew = 1
  CacheCap = 1
  NoRequest = NoRequest
SYMMETRY Symmetry
INVARIANTS GoneStaysGone
PROPERTIES ImplementsAuthorization NoStaleAdmission ApprovedIsShown
