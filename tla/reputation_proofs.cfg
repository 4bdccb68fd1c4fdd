SPECIFICATION Spec
CONSTANTS
  a = a
  b = b
  Wallets = {a, b}
  NoOne = NoOne
  None = None
  Failed = Failed
  Rejected = Rejected
  Types <- MCTypes
  Documents <- MCDocuments
  DocumentType <- MCDocumentType
  RawScore <- MCRawScore
  Sessions <- MCSessions
  Requests <- MCRequests
  MaxNonce = 4
  MAX_CREDIT_SCORE = 1000
  MAX_CHILD_WALLETS = 10
  KYC_TERM = 1
  MaxInFlight = 1
  MaxPending = 2
  MaxTime = 0
  MaxMishaps = 1
  Pages = {"web2"}
  StartingProfiles <- MCMembers
INVARIANTS
  ResultsStayWithTheirSession
  ScoreOnlyMeansCommitted
SYMMETRY Symmetry
CHECK_DEADLOCK FALSE
