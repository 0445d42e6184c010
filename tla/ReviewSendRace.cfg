CONSTANTS
  d1 = d1  d2 = d2  d3 = d3  r1 = r1  r2 = r2  w1 = w1  w2 = w2
  NoDraft = NoDraft
  Drafts = {d1, d2, d3}
  Reviewers = {r1}
  Workers = {w1, w2}
  RecipientDomains <- OneDomain
  RecipientDomain <- ToOneDomain
  Standing <- AllPass
  MaxSendsPerHour = 1
  MaxSendsPerDay = 2
  MaxSendsPerTargetDomain = 1
  SendEnabled = TRUE
  InitialBudget = 3
  Choices <- ApproveOnly
  Suppressible = {}
  PostedRequests <- NoRows
  PostedDispatches <- NoRows
  PushMayFail = FALSE
  MaxQueue = 1
  MaxAborts = 0
SPECIFICATION Spec
INVARIANTS
  CapsOvershootBounded
PROPERTIES
  ImplementsSendCaps
SYMMETRY SymmetricDrafts
