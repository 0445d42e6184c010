CONSTANTS
  d1 = d1  d2 = d2  d3 = d3  r1 = r1  r2 = r2  w1 = w1  w2 = w2
  NoDraft = NoDraft
  Drafts = {d1}
  Reviewers = {r1, r2}
  Workers = {w1, w2}
  RecipientDomains <- OneDomain
  RecipientDomain <- ToOneDomain
  Standing <- AllPass
  MaxSendsPerHour = 1
  MaxSendsPerDay = 2
  MaxSendsPerTargetDomain = 1
  SendEnabled = TRUE
  InitialBudget = 3
  Choices <- ApproveOrReject
  Suppressible = {d1}
  PostedRequests <- NoRows
  PostedDispatches <- NoRows
  PushMayFail = FALSE
  MaxQueue = 1
  MaxAborts = 1
SPECIFICATION Spec
INVARIANTS
  RoutingFollowsRecord
  ReviewerDecidesOnce
  CompletedMeansLogged
PROPERTIES
  QuarantineIsPermanent
  ImplementsSendLedger
SYMMETRY SymmetricReviewers
