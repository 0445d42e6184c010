CONSTANTS
  a1 = a1  a2 = a2  a3 = a3  a4 = a4  a5 = a5
  f1 = f1  f2 = f2  f3 = f3  t1 = t1  g1 = g1  g2 = g2  p1 = p1
  w1 = w1  w2 = w2
  NoAccount = NoAccount
  Accounts = {a1, a2, a3, a4, a5}
  Companies <- SeveralCompanies
  Evidence = {f1, f2, f3, t1, g1, g2, p1}
  Facts <- SeveralFacts
  Items <- Rows
  Enqueued <- TwoOfOneAccountOrOneRow
  Workers = {w1, w2}
  MaxLinks = 1
  FirstLinked <- SomeEvidence
  MaxAborts = 1
SPECIFICATION Spec
INVARIANTS
  TypeOK
  PromotionsAreEarned
  RescoringIsStable
  UndisturbedRowsTellTheTruth
SYMMETRY SymmetricWorkers
CHECK_DEADLOCK FALSE
