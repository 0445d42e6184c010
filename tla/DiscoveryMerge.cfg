CONSTANTS
  r1 = r1  d1 = d1  d2 = d2  n1 = n1
  e1 = e1  e2 = e2  e3 = e3
  q1 = q1  q2 = q2  q3 = q3  w1 = w1  w2 = w2
  NoKey = NoKey  NoAccount = NoAccount  NoQuery = NoQuery
  Registries = {r1}
  Domains = {d1, d2}
  Names = {n1}
  Evidence = {e1, e2, e3}
  Queries = {q1, q2, q3}
  Known = {q1, q2}
  Items <- Rows
  Enqueued <- TwoQueriesOrOneRow
  Answers <- SeveralAnswers
  InitialBudget <- TwoForTheFirst
  Posted <- TwoPosts
  Workers = {w1, w2}
  MaxAccounts = 2
  MaxAborts = 1
SPECIFICATION Spec
INVARIANTS
  TypeOK
  TablesFitTogether
  UnracedAccountsConverge
  RowsKeepTheCap
  UndisturbedRowsTellTheTruth
PROPERTIES
  UnracedAccountsImprove
  ImplementsAccountBook
SYMMETRY SymmetricWorkers
CHECK_DEADLOCK FALSE
