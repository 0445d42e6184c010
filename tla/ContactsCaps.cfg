CONSTANTS
  a1 = a1  a2 = a2  a3 = a3  a4 = a4  run1 = run1  w1 = w1  w2 = w2
  e1 = e1  e2 = e2  e3 = e3  e4 = e4  e5 = e5  l1 = l1
  NoAccount = NoAccount
  ImportRun = ImportRun
  NoValue = NoValue
  Runs = {run1}
  Values = {e1, e2, e3, e4, e5, l1}
  Accounts = {a1, a2, a3, a4}
  Stored = {a1, a2, a4}
  Finds <- Many
  Garbled = {a4}
  Files <- ProfileOnly
  Items <- AnySearch
  InitialBudget <- TwoOrOne
  Workers = {w1, w2}
  MaxContactsPerAccount = 2
  MaxContactsTotalPerRun = 2
  MaxAborts = 1
SPECIFICATION Spec
INVARIANTS
  TypeOK
  ContactsAreWhole
  ContactCapsOvershootBounded
  BestAreKept
  CompletedFoundSomebody
PROPERTIES
  ImplementsCountedCaps
SYMMETRY SymmetricWorkers
