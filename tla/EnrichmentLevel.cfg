CONSTANTS
  c1 = c1  c2 = c2  c3 = c3  c4 = c4  c5 = c5  c6 = c6
  k1 = k1  k2 = k2  w1 = w1  w2 = w2
  NoContact = NoContact
  Contacts = {c1, c2, c3, c4, c5, c6}
  Stored = {c1, c2, c3, c4, c5}
  Traits <- SeveralTraits
  Keys = {k1, k2}
  Items <- Rows
  Enqueued <- OneContact
  Posted <- FromClients
  InitialBudget <- TwoForTheFirst
  Workers = {w1, w2}
  MaxProvidersPerContact = 2
  MaxAborts = 0
SPECIFICATION Spec
PROPERTIES
  LevelsNeverFall
