CONSTANTS
  c1 = c1  c2 = c2  s1 = s1  s2 = s2  s3 = s3  e1 = e1  e2 = e2  w1 = w1  w2 = w2
  NoContact = NoContact
  Contacts = {c1, c2}
  Slots = {s1, s2}
  Evidence = {e1, e2}
  Workers = {w1, w2}
  Items <- SharedSlot
  MaxDraftsPerContact = 1
  MaxAborts = 1
SPECIFICATION Spec
INVARIANTS
  TypeOK
  ReviewedDraftsAreAnchored
  CompletedMeansReviewable
PROPERTIES
  DraftsKeepTheirText
