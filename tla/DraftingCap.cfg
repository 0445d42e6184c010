CONSTANTS
  c1 = c1  c2 = c2  s1 = s1  s2 = s2  s3 = s3  e1 = e1  e2 = e2  w1 = w1  w2 = w2
  NoContact = NoContact
  Contacts = {c1}
  Slots = {s1, s2, s3}
  Evidence = {e1}
  Workers = {w1, w2}
  Items <- ThreeSlots
  MaxDraftsPerContact = 1
  MaxAborts = 0
SPECIFICATION FairSpec
INVARIANTS
  DraftCapOvershootBounded
PROPERTIES
  ImplementsDraftCap
  DraftsReachReview
