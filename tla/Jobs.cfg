CONSTANTS
  Runs = {r1}
  Proofs = {p1, p2}
  Verifications = {v1, v2, v3}
  Program = Program
  MaxTime = 1
  MaxDeletions = 2
  NoPage = NoPage
  Limit = 2
SPECIFICATION Spec
SYMMETRY Interchangeable
INVARIANTS
  TypeOK
  PageShowsTx
  PagesNeverRegress
  SearchAgrees
  RunFound
