CONSTANTS
  Runs = {r1}
  Proofs = {p1, p2}
  Verifications = {v1}
  Program = Program
  MaxTime = 1
  MaxDeletions = 0
  NoPage = NoPage
  Limit = 2
SPECIFICATION Spec
SYMMETRY Interchangeable
INVARIANTS
  SearchAnswered
