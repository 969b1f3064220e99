\* Two mutations under way, two writes; one refetch by age or one failure where
\* an answer is stored (events) and where the backend always refuses (members).
CONSTANTS
  c1 = c1
  c2 = c2
  Kinds = {"events", "divisions", "finance", "members"}
  Calls = {c1, c2}
  MaxWrites = 2
  MaxLapses = 1
  Lapsing = {"events", "members"}
  Choices = TRUE
SYMMETRY Interchangeable
SPECIFICATION Spec
INVARIANTS TypeOK OwnWritesShown EditStartsFromOwn RefusedOnlyIfPromoted
