SPECIFICATION Spec
CONSTANTS
  Orgs = {o1}
  Divisions = {d1, d2, d3}
  Users = {u1, u2, u3}
  Requests = {r1, r2}
  MaxDivisions = 1
  MaxMembers = 1
  MaxHeads = 1
  MaxBatch = 1
  None = None
SYMMETRY Symmetry
CONSTRAINT OneDimension
INVARIANTS
  TypeOK
  MemberLimitUpToRaces
  DivisionLimitUpToRaces
