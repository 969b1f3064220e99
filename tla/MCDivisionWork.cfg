SPECIFICATION Spec
CONSTANTS
  Divisions = {d1, d2}
  Users = {u1}
  Items = {i1, i2}
  Requests = {r1, r2}
  None = None
SYMMETRY Symmetry
CONSTRAINTS
  OneRoster
  OneForeigner
INVARIANTS
  TypeOK
  OrphansArriveLate
  AssigneeHasBeenMember
PROPERTIES
  DeletedIsFinal
