CONSTANTS
  Asked = Asked
  Waiting = Waiting
  None = None
  Tasks = {a}
  Lists = {k0, k1}
  Home = k0
  Moves = {m1, m2}
  Changes = {}
  Texts = {x}
  MaxOther = 0
  MaxVisits = 1
  MaxLapses = 0
SPECIFICATION FairSpec
INVARIANTS NoFreshPhantom
PROPERTY PhantomsResolve
CHECK_DEADLOCK FALSE
