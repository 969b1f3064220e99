CONSTANTS
  Asked = Asked
  Waiting = Waiting
  None = None
  Tasks = {a}
  Lists = {k0}
  Home = k0
  Moves = {m1}
  Changes = {c1}
  Texts = {x, y}
  MaxOther = 1
  MaxVisits = 2
  MaxLapses = 1
SPECIFICATION Spec
INVARIANTS TypeOK ReadYourWrites EditKeepsOwnMoves
CONSTRAINT OneDisturbance
CHECK_DEADLOCK FALSE
