\* Two handlers race on the sessions of one user.
CONSTANTS
  Users = {u1}
  Tokens = {t1, t2, t3, t4}
  Requests = {r1, r2}
  None = None
  AccessTTL = 1
  RefreshTTL = 1
  Retention = 0
  MaxNow = 2
  MaxLogouts = 1
  MaxPwChanges = 1
SPECIFICATION Spec
SYMMETRY Symmetry
CONSTRAINT ShortPasswordHistories
INVARIANTS TypeOK RotationRevokesParent LogoutFinalWhenQuiet
PROPERTIES NoResurrection PurgeOnlyDead ImplementsLineage
\* The bounded clock and the finite pool of tokens run out.
CHECK_DEADLOCK FALSE
