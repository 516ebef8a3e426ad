CONSTANTS
  s1 = s1
  s2 = s2
  e1 = e1
  e2 = e2
  Hole = Hole
  Sessions = {s1, s2}
  Events = {e1, e2}
  Initial = 1
  MaxEvents = 3
  Guarded = TRUE
SPECIFICATION Spec
SYMMETRY Alike
INVARIANTS TypeOK LeftoversReadable StaysInsideTheFile RefusesOnlyWhenFull DirectoryIsGivenBack
PROPERTY KeepsTheHistory
