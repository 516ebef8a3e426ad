CONSTANTS
  t1 = t1
  t2 = t2
  Threads = {t1, t2}
SPECIFICATION Spec
INVARIANT NoReturnIntoFreedModule
SYMMETRY Alike
CHECK_DEADLOCK FALSE
