CONSTANTS
  t1 = t1
  t2 = t2
  Threads = {t1, t2}
SPECIFICATION FairSpec
INVARIANTS TypeOK PatchedEntriesLeadHome NobodyIsCutOff QuietOnceDrained
PROPERTY RemovalEnds
CHECK_DEADLOCK FALSE
