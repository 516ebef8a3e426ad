CONSTANTS
  a1 = a1
  t1 = t1
  w1 = w1
  m1 = m1
  m2 = m2
  Off = Off
  Agents = {a1}
  Tuis = {t1}
  Webuis = {w1}
  Mcps = {m1, m2}
  ReadOnly = {m1}
  Control = {m2}
  Casts = {{a1, t1, w1}, {m1, m2}}
  MaxBacklog = 2
  Limit = 1
SPECIFICATION FairSpec
INVARIANTS TypeOK ConfigFollowsItsWriter RefusalStaysVisible
PROPERTY FullHistoryStopsCapture
