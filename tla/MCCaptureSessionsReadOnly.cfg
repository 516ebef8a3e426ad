CONSTANTS
  a1 = a1
  t1 = t1
  w1 = w1
  m1 = m1
  m2 = m2
  Off = Off
  Agents = {}
  Tuis = {t1}
  Webuis = {w1}
  Mcps = {}
  ReadOnly = {w1}
  Control = {}
  Casts = {{t1, w1}}
  MaxBacklog = 1
  Limit = 1
SPECIFICATION Spec
INVARIANT ReadOnlyKeepsConfig
