CONSTANTS
  k1 = k1
  k2 = k2
  k3 = k3
  Keys = {k1, k2, k3}
  Unnamed = {k3}
  Rows = 2
  PageSize = 2
  MaxDrain = 2
  MaxEvents = 5
SPECIFICATION Spec
PROPERTY BackscrollKeepsWindow
